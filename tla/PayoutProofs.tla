---------------------------- MODULE PayoutProofs ----------------------------
(***************************************************************************)
(* The payout worker, for any workers, amounts, rails and bounds.          *)
(*                                                                         *)
(* IdInv says who owns which batch: ids are unique, a transaction is built *)
(* for one batch and a batch gets one transaction, and a runner that is    *)
(* paying a batch has its rows to itself.  It holds with any number of     *)
(* runners and under every fault; NoUntrackedTransfer follows from it.     *)
(*                                                                         *)
(* The two theorems about money need one tick at a time (OneRunner).       *)
(* LoneInv: there is then one batch at most, and its transaction pays what *)
(* its rows say.  CoverInv: what a mined batch adds to the credit has      *)
(* arrived.  OwedInv: credit and rows stay below what was earned.          *)
(* ExactInv: what arrived is the credit, and the batch in flight if it was *)
(* mined.                                                                  *)
(***************************************************************************)
EXTENDS Payout, TLAPS, FiniteSetTheorems, WellFoundedInduction

-----------------------------------------------------------------------------
(* Sums.  SumFunction folds a function over its domain in an order nobody    *)
(* knows; the facts below hold in every order.                               *)

\* What a fold takes first, and what it leaves.
Pick(s) == CHOOSE x \in s : TRUE
Rest(s) == s \ {Pick(s)}

\* g is the running sum over the members of D.
Sums(g, f, D) == g = [s \in D |-> IF s = {} THEN 0 ELSE f[Pick(s)] + g[Rest(s)]]

\* The subsets with at most n members.
Small(S, n) == {s \in SUBSET S : IsFiniteSet(s) /\ Cardinality(s) <= n}

\* SumFunction is what the fold defines.
LEMMA SumIs ==
    ASSUME NEW f
    PROVE  SumFunction(f) = (CHOOSE g : Sums(g, f, SUBSET DOMAIN f))[DOMAIN f]
BY DEF SumFunction, SumFunctionOnSet, FoldFunctionOnSet, MapThenFoldSet, Sums, Pick, Rest

\* A set of naturals has a least member.
LEMMA LeastNat ==
    ASSUME NEW N \in SUBSET Nat, N # {}
    PROVE  \E n \in N : \A m \in N : n <= m
<1>1. \E n \in N : \A m \in N : ~(<<m, n>> \in OpToRel(<, Nat))
  BY NatLessThanWellFounded, WFMin
<1>2. PICK n \in N : \A m \in N : ~(<<m, n>> \in OpToRel(<, Nat))
  BY <1>1
<1>3. ASSUME NEW m \in N PROVE n <= m
  <2>1. m < n => <<m, n>> \in OpToRel(<, Nat)
    BY DEF OpToRel
  <2>2. ~(m < n)
    BY ONLY <2>1, <1>2, m \in N
  <2>. QED  BY <2>2
<1>. QED  BY <1>3

\* Taking one element leaves a smaller set.
LEMMA RestIsSmaller ==
    ASSUME NEW S, NEW n \in Nat, NEW s \in Small(S, n), s # {}
    PROVE  /\ Pick(s) \in s
           /\ n # 0
           /\ Rest(s) \in Small(S, n - 1)
           /\ Rest(s) \in Small(S, n)
<1>1. Pick(s) \in s
  BY DEF Pick
<1>2. IsFiniteSet(s) /\ Cardinality(s) <= n /\ s \subseteq S /\ Cardinality(s) \in Nat
  BY FS_CardinalityType DEF Small
<1>3. IsFiniteSet(Rest(s)) /\ Cardinality(Rest(s)) = Cardinality(s) - 1
  BY <1>1, <1>2, FS_RemoveElement DEF Rest
<1>4. Cardinality(Rest(s)) \in Nat
  BY <1>3, FS_CardinalityType
<1>5. Rest(s) \in SUBSET S
  BY <1>2 DEF Rest
<1>. QED  BY <1>1, <1>2, <1>3, <1>4, <1>5 DEF Small

\* There is a running sum over the small subsets: take the least size for
\* which there is none.
LEMMA SumsExist ==
    ASSUME NEW S, NEW f, NEW n \in Nat
    PROVE  \E g : Sums(g, f, Small(S, n))
<1>. DEFINE Bad == {m \in Nat : ~\E g : Sums(g, f, Small(S, m))}
<1>1. SUFFICES ASSUME Bad # {} PROVE FALSE
  OBVIOUS
<1>2. PICK m \in Bad : \A k \in Bad : m <= k
  BY <1>1, LeastNat
<1>3. m \in Nat /\ ~\E g : Sums(g, f, Small(S, m))
  BY <1>2
<1>4. CASE m = 0
  <2>. DEFINE g == [s \in Small(S, m) |-> 0]
  <2>1. \A s \in Small(S, m) : s = {}
    BY <1>4, RestIsSmaller
  <2>2. Sums(g, f, Small(S, m))
    BY <2>1 DEF Sums
  <2>. QED  BY <2>2, <1>3
<1>5. CASE m # 0
  <2>1. m - 1 \in Nat /\ m - 1 \notin Bad
    BY <1>2, <1>3, <1>5
  <2>2. PICK h : Sums(h, f, Small(S, m - 1))
    BY <2>1
  <2>. DEFINE g == [s \in Small(S, m) |-> IF s = {} THEN 0 ELSE f[Pick(s)] + h[Rest(s)]]
  <2>3. ASSUME NEW s \in Small(S, m), s # {} PROVE g[Rest(s)] = h[Rest(s)]
    <3>1. Rest(s) \in Small(S, m - 1) /\ Rest(s) \in Small(S, m)
      BY <1>3, <2>3, RestIsSmaller
    <3>2. h[Rest(s)] = IF Rest(s) = {} THEN 0 ELSE f[Pick(Rest(s))] + h[Rest(Rest(s))]
      BY <3>1, <2>2 DEF Sums
    <3>. QED  BY <3>1, <3>2
  <2>4. Sums(g, f, Small(S, m))
    BY <2>3 DEF Sums
  <2>. QED  BY <2>4, <1>3
<1>. QED  BY <1>4, <1>5

\* What a sum obeys.
LEMMA SumRule ==
    ASSUME NEW S, IsFiniteSet(S), NEW f \in [S -> Nat]
    PROVE  \E g : Sums(g, f, SUBSET S) /\ SumFunction(f) = g[S]
<1>1. Cardinality(S) \in Nat
  BY FS_CardinalityType
<1>2. Small(S, Cardinality(S)) = SUBSET S
  <2>1. ASSUME NEW s \in SUBSET S PROVE IsFiniteSet(s) /\ Cardinality(s) <= Cardinality(S)
    BY FS_Subset
  <2>. QED  BY <2>1 DEF Small
<1>3. \E g : Sums(g, f, SUBSET S)
  <2>1. \E g : Sums(g, f, Small(S, Cardinality(S)))
    BY <1>1, SumsExist
  <2>. QED  BY <1>2, <2>1
<1>4. Sums(CHOOSE g : Sums(g, f, SUBSET S), f, SUBSET S)
  BY <1>3
<1>. QED  BY <1>4, SumIs

\* A sum of naturals is a natural that no summand exceeds; over nothing it is
\* zero, over one summand that summand.
LEMMA SumFacts ==
    ASSUME NEW S, IsFiniteSet(S), NEW f \in [S -> Nat]
    PROVE  /\ SumFunction(f) \in Nat
           /\ \A x \in S : f[x] <= SumFunction(f)
           /\ S = {} => SumFunction(f) = 0
           /\ \A x : S = {x} => SumFunction(f) = f[x]
<1>1. PICK g : Sums(g, f, SUBSET S) /\ SumFunction(f) = g[S]
  BY SumRule
<1>2. ASSUME NEW s \in SUBSET S
      PROVE  g[s] = IF s = {} THEN 0 ELSE f[Pick(s)] + g[Rest(s)]
  BY <1>1 DEF Sums
<1>. DEFINE Good(s) == g[s] \in Nat /\ \A x \in s : f[x] <= g[s]
            Bad == {n \in Nat : \E s \in Small(S, n) : ~Good(s)}
<1>3. Bad = {}
  <2>1. SUFFICES ASSUME Bad # {} PROVE FALSE
    OBVIOUS
  <2>2. PICK m \in Bad : \A k \in Bad : m <= k
    BY <2>1, LeastNat
  <2>3. PICK s \in Small(S, m) : ~Good(s)
    BY <2>2
  <2>4. m \in Nat /\ s \in SUBSET S
    BY <2>2, <2>3 DEF Small
  <2>5. s # {}
    BY <1>2, <2>3, <2>4
  <2>6. Pick(s) \in s /\ m # 0 /\ Rest(s) \in Small(S, m - 1)
    BY <2>3, <2>4, <2>5, RestIsSmaller
  <2>7. m - 1 \in Nat /\ m - 1 \notin Bad
    BY <2>2, <2>4, <2>6
  <2>8. Good(Rest(s))
    BY <2>6, <2>7
  <2>9. g[s] = f[Pick(s)] + g[Rest(s)] /\ f[Pick(s)] \in Nat
    BY <1>2, <2>4, <2>5, <2>6
  <2>10. ASSUME NEW x \in s PROVE f[x] <= g[s]
    <3>1. x = Pick(s) \/ x \in Rest(s)
      BY DEF Rest
    <3>2. f[x] \in Nat
      BY <2>4
    <3>. QED  BY <3>1, <3>2, <2>8, <2>9
  <2>. QED  BY <2>3, <2>8, <2>9, <2>10
<1>4. Good(S)
  <2>1. S \in Small(S, Cardinality(S)) /\ Cardinality(S) \in Nat
    BY FS_CardinalityType DEF Small
  <2>. QED  BY <2>1, <1>3
<1>5. S = {} => SumFunction(f) = 0
  BY <1>1, <1>2
<1>6. ASSUME NEW x, S = {x} PROVE SumFunction(f) = f[x]
  <2>1. Pick(S) = x
    BY <1>6 DEF Pick
  <2>2. Rest(S) = {}
    BY <1>6, <2>1 DEF Rest
  <2>3. g[S] = f[x] + g[{}] /\ g[{}] = 0 /\ f[x] \in Nat
    BY <1>2, <1>6, <2>1, <2>2
  <2>. QED  BY <2>3, <1>1
<1>. QED  BY <1>1, <1>4, <1>5, <1>6

\* A set of naturals below a bound has a greatest member.
LEMMA MaxBounded ==
    ASSUME NEW N \in SUBSET Nat, N # {}, NEW n \in Nat, \A x \in N : x <= n
    PROVE  Max(N) \in N /\ \A x \in N : x <= Max(N)
<1>. DEFINE U == {m \in Nat : \A x \in N : x <= m}
<1>1. U \in SUBSET Nat /\ U # {}
  OBVIOUS
<1>2. PICK m \in U : \A k \in U : m <= k
  BY <1>1, LeastNat
<1>3. m \in N
  <2>1. SUFFICES ASSUME m \notin N PROVE FALSE
    OBVIOUS
  <2>2. PICK x \in N : TRUE
    OBVIOUS
  <2>3. m - 1 \in Nat /\ \A y \in N : y <= m - 1
    <3>1. \A y \in N : y \in Nat /\ y <= m /\ y # m
      BY <1>2, <2>1
    <3>. QED  BY <3>1, <2>2, <1>2
  <2>4. m - 1 \in U
    BY <2>3
  <2>. QED  BY <2>4, <1>2
<1>4. \E x \in N : \A y \in N : x >= y
  BY <1>2, <1>3
<1>5. Max(N) \in N /\ \A y \in N : Max(N) >= y
  BY <1>4 DEF Max
<1>. QED  BY <1>5

-----------------------------------------------------------------------------
(* Types. *)

Unsent   == {"create", "sign", "submit"}
Making   == Unsent \cup {"attach"}
Looking  == {"gettx", "utxos"}
Chosen   == {"mempool", "balance"}
Learned  == {"unknown", "unsigned", "broadcasts"}
Answers  == {"none", "pending", "unknown", "unintended", "bynode"}

TypeInv ==
    /\ accrued \in [Workers -> 0..MaxAccrued] /\ paid \in [Workers -> Nat]
    /\ \A b \in inflight : b \in Batch
    /\ run \in [Runners -> Run]
    /\ learned \in [Runners -> Learned]
    /\ rail \in Rails /\ oldNode \in BOOLEAN
    /\ txs \in Seq(Tx) /\ Len(txs) <= MaxTx
    /\ utxo \in 0..Len(txs)
    /\ parked \subseteq DOMAIN txs
    /\ received \in [Workers -> Nat]
    /\ faults \in Nat

\* A batch pays some of the workers, each a positive amount.
LEMMA SatsFacts ==
    ASSUME NEW s \in Sats
    PROVE  /\ DOMAIN s \subseteq Workers
           /\ \A w \in DOMAIN s : s[w] \in 1..MaxAccrued /\ s[w] \in Nat
           /\ IsFiniteSet(DOMAIN s)
<1>1. PICK W \in SUBSET Workers : s \in [W -> 1..MaxAccrued]
  BY DEF Sats
<1>2. IsFiniteSet(W)
  BY PayoutAssumption, FS_Subset
<1>3. MaxAccrued \in Nat
  BY PayoutAssumption
<1>. QED  BY <1>1, <1>2, <1>3

LEMMA SatsOf ==
    ASSUME NEW W \in SUBSET Workers, NEW s \in [W -> 1..MaxAccrued]
    PROVE  s \in Sats
BY DEF Sats

LEMMA IdleFacts ==
    /\ Idle \in Run /\ NoBatch \in Batch /\ NoSats \in Sats
    /\ Idle.pc = "idle" /\ Idle.batch = NoBatch /\ Idle.answer = "none"
    /\ NoBatch.id = 0 /\ NoBatch.txid = 0
<1>1. NoSats \in Sats
  <2>1. {} \in SUBSET Workers /\ NoSats \in [{} -> 1..MaxAccrued]
    BY DEF NoSats
  <2>. QED  BY <2>1, SatsOf
<1>2. 0 \in 0..MaxTx
  BY PayoutAssumption
<1>3. NoBatch \in Batch
  BY <1>1, <1>2 DEF NoBatch, Batch
<1>. QED  BY <1>1, <1>3 DEF Idle, Run, Pcs, NoBatch

\* What a transaction brings a worker.
LEMMA PaysType ==
    ASSUME NEW t, txs[t] \in Tx, NEW w
    PROVE  Pays(t, w) \in Nat
<1>1. txs[t].outs \in Sats \/ txs[t].outs \in [Workers -> Nat]
  BY DEF Tx
<1>2. CASE txs[t].outs \in Sats
  BY <1>2, SatsFacts DEF Pays
<1>3. CASE txs[t].outs \in [Workers -> Nat]
  BY <1>3 DEF Pays
<1>. QED  BY <1>1, <1>2, <1>3

\* The sequence of transactions.
LEMMA TxsFacts ==
    ASSUME txs \in Seq(Tx)
    PROVE  /\ Len(txs) \in Nat /\ DOMAIN txs = 1..Len(txs)
           /\ DOMAIN txs \subseteq Nat /\ IsFiniteSet(DOMAIN txs)
           /\ \A t \in DOMAIN txs : txs[t] \in Tx
<1>1. Len(txs) \in Nat /\ DOMAIN txs = 1..Len(txs) /\ \A t \in DOMAIN txs : txs[t] \in Tx
  OBVIOUS
<1>2. IsFiniteSet(1..Len(txs))
  BY <1>1, FS_Interval
<1>. QED  BY <1>1, <1>2
\* Runner r has moved to p with batch b and answer a; the others stay.
Moved(r, p, b, a) ==
    /\ run' \in [Runners -> Run]
    /\ run'[r].pc = p /\ run'[r].batch = b /\ run'[r].answer = a
    /\ \A q \in Runners : q # r => run'[q] = run[q]

LEMMA MoveTo ==
    ASSUME run \in [Runners -> Run], NEW r \in Runners,
           NEW p \in Pcs, NEW b \in Batch, NEW a \in Answers,
           run' = [run EXCEPT ![r] = [pc |-> p, batch |-> b, answer |-> a]]
    PROVE  Moved(r, p, b, a)
<1>1. [pc |-> p, batch |-> b, answer |-> a] \in Run
  BY DEF Run, Answers
<1>. QED  BY <1>1 DEF Moved

LEMMA RunFields ==
    ASSUME run \in [Runners -> Run], NEW r \in Runners
    PROVE  /\ run[r].pc \in Pcs /\ run[r].batch \in Batch /\ run[r].answer \in Answers
           /\ run[r] = [pc |-> run[r].pc, batch |-> run[r].batch, answer |-> run[r].answer]
           /\ run[r].batch.id \in Nat /\ run[r].batch.txid \in 0..MaxTx
           /\ run[r].batch.sats \in Sats
<1>1. run[r] \in Run
  OBVIOUS
<1>2. run[r].batch \in Batch
  BY <1>1 DEF Run
<1>. QED  BY <1>1, <1>2 DEF Run, Answers, Batch

LEMMA Stepped ==
    ASSUME run \in [Runners -> Run], NEW r \in Runners, NEW p \in Pcs, Step(r, p)
    PROVE  Moved(r, p, run[r].batch, run[r].answer)
<1>1. run' = [run EXCEPT ![r] = [run[r] EXCEPT !.pc = p]]
  BY DEF Step
<1>2. [run[r] EXCEPT !.pc = p] = [pc |-> p, batch |-> run[r].batch, answer |-> run[r].answer]
  BY RunFields
<1>. QED  BY <1>1, <1>2, MoveTo, RunFields

LEMMA Stopped ==
    ASSUME run \in [Runners -> Run], NEW r \in Runners, Stop(r)
    PROVE  Moved(r, "idle", NoBatch, "none")
<1>1. Idle = [pc |-> "idle", batch |-> NoBatch, answer |-> "none"]
  BY DEF Idle
<1>2. "idle" \in Pcs /\ NoBatch \in Batch /\ "none" \in Answers
  BY IdleFacts DEF Pcs, Answers
<1>. QED  BY <1>1, <1>2, MoveTo DEF Stop

\* Where each step of runOnce takes its runner.
LEMMA TickMoves ==
    ASSUME TypeInv, NEW r \in Runners, Tick(r)
    PROVE  /\ run[r].pc = "idle"
           /\ \/ \E b \in inflight : Pending(b) /\ Moved(r, "gettx", b, "none")
              \/ Moved(r, "select", run[r].batch, run[r].answer)
<1>1. run \in [Runners -> Run] /\ "gettx" \in Pcs /\ "select" \in Pcs /\ "none" \in Answers
      /\ \A b \in inflight : b \in Batch
  BY DEF TypeInv, Pcs, Answers
<1>. QED  BY <1>1, MoveTo, Stepped DEF Tick

LEMMA SettledMoves ==
    ASSUME TypeInv, NEW r \in Runners, Settled(r)
    PROVE  Moved(r, "select", NoBatch, "none")
<1>1. [Idle EXCEPT !.pc = "select"] = [pc |-> "select", batch |-> NoBatch, answer |-> "none"]
  BY DEF Idle
<1>2. run \in [Runners -> Run] /\ "select" \in Pcs /\ "none" \in Answers /\ NoBatch \in Batch
  BY IdleFacts DEF TypeInv, Pcs, Answers
<1>. QED  BY <1>1, <1>2, MoveTo DEF Settled

LEMMA NotInTipMoves ==
    ASSUME TypeInv, NEW r \in Runners, NotInTip(r)
    PROVE  run[r].pc = "gettx"
           /\ \E a \in {"pending", "unknown"} : Moved(r, "utxos", run[r].batch, a)
<1>1. PICK a \in {"pending", "unknown"} :
         run' = [run EXCEPT ![r] = [[run[r] EXCEPT !.pc = "utxos"] EXCEPT !.answer = a]]
  BY DEF NotInTip
<1>2. run \in [Runners -> Run] /\ "utxos" \in Pcs /\ a \in Answers
  BY DEF TypeInv, Pcs, Answers
<1>3. [[run[r] EXCEPT !.pc = "utxos"] EXCEPT !.answer = a]
        = [pc |-> "utxos", batch |-> run[r].batch, answer |-> a]
  <2>1. PICK x : x = [run[r] EXCEPT !.pc = "utxos"]
    OBVIOUS
  <2>2. x = [pc |-> "utxos", batch |-> run[r].batch, answer |-> run[r].answer]
    BY <1>2, <2>1, RunFields
  <2>3. [x EXCEPT !.answer = a] = [pc |-> "utxos", batch |-> run[r].batch, answer |-> a]
    BY <2>2
  <2>. QED  BY <2>1, <2>3
<1>. QED  BY <1>1, <1>2, <1>3, MoveTo, RunFields DEF NotInTip

LEMMA BeginMoves ==
    ASSUME TypeInv, NEW r \in Runners, BeginBatch(r), FreshId \in Nat
    PROVE  LET b == [id |-> FreshId, txid |-> run[r].batch.txid, sats |-> run[r].batch.sats] IN
           /\ run[r].pc = "balance" /\ b \in Batch
           /\ inflight' = inflight \cup {b}
           /\ Moved(r, "create", b, run[r].answer)
<1>. DEFINE b == [id |-> FreshId, txid |-> run[r].batch.txid, sats |-> run[r].batch.sats]
<1>1. run \in [Runners -> Run] /\ "create" \in Pcs
  BY DEF TypeInv, Pcs
<1>2. [run[r].batch EXCEPT !.id = FreshId] = b /\ b \in Batch
  <2>1. run[r].batch \in Batch
    BY <1>1, RunFields
  <2>. QED  BY <2>1 DEF Batch
<1>3. run' = [run EXCEPT ![r] = [[run[r] EXCEPT !.pc = "create"] EXCEPT !.batch = b]]
      /\ inflight' = inflight \cup {b} /\ run[r].pc = "balance"
  BY <1>2 DEF BeginBatch
<1>4. [[run[r] EXCEPT !.pc = "create"] EXCEPT !.batch = b]
        = [pc |-> "create", batch |-> b, answer |-> run[r].answer]
  <2>1. PICK x : x = [run[r] EXCEPT !.pc = "create"]
    OBVIOUS
  <2>2. x = [pc |-> "create", batch |-> run[r].batch, answer |-> run[r].answer]
    BY <1>1, <2>1, RunFields
  <2>3. [x EXCEPT !.batch = b] = [pc |-> "create", batch |-> b, answer |-> run[r].answer]
    BY <2>2
  <2>. QED  BY <2>1, <2>3
<1>5. Moved(r, "create", b, run[r].answer)
  BY <1>1, <1>2, <1>3, <1>4, MoveTo, RunFields
<1>. QED  BY <1>2, <1>3, <1>5

LEMMA SentMoves ==
    ASSUME TypeInv, NEW r \in Runners, NEW a \in Answers, Sent(r, a), Len(txs) < MaxTx
    PROVE  LET b == [id |-> run[r].batch.id, txid |-> Len(txs) + 1, sats |-> run[r].batch.sats] IN
           b \in Batch /\ Moved(r, "attach", b, a)
<1>. DEFINE b == [id |-> run[r].batch.id, txid |-> Len(txs) + 1, sats |-> run[r].batch.sats]
<1>1. run \in [Runners -> Run] /\ "attach" \in Pcs
  BY DEF TypeInv, Pcs
<1>2. run[r].batch \in Batch /\ Len(txs) + 1 \in 0..MaxTx
  BY <1>1, RunFields, TxsFacts, PayoutAssumption DEF TypeInv
<1>3. [run[r].batch EXCEPT !.txid = Len(txs) + 1] = b /\ b \in Batch
  BY <1>2 DEF Batch
<1>4. run' = [run EXCEPT ![r] = [[[run[r] EXCEPT !.pc = "attach"] EXCEPT !.answer = a]
                                    EXCEPT !.batch = b]]
  <2>1. run' = [run EXCEPT ![r] = [[[run[r] EXCEPT !.pc = "attach"] EXCEPT !.answer = a]
                  EXCEPT !.batch = [run[r].batch EXCEPT !.txid = Len(txs) + 1]]]
    BY <1>1, RunFields DEF Sent
  <2>. QED  BY <2>1, <1>3
<1>5. [[[run[r] EXCEPT !.pc = "attach"] EXCEPT !.answer = a] EXCEPT !.batch = b]
        = [pc |-> "attach", batch |-> b, answer |-> a]
  <2>1. PICK x : x = [run[r] EXCEPT !.pc = "attach"]
    OBVIOUS
  <2>2. x = [pc |-> "attach", batch |-> run[r].batch, answer |-> run[r].answer]
    BY <1>1, <2>1, RunFields
  <2>3. PICK y : y = [x EXCEPT !.answer = a]
    OBVIOUS
  <2>4. y = [pc |-> "attach", batch |-> run[r].batch, answer |-> a]
    BY <2>2, <2>3
  <2>5. [y EXCEPT !.batch = b] = [pc |-> "attach", batch |-> b, answer |-> a]
    BY <2>4
  <2>. QED  BY <2>1, <2>3, <2>5
<1>. QED  BY <1>1, <1>3, <1>4, <1>5, MoveTo
\* What Select lists is owed, and goes to one address unless the rail or the
\* node is known to take several.
LEMMA SelectMoves ==
    ASSUME TypeInv, NEW r \in Runners, Select(r)
    PROVE  /\ run[r].pc = "select" /\ inflight = {}
           /\ \E b \in Batch :
                /\ Moved(r, "mempool", b, run[r].answer)
                /\ b.id = 0 /\ b.txid = 0
                /\ \A w \in DOMAIN b.sats : b.sats[w] = accrued[w] - paid[w]
                /\ \/ CanBatchAcrossAddresses(r)
                   \/ Cardinality({Address[w] : w \in DOMAIN b.sats}) = 1
<1>1. run \in [Runners -> Run] /\ "mempool" \in Pcs
  BY DEF TypeInv, Pcs
<1>2. PICK S \in SUBSET Due, T \in SUBSET Due :
         /\ IF CanBatchAcrossAddresses(r) THEN T = S ELSE FirstGroup(S, T)
         /\ run' = [run EXCEPT ![r] = [[run[r] EXCEPT !.pc = "mempool"]
                       EXCEPT !.batch = [NoBatch EXCEPT !.sats = [w \in T |-> Owed(w)]]]]
  BY DEF Select
<1>. DEFINE s == [w \in T |-> Owed(w)]
            b == [id |-> 0, txid |-> 0, sats |-> s]
<1>3. s \in Sats
  <2>1. ASSUME NEW w \in T PROVE Owed(w) \in 1..MaxAccrued
    <3>1. w \in Workers /\ Owed(w) >= MinSats
      BY DEF Due
    <3>2. accrued[w] \in 0..MaxAccrued /\ paid[w] \in Nat /\ MinSats \in Nat \ {0} /\ MaxAccrued \in Nat
      BY <3>1, PayoutAssumption DEF TypeInv
    <3>. QED  BY <3>1, <3>2 DEF Owed
  <2>2. T \in SUBSET Workers
    BY DEF Due
  <2>. QED  BY <2>1, <2>2, SatsOf
<1>4. b \in Batch /\ [NoBatch EXCEPT !.sats = s] = b
  <2>1. 0 \in 0..MaxTx
    BY PayoutAssumption
  <2>. QED  BY <1>3, <2>1 DEF Batch, NoBatch
<1>5. run' = [run EXCEPT ![r] = [pc |-> "mempool", batch |-> b, answer |-> run[r].answer]]
  <2>1. PICK x : x = [run[r] EXCEPT !.pc = "mempool"]
    OBVIOUS
  <2>2. x = [pc |-> "mempool", batch |-> run[r].batch, answer |-> run[r].answer]
    BY <1>1, <2>1, RunFields
  <2>3. [x EXCEPT !.batch = b] = [pc |-> "mempool", batch |-> b, answer |-> run[r].answer]
    BY <2>2
  <2>. QED  BY <1>2, <1>4, <2>1, <2>3
<1>6. Moved(r, "mempool", b, run[r].answer)
  BY <1>1, <1>4, <1>5, MoveTo, RunFields
<1>7. CanBatchAcrossAddresses(r) \/ Cardinality({Address[w] : w \in DOMAIN b.sats}) = 1
  <2>1. SUFFICES ASSUME ~CanBatchAcrossAddresses(r)
                 PROVE  Cardinality({Address[w] : w \in T}) = 1
    OBVIOUS
  <2>2. PICK a \in {Address[w] : w \in S} : T = GroupOf(S, a)
    BY <1>2, <2>1 DEF FirstGroup
  <2>3. {Address[w] : w \in T} = {a}
    BY <2>2 DEF GroupOf
  <2>. QED  BY <2>3, FS_Singleton
<1>8. run[r].pc = "select" /\ inflight = {}
  BY DEF Select, Blocked
<1>9. \A w \in DOMAIN b.sats : b.sats[w] = accrued[w] - paid[w]
  BY DEF Owed
<1>. QED  BY <1>4, <1>6, <1>7, <1>8, <1>9

-----------------------------------------------------------------------------
(* The transactions. *)

\* The old ones are still there, built for the same batch and paying the
\* same; a mined one stays mined and none comes back to the mempool.
SameTxs ==
    /\ txs' \in Seq(Tx) /\ DOMAIN txs \subseteq DOMAIN txs'
    /\ \A t \in DOMAIN txs :
          /\ txs'[t].batch = txs[t].batch /\ txs'[t].outs = txs[t].outs
          /\ Mined(t) => Mined(t)'
          /\ txs'[t].state = "mempool" => txs[t].state = "mempool"
          /\ txs[t].state = "gone" => txs'[t].state = "gone"

LEMMA TxFields ==
    ASSUME NEW x \in Tx, NEW s \in TxStates
    PROVE  LET y == [x EXCEPT !.state = s] IN
           y \in Tx /\ y.batch = x.batch /\ y.outs = x.outs /\ y.state = s
BY DEF Tx

\* A block is connected.
LEMMA ConnectFacts ==
    ASSUME TypeInv, NEW body \in SUBSET InMempool, Connect(body)
    PROVE  /\ SameTxs /\ DOMAIN txs' = DOMAIN txs /\ Len(txs') = Len(txs)
           /\ \A t \in DOMAIN txs : Mined(t)' <=> Mined(t) \/ t \in body
           /\ \A t \in DOMAIN txs : txs'[t].state = "mempool" <=> t \in InMempool \ body
           /\ utxo' = utxo \/ utxo' = 0 \/ utxo' \in body
<1>1. txs \in Seq(Tx) /\ Len(txs) \in Nat /\ DOMAIN txs = 1..Len(txs)
      /\ DOMAIN txs \subseteq Nat /\ \A t \in DOMAIN txs : txs[t] \in Tx
  BY TxsFacts DEF TypeInv
<1>2. ASSUME NEW t \in DOMAIN txs
      PROVE  /\ txs'[t] \in Tx /\ txs'[t].batch = txs[t].batch /\ txs'[t].outs = txs[t].outs
             /\ txs[t].state \in TxStates
             /\ txs'[t].state = IF t \in body THEN "tip"
                                ELSE IF txs[t].state = "tip" THEN "buried" ELSE txs[t].state
  <2>1. txs[t] \in Tx /\ "tip" \in TxStates /\ "buried" \in TxStates
    BY <1>1 DEF TxStates
  <2>2. txs'[t] = IF t \in body THEN [txs[t] EXCEPT !.state = "tip"]
                  ELSE IF txs[t].state = "tip" THEN [txs[t] EXCEPT !.state = "buried"]
                  ELSE txs[t]
    BY DEF Connect
  <2>3. CASE t \in body
    BY <2>1, <2>2, <2>3 DEF Tx
  <2>4. CASE t \notin body /\ txs[t].state = "tip"
    BY <2>1, <2>2, <2>4 DEF Tx
  <2>5. CASE t \notin body /\ txs[t].state # "tip"
    BY <2>1, <2>2, <2>5 DEF Tx
  <2>. QED  BY <2>3, <2>4, <2>5
<1>3. txs' \in Seq(Tx) /\ DOMAIN txs' = DOMAIN txs /\ Len(txs') = Len(txs)
  <2>1. DOMAIN txs' = DOMAIN txs
    BY DEF Connect
  <2>2. txs' \in [1..Len(txs) -> Tx]
    <3>1. txs' = [t \in DOMAIN txs |-> txs'[t]]
      BY DEF Connect
    <3>. QED  BY <1>1, <1>2, <3>1
  <2>. QED  BY <1>1, <2>1, <2>2
<1>4. \A t \in body : t \in DOMAIN txs /\ txs[t].state = "mempool"
  BY DEF InMempool
<1>5. ASSUME NEW t \in DOMAIN txs
      PROVE  /\ Mined(t)' <=> Mined(t) \/ t \in body
             /\ txs'[t].state = "mempool" <=> t \in InMempool \ body
             /\ txs[t].state = "gone" => txs'[t].state = "gone"
  BY <1>2, <1>4 DEF Mined, InMempool
<1>6. SameTxs
  <2>1. ASSUME NEW t \in DOMAIN txs
        PROVE  txs'[t].state = "mempool" => txs[t].state = "mempool"
    BY <1>5 DEF InMempool
  <2>. QED  BY <1>2, <1>3, <1>5, <2>1 DEF SameTxs
<1>7. utxo' = utxo \/ utxo' = 0 \/ utxo' \in body
  <2>1. CASE body = {}
    BY <2>1 DEF Connect
  <2>2. CASE body # {}
    <3>1. body \in SUBSET Nat /\ \A t \in body : t <= Len(txs)
      BY <1>1, <1>4
    <3>2. Max(body) \in body
      BY <1>1, <2>2, <3>1, MaxBounded
    <3>. QED  BY <2>2, <3>2 DEF Connect
  <2>. QED  BY <2>1, <2>2
<1>. QED  BY <1>3, <1>5, <1>6, <1>7

\* What it brings: never less than any of its transactions, and exactly that
\* if there is but one.
LEMMA ConnectPays ==
    ASSUME TypeInv, NEW body \in SUBSET InMempool, Connect(body)
    PROVE  /\ received' \in [Workers -> Nat]
           /\ \A w \in Workers : received[w] <= received'[w]
           /\ \A w \in Workers, t \in body : received[w] + Pays(t, w) <= received'[w]
           /\ body = {} => received' = received
           /\ \A w \in Workers, t \in body :
                 body = {t} => received'[w] = received[w] + Pays(t, w)
<1>1. IsFiniteSet(body) /\ \A t \in body : txs[t] \in Tx
  <2>1. body \subseteq DOMAIN txs /\ IsFiniteSet(DOMAIN txs) /\ \A t \in DOMAIN txs : txs[t] \in Tx
    BY TxsFacts DEF TypeInv, InMempool
  <2>. QED  BY <2>1, FS_Subset
<1>2. ASSUME NEW w \in Workers
      PROVE  /\ received'[w] \in Nat /\ received[w] <= received'[w]
             /\ \A t \in body : received[w] + Pays(t, w) <= received'[w]
             /\ body = {} => received'[w] = received[w]
             /\ \A t \in body : body = {t} => received'[w] = received[w] + Pays(t, w)
  <2>1. PICK f : f = [t \in body |-> Pays(t, w)]
    OBVIOUS
  <2>2. f \in [body -> Nat] /\ \A t \in body : f[t] = Pays(t, w)
    BY <1>1, <2>1, PaysType
  <2>3. /\ SumFunction(f) \in Nat
        /\ \A t \in body : f[t] <= SumFunction(f)
        /\ body = {} => SumFunction(f) = 0
        /\ \A t : body = {t} => SumFunction(f) = f[t]
    BY <1>1, <2>2, SumFacts
  <2>4. received'[w] = received[w] + SumFunction(f) /\ received[w] \in Nat
    BY <2>1 DEF Connect, TypeInv
  <2>5. ASSUME NEW t \in body
        PROVE  /\ received[w] + Pays(t, w) <= received'[w]
               /\ body = {t} => received'[w] = received[w] + Pays(t, w)
    <3>1. Pays(t, w) \in Nat /\ Pays(t, w) <= SumFunction(f)
          /\ (body = {t} => SumFunction(f) = Pays(t, w))
      BY <2>2, <2>3
    <3>. QED  BY ONLY <2>3, <2>4, <3>1
  <2>6. received'[w] \in Nat /\ received[w] <= received'[w] /\ (body = {} => received'[w] = received[w])
    BY ONLY <2>3, <2>4
  <2>. QED  BY <2>5, <2>6
<1>3. received' = [w \in Workers |-> received'[w]] /\ received = [w \in Workers |-> received[w]]
  BY DEF Connect, TypeInv
<1>4. received' \in [Workers -> Nat] /\ (body = {} => received' = received)
  BY <1>2, <1>3
<1>. QED  BY <1>2, <1>4

\* A transaction leaves the mempool.
LEMMA EvictFacts ==
    ASSUME TypeInv, Evict
    PROVE  /\ SameTxs /\ DOMAIN txs' = DOMAIN txs /\ Len(txs') = Len(txs)
           /\ \A t \in DOMAIN txs : Mined(t)' <=> Mined(t)
<1>1. txs \in Seq(Tx) /\ Len(txs) \in Nat /\ DOMAIN txs = 1..Len(txs)
      /\ \A t \in DOMAIN txs : txs[t] \in Tx
  BY TxsFacts DEF TypeInv
<1>2. PICK e \in InMempool : txs' = [txs EXCEPT ![e] = [txs[e] EXCEPT !.state = "gone"]]
  BY DEF Evict
<1>3. e \in DOMAIN txs /\ txs[e].state = "mempool" /\ "gone" \in TxStates
  BY DEF InMempool, TxStates
<1>4. txs' \in Seq(Tx) /\ DOMAIN txs' = DOMAIN txs /\ Len(txs') = Len(txs)
  <2>1. [txs[e] EXCEPT !.state = "gone"] \in Tx
    BY <1>1, <1>3 DEF Tx
  <2>. QED  BY <1>1, <1>2, <1>3, <2>1
<1>5. ASSUME NEW t \in DOMAIN txs
      PROVE  /\ txs'[t].batch = txs[t].batch /\ txs'[t].outs = txs[t].outs
             /\ txs'[t].state = IF t = e THEN "gone" ELSE txs[t].state
  <2>1. txs[e] \in Tx
    BY <1>1, <1>3
  <2>2. CASE t = e
    BY <1>2, <1>3, <2>1, <2>2 DEF Tx
  <2>3. CASE t # e
    BY <1>2, <2>3
  <2>. QED  BY <2>2, <2>3
<1>. QED  BY <1>3, <1>4, <1>5 DEF SameTxs, Mined

\* A transaction goes out.
LEMMA BroadcastFacts ==
    ASSUME TypeInv, NEW id \in Nat, NEW outs \in Sats \cup [Workers -> Nat],
           Broadcast(id, outs)
    PROVE  /\ SameTxs /\ Len(txs') = Len(txs) + 1
           /\ DOMAIN txs' = DOMAIN txs \cup {Len(txs) + 1}
           /\ \A t \in DOMAIN txs : txs'[t] = txs[t] /\ t # Len(txs) + 1
           /\ txs'[Len(txs) + 1].batch = id
           /\ txs'[Len(txs) + 1].outs = outs
           /\ txs'[Len(txs) + 1].state = "mempool"
<1>1. txs \in Seq(Tx) /\ Len(txs) \in Nat /\ DOMAIN txs = 1..Len(txs)
  BY TxsFacts DEF TypeInv
<1>2. PICK x : x = [outs |-> outs, batch |-> id, state |-> "mempool"]
  OBVIOUS
<1>3. x \in Tx
  BY <1>2 DEF Tx, TxStates
<1>4. txs' = Append(txs, x)
  BY <1>2 DEF Broadcast
<1>5. /\ txs' \in Seq(Tx) /\ Len(txs') = Len(txs) + 1
      /\ txs'[Len(txs) + 1] = x
      /\ \A t \in 1..Len(txs) : txs'[t] = txs[t]
  BY <1>1, <1>3, <1>4
<1>6. DOMAIN txs' = 1..Len(txs) + 1
  BY <1>5
<1>7. DOMAIN txs' = DOMAIN txs \cup {Len(txs) + 1} /\ \A t \in DOMAIN txs : t # Len(txs) + 1
  BY <1>1, <1>6
<1>8. SameTxs
  BY <1>1, <1>5, <1>7 DEF SameTxs, Mined
<1>. QED  BY <1>1, <1>2, <1>5, <1>7, <1>8

LEMMA SameTxsStay ==
    ASSUME TypeInv, txs' = txs
    PROVE  SameTxs /\ DOMAIN txs' = DOMAIN txs /\ \A t \in DOMAIN txs : Mined(t)' <=> Mined(t)
BY DEF SameTxs, Mined, TypeInv

-----------------------------------------------------------------------------
(* The batches. *)

Bound(n) == /\ \A b \in inflight : b.id <= n
            /\ \A r \in Runners : run[r].batch.id <= n
            /\ \A t \in DOMAIN txs : txs[t].batch <= n

Bounded == \E n \in Nat : Bound(n)

\* A new id is above every id that anybody knows.
LEMMA FreshFacts ==
    ASSUME TypeInv, Bounded
    PROVE  /\ FreshId \in Nat /\ FreshId # 0
           /\ \A b \in inflight : b.id < FreshId
           /\ \A r \in Runners : run[r].batch.id < FreshId
           /\ \A t \in DOMAIN txs : txs[t].batch < FreshId
<1>1. PICK n \in Nat : Bound(n)
  BY DEF Bounded
<1>2. PICK N : N = {0} \cup {b.id : b \in inflight}
                       \cup {run[r].batch.id : r \in Runners}
                       \cup {txs[t].batch : t \in DOMAIN txs}
  OBVIOUS
<1>3. /\ \A b \in inflight : b.id \in Nat
      /\ \A r \in Runners : run[r].batch.id \in Nat
      /\ \A t \in DOMAIN txs : txs[t].batch \in Nat
  <2>1. \A r \in Runners : run[r].batch.id \in Nat
    BY RunFields DEF TypeInv
  <2>2. \A b \in inflight : b.id \in Nat
    BY DEF TypeInv, Batch
  <2>3. \A t \in DOMAIN txs : txs[t].batch \in Nat
    <3>1. \A t \in DOMAIN txs : txs[t] \in Tx
      BY TxsFacts DEF TypeInv
    <3>. QED  BY <3>1 DEF Tx
  <2>. QED  BY <2>1, <2>2, <2>3
<1>4. N \in SUBSET Nat /\ N # {} /\ \A x \in N : x <= n
  BY <1>1, <1>2, <1>3 DEF Bound
<1>5. Max(N) \in N /\ \A x \in N : x <= Max(N)
  BY <1>4, MaxBounded
<1>6. FreshId = 1 + Max(N) /\ Max(N) \in Nat
  BY <1>2, <1>4, <1>5 DEF FreshId
<1>7. ASSUME NEW x \in N PROVE x < FreshId
  <2>1. x \in Nat /\ x <= Max(N)
    BY <1>4, <1>5
  <2>. QED  BY ONLY <2>1, <1>6
<1>8. FreshId \in Nat /\ FreshId # 0
  BY ONLY <1>6
<1>9. /\ \A b \in inflight : b.id \in N
      /\ \A r \in Runners : run[r].batch.id \in N
      /\ \A t \in DOMAIN txs : txs[t].batch \in N
  BY <1>2
<1>. QED  BY <1>7, <1>8, <1>9

\* attachBatchTxid stamps the rows of one batch.
LEMMA AttachFacts ==
    ASSUME TypeInv, NEW id, NEW txid \in 0..MaxTx, Attach(id, txid)
    PROVE  /\ \A b \in inflight' : b \in Batch
           /\ \A b \in inflight' : \E o \in inflight :
                /\ b.id = o.id /\ b.sats = o.sats
                /\ o.id # id => b = o
                /\ o.id = id => b.txid = txid
           /\ \A o \in inflight : \E b \in inflight' :
                /\ b.id = o.id /\ b.sats = o.sats
                /\ o.id # id => b = o
                /\ o.id = id => b.txid = txid
<1>. DEFINE F(o) == IF o.id = id THEN [o EXCEPT !.txid = txid] ELSE o
<1>1. inflight' = {F(o) : o \in inflight}
  BY DEF Attach
<1>2. ASSUME NEW o \in inflight
      PROVE  /\ F(o) \in Batch
             /\ F(o).id = o.id /\ F(o).sats = o.sats
             /\ o.id # id => F(o) = o
             /\ o.id = id => F(o).txid = txid
  <2>1. o \in Batch
    BY DEF TypeInv
  <2>. QED  BY <2>1 DEF Batch
<1>. HIDE DEF F
<1>. QED  BY <1>1, <1>2

LEMMA CreditFacts ==
    ASSUME TypeInv, NEW b \in Batch, Credit(b)
    PROVE  /\ paid' \in [Workers -> Nat]
           /\ \A w \in Workers : paid'[w] =
                 IF w \in DOMAIN b.sats THEN paid[w] + b.sats[w] ELSE paid[w]
<1>1. b.sats \in Sats /\ paid \in [Workers -> Nat]
  BY DEF Batch, TypeInv
<1>2. \A w \in DOMAIN b.sats : b.sats[w] \in Nat
  BY <1>1, SatsFacts
<1>3. paid' = [w \in Workers |-> IF w \in DOMAIN b.sats THEN paid[w] + b.sats[w] ELSE paid[w]]
  BY DEF Credit
<1>. QED  BY <1>1, <1>2, <1>3

LEMMA NudgeType ==
    ASSUME TypeInv, Nudge PROVE parked' \subseteq DOMAIN txs
BY DEF TypeInv, Nudge, InMempool

-----------------------------------------------------------------------------
(* Type correctness. *)

LEMMA FaultType ==
    ASSUME TypeInv, NEW k, Fault(k) PROVE faults' \in Nat
BY DEF TypeInv, Fault

LEMMA LearnType ==
    ASSUME TypeInv, NEW r \in Runners, Learn(r) PROVE learned' \in [Runners -> Learned]
BY DEF TypeInv, Learn, Learned

\* The steps of runOnce that touch neither rows nor transactions.
Quiet(r) == \/ Tick(r) \/ NotInTip(r) \/ Wait(r) \/ WaitAndNudge(r)
            \/ Select(r) \/ SelectNothing(r) \/ CheckMempool(r) \/ ReserveShort(r)
            \/ CreateUnsigned(r) \/ Sign(r) \/ AttachFails(r)

\* Where they take the runner: out of the way, or on with the same batch, or
\* to the newest batch with a txid.
QuietMove(r) ==
    \/ \E p \in Pcs, b \in Batch, a \in Answers :
         /\ Moved(r, p, b, a) /\ p \notin Making \cup Looking
         /\ p \in Chosen => b.txid = 0
         /\ b.id \in {0, run[r].batch.id}
    \/ \E p \in Pcs, a \in Answers :
         /\ Moved(r, p, run[r].batch, a)
         /\ {run[r].pc, p} \subseteq Unsent \/ {run[r].pc, p} \subseteq Looking
    \/ \E b \in inflight : Pending(b) /\ Moved(r, "gettx", b, "none")

LEMMA QuietMoves ==
    ASSUME TypeInv, NEW r \in Runners, Quiet(r),
           run[r].pc \in Chosen => run[r].batch.txid = 0
    PROVE  /\ QuietMove(r)
           /\ UNCHANGED <<accrued, paid, inflight, rail, oldNode, txs, utxo, received>>
           /\ parked' \subseteq DOMAIN txs /\ learned' \in [Runners -> Learned]
           /\ faults' \in Nat
<1>. USE DEF dbVars, nodeVars
<1>0. /\ run \in [Runners -> Run] /\ parked \subseteq DOMAIN txs
      /\ learned \in [Runners -> Learned] /\ faults \in Nat
      /\ run[r].batch \in Batch /\ run[r].answer \in Answers
  BY RunFields DEF TypeInv
<1>1. UNCHANGED <<accrued, paid, inflight, rail, oldNode, txs, utxo, received>>
  BY DEF Quiet, Tick, NotInTip, Wait, WaitAndNudge, Select, SelectNothing, CheckMempool,
         ReserveShort, CreateUnsigned, Sign, AttachFails
<1>2. parked' \subseteq DOMAIN txs
  BY <1>0, NudgeType DEF Quiet, Tick, NotInTip, Wait, WaitAndNudge, Select, SelectNothing,
         CheckMempool, ReserveShort, CreateUnsigned, Sign, AttachFails
<1>3. learned' \in [Runners -> Learned]
  BY <1>0, LearnType DEF Quiet, Tick, NotInTip, Wait, WaitAndNudge, Select, SelectNothing,
         CheckMempool, ReserveShort, CreateUnsigned, Sign, AttachFails
<1>4. faults' \in Nat
  BY <1>0, FaultType DEF Quiet, Tick, NotInTip, Wait, WaitAndNudge, Select, SelectNothing,
         CheckMempool, ReserveShort, CreateUnsigned, Sign, AttachFails
<1>5. QuietMove(r)
  <2>. USE DEF Making, Unsent, Looking, Chosen
  <2>1. CASE Tick(r)
    <3>1. "select" \in Pcs /\ "select" \notin Making \cup Looking /\ "select" \notin Chosen
      BY DEF Pcs
    <3>2. CASE \E b \in inflight : Pending(b) /\ Moved(r, "gettx", b, "none")
      BY <3>2 DEF QuietMove
    <3>3. CASE Moved(r, "select", run[r].batch, run[r].answer)
      BY <1>0, <3>1, <3>3 DEF QuietMove
    <3>. QED  BY <2>1, <3>2, <3>3, TickMoves
  <2>2. CASE NotInTip(r)
    <3>1. PICK a \in {"pending", "unknown"} : Moved(r, "utxos", run[r].batch, a)
      BY <2>2, NotInTipMoves
    <3>2. run[r].pc = "gettx" /\ "utxos" \in Pcs /\ a \in Answers
      BY <2>2 DEF NotInTip, Pcs, Answers
    <3>. QED  BY <3>1, <3>2 DEF QuietMove
  <2>3. CASE Stop(r)
    <3>1. Moved(r, "idle", NoBatch, "none")
      BY <1>0, <2>3, Stopped
    <3>2. "idle" \in Pcs /\ NoBatch \in Batch /\ NoBatch.id = 0 /\ "none" \in Answers
          /\ "idle" \notin Making \cup Looking /\ "idle" \notin Chosen
      BY IdleFacts DEF Pcs, Answers
    <3>. QED  BY <3>1, <3>2 DEF QuietMove
  <2>4. CASE Select(r)
    <3>1. PICK b \in Batch : Moved(r, "mempool", b, run[r].answer) /\ b.id = 0 /\ b.txid = 0
      BY <2>4, SelectMoves
    <3>2. "mempool" \in Pcs /\ "mempool" \notin Making \cup Looking
      BY DEF Pcs
    <3>. QED  BY <1>0, <3>1, <3>2 DEF QuietMove
  <2>5. CASE CheckMempool(r) /\ Step(r, "balance")
    <3>1. "balance" \in Pcs /\ "balance" \notin Making \cup Looking
      BY DEF Pcs
    <3>2. Moved(r, "balance", run[r].batch, run[r].answer)
      BY <1>0, <2>5, <3>1, Stepped
    <3>3. run[r].batch.txid = 0
      BY <2>5 DEF CheckMempool
    <3>. QED  BY <1>0, <3>1, <3>2, <3>3 DEF QuietMove
  <2>6. CASE CreateUnsigned(r) \/ Sign(r)
    <3>1. PICK p \in {"sign", "submit"} : Step(r, p)
      BY <2>6 DEF CreateUnsigned, Sign
    <3>2. p \in Pcs /\ run[r].pc \in {"create", "sign"}
      BY <2>6 DEF CreateUnsigned, Sign, Pcs
    <3>3. Moved(r, p, run[r].batch, run[r].answer)
      BY <1>0, <3>1, <3>2, Stepped
    <3>. QED  BY <1>0, <3>2, <3>3 DEF QuietMove
  <2>. QED  BY <2>1, <2>2, <2>3, <2>4, <2>5, <2>6
       DEF Quiet, Wait, WaitAndNudge, SelectNothing, CheckMempool, ReserveShort, AttachFails
<1>. QED  BY <1>1, <1>2, <1>3, <1>4, <1>5

\* A transfer goes out: the transaction is appended and its txid taken along.
Outs == Sats \cup [Workers -> Nat]

LEMMA SendFacts ==
    ASSUME TypeInv, NEW r \in Runners, CreateBroadcasts(r) \/ Submit(r)
    PROVE  /\ run[r].pc \in Unsent /\ Len(txs) < MaxTx
           /\ UNCHANGED <<accrued, paid, inflight, learned, rail, oldNode, utxo, parked,
                          received, faults>>
           /\ \E outs \in Outs, a \in Answers :
                /\ Broadcast(run[r].batch.id, outs) /\ Sent(r, a)
                /\ a # "unintended" => outs = run[r].batch.sats
                /\ a = "unintended" =>
                     /\ rail = "thunder" /\ ~oldNode /\ run[r].pc = "create"
                     /\ Cardinality({Address[w] : w \in DOMAIN run[r].batch.sats}) # 1
                /\ a \notin {"unintended", "bynode"} => rail = "btc" \/ run[r].pc = "submit"
                /\ a = "none" \/ run[r].pc = "create"
<1>1. /\ run[r].pc \in Unsent /\ Len(txs) < MaxTx
      /\ UNCHANGED <<accrued, paid, inflight, learned, rail, oldNode, utxo, parked,
                     received, faults>>
  BY DEF CreateBroadcasts, Submit, Accepts, Unsent, dbVars
<1>2. run[r].batch.sats \in Sats
  BY RunFields DEF TypeInv
<1>3. CASE Submit(r)
  <2>1. /\ Broadcast(run[r].batch.id, run[r].batch.sats) /\ Sent(r, "none")
        /\ rail = "btc" \/ run[r].pc = "submit"
    BY <1>3 DEF Submit
  <2>2. "none" \in Answers /\ run[r].batch.sats \in Outs
    BY <1>2 DEF Answers, Outs
  <2>. QED  BY <1>1, <2>1, <2>2
<1>4. CASE CreateBroadcasts(r)
  <2>. DEFINE sats == run[r].batch.sats
              total == SumFunction(sats)
  <2>1. total \in Nat
    <3>1. sats \in [DOMAIN sats -> Nat] /\ IsFiniteSet(DOMAIN sats)
      <4>1. PICK W \in SUBSET Workers : sats \in [W -> 1..MaxAccrued]
        BY <1>2 DEF Sats
      <4>2. MaxAccrued \in Nat
        BY PayoutAssumption
      <4>3. IsFiniteSet(DOMAIN sats)
        BY <1>2, SatsFacts
      <4>. QED  BY <4>1, <4>2, <4>3
    <3>. QED  BY <3>1, SumFacts
  <2>2. rail = "thunder" /\ ~oldNode /\ run[r].pc = "create"
    BY <1>4 DEF CreateBroadcasts
  <2>3. CASE Cardinality({Address[w] : w \in DOMAIN sats}) = 1
    <3>1. Broadcast(run[r].batch.id, sats) /\ Sent(r, "bynode")
      BY <1>4, <2>3 DEF CreateBroadcasts
    <3>2. "bynode" \in Answers /\ sats \in Outs
      BY <1>2 DEF Answers, Outs
    <3>. QED  BY <1>1, <2>2, <3>1, <3>2
  <2>4. CASE Cardinality({Address[w] : w \in DOMAIN sats}) # 1
    <3>1. PICK first \in DOMAIN sats :
            /\ Broadcast(run[r].batch.id, [w \in Workers |-> IF w = first THEN total ELSE 0])
            /\ Sent(r, "unintended")
      BY <1>4, <2>4 DEF CreateBroadcasts
    <3>2. PICK outs : outs = [w \in Workers |-> IF w = first THEN total ELSE 0]
      OBVIOUS
    <3>3. outs \in Outs /\ "unintended" \in Answers
      BY <2>1, <3>2 DEF Outs, Answers
    <3>. QED  BY <1>1, <2>2, <2>4, <3>1, <3>2, <3>3
  <2>. QED  BY <2>3, <2>4
<1>. QED  BY <1>3, <1>4
LEMMA MovedType ==
    ASSUME NEW r, NEW p, NEW b, NEW a, Moved(r, p, b, a) PROVE run' \in [Runners -> Run]
BY DEF Moved

LEMMA QuietMoveType ==
    ASSUME NEW r, QuietMove(r) PROVE run' \in [Runners -> Run]
BY MovedType DEF QuietMove

\* The rows of one batch are credited or dropped.
LEMMA SettleFacts ==
    ASSUME TypeInv, NEW r \in Runners, SettleByBlock(r) \/ SettleByOutput(r)
    PROVE  /\ run[r].pc \in Looking /\ run[r].batch \in Batch
           /\ Confirmed(run[r].batch.txid) \/ utxo = run[r].batch.txid
           /\ Finalize(run[r].batch) /\ Moved(r, "select", NoBatch, "none")
           /\ UNCHANGED <<accrued, learned, rail, oldNode, txs, utxo, parked, received, faults>>
<1>1. Settled(r) /\ run[r].pc \in Looking
      /\ (Confirmed(run[r].batch.txid) \/ utxo = run[r].batch.txid)
  BY DEF SettleByBlock, SettleByOutput, ChangeSeen, Looking
<1>2. Moved(r, "select", NoBatch, "none")
  BY <1>1, SettledMoves
<1>3. run[r].batch \in Batch
  BY RunFields DEF TypeInv
<1>. QED  BY <1>1, <1>2, <1>3 DEF Settled, nodeVars

LEMMA FailFacts ==
    ASSUME TypeInv, NEW r \in Runners, TransferFails(r) \/ AnswerLost(r)
    PROVE  /\ run[r].pc \in Making /\ Abort(run[r].batch.id)
           /\ run[r].pc = "attach" => "lost" \in Faults
           /\ Moved(r, "idle", NoBatch, "none") /\ faults' \in Nat
           /\ UNCHANGED <<accrued, paid, learned, rail, oldNode, txs, utxo, parked, received>>
<1>1. /\ Stop(r) /\ Abort(run[r].batch.id) /\ run[r].pc \in Making
      /\ run[r].pc = "attach" => "lost" \in Faults
      /\ UNCHANGED <<accrued, paid, learned, rail, oldNode, txs, utxo, parked, received>>
  BY DEF TransferFails, AnswerLost, Making, Unsent, nodeVars, Fault
<1>2. Moved(r, "idle", NoBatch, "none")
  BY <1>1, Stopped DEF TypeInv
<1>3. faults' \in Nat
  BY FaultType DEF TransferFails, AnswerLost, TypeInv
<1>. QED  BY <1>1, <1>2, <1>3

LEMMA StampFacts ==
    ASSUME TypeInv, NEW r \in Runners, AttachTxid(r)
    PROVE  /\ run[r].pc = "attach" /\ Attach(run[r].batch.id, run[r].batch.txid)
           /\ Moved(r, "idle", NoBatch, "none")
           /\ faults' \in Nat /\ parked' \subseteq DOMAIN txs /\ Learn(r)
           /\ UNCHANGED <<accrued, paid, rail, oldNode, txs, utxo, received>>
<1>1. /\ Stop(r) /\ Attach(run[r].batch.id, run[r].batch.txid) /\ run[r].pc = "attach" /\ Learn(r)
      /\ UNCHANGED <<accrued, paid, rail, oldNode, txs, utxo, received>>
  BY DEF AttachTxid
<1>2. Moved(r, "idle", NoBatch, "none")
  BY <1>1, Stopped DEF TypeInv
<1>3. faults' \in Nat /\ parked' \subseteq DOMAIN txs
  BY FaultType, NudgeType DEF AttachTxid, TypeInv
<1>. QED  BY <1>1, <1>2, <1>3

LEMMA CrashFacts ==
    ASSUME TypeInv, Crash
    PROVE  /\ run' \in [Runners -> Run] /\ \A r \in Runners : run'[r] = Idle
           /\ learned' = [r \in Runners |-> "unknown"] /\ learned' \in [Runners -> Learned]
           /\ faults' \in Nat
           /\ UNCHANGED <<accrued, paid, inflight, rail, oldNode, txs, utxo, parked, received>>
BY IdleFacts, FaultType DEF Crash, Learned, dbVars, nodeVars

\* The operator's hand: between ticks.
LEMMA OperatorFacts ==
    ASSUME TypeInv, Operator
    PROVE  /\ \A r \in Runners : run[r].pc = "idle"
           /\ UNCHANGED <<accrued, run, learned, rail, oldNode, txs, utxo, received, faults>>
           /\ parked' \subseteq DOMAIN txs
           /\ \/ \E b \in inflight, t \in DOMAIN txs :
                   b.txid = 0 /\ LiveTx(b, t) /\ Attach(b.id, t) /\ paid' = paid
              \/ \E b \in inflight :
                   (\A t \in DOMAIN txs : ~LiveTx(b, t)) /\ Abort(b.id) /\ paid' = paid
              \/ \E b \in inflight : b.txid # 0 /\ Mined(b.txid) /\ Finalize(b)
              \/ inflight' = inflight /\ paid' = paid
<1>1. \A r \in Runners : run[r].pc = "idle"
  BY DEF Operator, OperatorAdopts, OperatorReleases, OperatorFinalizes, OperatorMines, Ticking
<1>2. UNCHANGED <<accrued, run, learned, rail, oldNode, txs, utxo, received, faults>>
  BY DEF Operator, OperatorAdopts, OperatorReleases, OperatorFinalizes, OperatorMines, dbVars, nodeVars
<1>3. parked' \subseteq DOMAIN txs
  BY NudgeType DEF Operator, OperatorAdopts, OperatorReleases, OperatorFinalizes, OperatorMines,
         dbVars, nodeVars, TypeInv
<1>4. \/ \E b \in inflight, t \in DOMAIN txs :
                   b.txid = 0 /\ LiveTx(b, t) /\ Attach(b.id, t) /\ paid' = paid
      \/ \E b \in inflight :
                   (\A t \in DOMAIN txs : ~LiveTx(b, t)) /\ Abort(b.id) /\ paid' = paid
      \/ \E b \in inflight : b.txid # 0 /\ Mined(b.txid) /\ Finalize(b)
      \/ inflight' = inflight /\ paid' = paid
  BY DEF Operator, OperatorAdopts, OperatorReleases, OperatorFinalizes, OperatorMines, dbVars
<1>. QED  BY <1>1, <1>2, <1>3, <1>4

\* The node's steps leave rows and runners alone.
LEMMA NetworkFacts ==
    ASSUME TypeInv, Network
    PROVE  /\ UNCHANGED <<accrued, paid, inflight, run, learned, rail>>
           /\ SameTxs /\ DOMAIN txs' = DOMAIN txs /\ Len(txs') = Len(txs)
           /\ parked' \subseteq DOMAIN txs' /\ faults' \in Nat
           /\ oldNode' \in BOOLEAN /\ (oldNode' = oldNode \/ "upgrade" \in Faults)
           /\ utxo' \in 0..Len(txs)
           /\ utxo' # 0 /\ (utxo # 0 => Mined(utxo)) => Mined(utxo)'
           /\ \/ received' = received /\ \A t \in DOMAIN txs : Mined(t)' <=> Mined(t)
              \/ \E body \in SUBSET InMempool : Connect(body)
<1>. USE DEF dbVars, nodeVars
<1>0. /\ parked \subseteq DOMAIN txs /\ utxo \in 0..Len(txs) /\ faults \in Nat
      /\ oldNode \in BOOLEAN
      /\ Len(txs) \in Nat /\ DOMAIN txs = 1..Len(txs)
  BY TxsFacts DEF TypeInv
<1>1. ASSUME txs' = txs
      PROVE  /\ SameTxs /\ DOMAIN txs' = DOMAIN txs /\ Len(txs') = Len(txs)
             /\ \A t \in DOMAIN txs : Mined(t)' <=> Mined(t)
             /\ \A t : Mined(t) => Mined(t)'
  BY <1>1, SameTxsStay DEF Mined
<1>2. ASSUME NEW body \in SUBSET InMempool, Connect(body), parked' = {},
             UNCHANGED <<dbVars, run, learned, rail, oldNode, faults>>
      PROVE  /\ UNCHANGED <<accrued, paid, inflight, run, learned, rail>>
             /\ SameTxs /\ DOMAIN txs' = DOMAIN txs /\ Len(txs') = Len(txs)
             /\ parked' \subseteq DOMAIN txs' /\ faults' \in Nat
             /\ oldNode' \in BOOLEAN /\ (oldNode' = oldNode \/ "upgrade" \in Faults)
             /\ utxo' \in 0..Len(txs)
             /\ utxo' # 0 /\ (utxo # 0 => Mined(utxo)) => Mined(utxo)'
             /\ \E B \in SUBSET InMempool : Connect(B)
  <2>1. /\ SameTxs /\ DOMAIN txs' = DOMAIN txs /\ Len(txs') = Len(txs)
        /\ \A t \in DOMAIN txs : Mined(t)' <=> Mined(t) \/ t \in body
        /\ utxo' = utxo \/ utxo' = 0 \/ utxo' \in body
    BY <1>2, ConnectFacts
  <2>2. body \subseteq DOMAIN txs
    BY DEF InMempool
  <2>3. utxo' \in 0..Len(txs)
    BY <1>0, <2>1, <2>2
  <2>4. utxo' # 0 /\ (utxo # 0 => Mined(utxo)) => Mined(utxo)'
    <3>1. ASSUME utxo' # 0, utxo # 0 => Mined(utxo) PROVE Mined(utxo)'
      <4>1. PICK u : u = utxo'
        OBVIOUS
      <4>2. u \in DOMAIN txs
        BY <1>0, <2>3, <3>1, <4>1
      <4>3. Mined(u) \/ u \in body
        BY <2>1, <3>1, <4>1
      <4>4. txs'[u].state \in {"tip", "buried"}
        BY <2>1, <4>2, <4>3 DEF Mined
      <4>. QED  BY <4>1, <4>4 DEF Mined
    <3>. QED  BY <3>1
  <2>. QED  BY <1>0, <1>2, <2>1, <2>3, <2>4
<1>3. CASE MineParked
  <2>1. parked \cap InMempool \in SUBSET InMempool
    OBVIOUS
  <2>2. Connect(parked \cap InMempool) /\ parked' = {}
        /\ UNCHANGED <<dbVars, run, learned, rail, oldNode, faults>>
    BY <1>3 DEF MineParked
  <2>. QED  BY <1>2, <2>1, <2>2
<1>4. CASE MineElsewhere
  <2>1. PICK body \in {{}, InMempool} : Connect(body)
    BY <1>4 DEF MineElsewhere
  <2>2. body \in SUBSET InMempool /\ parked' = {}
        /\ UNCHANGED <<dbVars, run, learned, rail, oldNode, faults>>
    BY <1>4, <2>1 DEF MineElsewhere
  <2>. QED  BY <1>2, <2>1, <2>2
<1>5. CASE Miss
  <2>1. faults' \in Nat
    BY <1>5, FaultType DEF Miss
  <2>2. parked' = {} /\ UNCHANGED <<dbVars, run, learned, rail, oldNode, txs, utxo, received>>
    BY <1>5 DEF Miss
  <2>3. utxo' # 0 /\ (utxo # 0 => Mined(utxo)) => Mined(utxo)'
    BY <2>2 DEF Mined
  <2>. QED  BY <1>0, <1>1, <2>1, <2>2, <2>3
<1>6. CASE Evict
  <2>1. faults' \in Nat
    BY <1>6, FaultType DEF Evict
  <2>2. UNCHANGED <<dbVars, run, learned, rail, oldNode, utxo, parked, received>>
    BY <1>6 DEF Evict
  <2>3. /\ SameTxs /\ DOMAIN txs' = DOMAIN txs /\ Len(txs') = Len(txs)
        /\ \A t \in DOMAIN txs : Mined(t)' <=> Mined(t)
    BY <1>6, EvictFacts
  <2>4. utxo' # 0 /\ (utxo # 0 => Mined(utxo)) => Mined(utxo)'
    <3>1. utxo # 0 => utxo \in DOMAIN txs
      BY <1>0
    <3>. QED  BY <2>2, <2>3, <3>1 DEF Mined
  <2>. QED  BY <1>0, <2>1, <2>2, <2>3, <2>4
<1>7. CASE Upgrade
  <2>1. faults' \in Nat /\ "upgrade" \in Faults
    BY <1>7, FaultType DEF Upgrade, Fault
  <2>2. oldNode' = FALSE /\ UNCHANGED <<dbVars, run, learned, rail, txs, utxo, parked, received>>
    BY <1>7 DEF Upgrade
  <2>3. utxo' # 0 /\ (utxo # 0 => Mined(utxo)) => Mined(utxo)'
    BY <2>2 DEF Mined
  <2>. QED  BY <1>0, <1>1, <2>1, <2>2, <2>3
<1>. QED  BY <1>3, <1>4, <1>5, <1>6, <1>7 DEF Network

-----------------------------------------------------------------------------
(* Who owns which batch. *)

\* The txid on a batch is the one of a transaction that was built for it.
Carries(b) == b.txid \in DOMAIN txs /\ txs[b.txid].batch = b.id

\* A runner between beginBatch and the broadcast has its rows in flight, no
\* txid on them and no transaction out; after the broadcast it knows the
\* transaction and the rows do not.
RunInv(r) ==
    /\ run[r].pc \in Chosen => run[r].batch.txid = 0
    /\ run[r].pc \in Unsent => /\ run[r].batch \in inflight /\ run[r].batch.txid = 0
                               /\ \A t \in DOMAIN txs : txs[t].batch # run[r].batch.id
    /\ run[r].pc = "attach" =>
          /\ Carries(run[r].batch)
          /\ \E o \in inflight : /\ o.id = run[r].batch.id /\ o.txid = 0
                                 /\ o.sats = run[r].batch.sats
    /\ run[r].pc \in Looking => Carries(run[r].batch)

\* Nobody else works on a batch that is being paid.
Apart(r, q) == run[r].pc \in Making /\ run[q].pc \in Making \cup Looking
                  => run[r].batch.id # run[q].batch.id

RowInv ==
    /\ Bounded
    /\ \A t, u \in DOMAIN txs : txs[t].batch = txs[u].batch => t = u
    /\ \A b, o \in inflight : b.id = o.id => b = o
    /\ \A b \in inflight : b.txid # 0 => Carries(b)
    /\ utxo # 0 => Mined(utxo)

IdInv ==
    /\ RowInv
    /\ \A r \in Runners : RunInv(r)
    /\ \A r, q \in Runners : r # q => Apart(r, q)

LEMMA InitId == Init => TypeInv /\ IdInv
<1>. SUFFICES ASSUME Init PROVE TypeInv /\ IdInv
  OBVIOUS
<1>1. MaxAccrued \in Nat /\ MaxTx \in Nat /\ OldNode \in BOOLEAN
  BY PayoutAssumption
<1>2. Idle \in Run /\ Idle.pc = "idle" /\ Idle.batch.id = 0
  BY IdleFacts
<1>3. Len(txs) = 0 /\ DOMAIN txs = {} /\ txs \in Seq(Tx)
  BY DEF Init
<1>4. TypeInv
  BY <1>1, <1>2, <1>3 DEF Init, TypeInv, Learned
<1>5. \A r \in Runners : run[r] = Idle
  BY DEF Init
<1>6. Bound(0)
  BY <1>2, <1>3, <1>5 DEF Bound, Init
<1>7. RowInv
  BY <1>3, <1>6 DEF RowInv, Bounded, Init
<1>8. \A r \in Runners : RunInv(r)
  BY <1>2, <1>5 DEF RunInv, Chosen, Unsent, Looking
<1>9. \A r, q \in Runners : Apart(r, q)
  BY <1>2, <1>5 DEF Apart, Making, Unsent
<1>. QED  BY <1>4, <1>7, <1>8, <1>9 DEF IdInv

\* A runner that stays where it is, while its rows stay and no transaction
\* appears for them.
LEMMA RunKeep ==
    ASSUME NEW r \in Runners, RunInv(r), run'[r] = run[r],
           DOMAIN txs \subseteq DOMAIN txs',
           \A t \in DOMAIN txs : txs'[t].batch = txs[t].batch,
           run[r].pc \in Making =>
              \A o \in inflight : o.id = run[r].batch.id => o \in inflight',
           run[r].pc \in Unsent =>
              \A t \in DOMAIN txs' : t \notin DOMAIN txs => txs'[t].batch # run[r].batch.id
    PROVE  RunInv(r)'
<1>1. Carries(run[r].batch) => Carries(run[r].batch)'
  BY DEF Carries
<1>2. run[r].pc \in Unsent => run[r].pc \in Making
  BY DEF Making
<1>3. run[r].pc = "attach" => run[r].pc \in Making
  BY DEF Making
<1>. QED  BY <1>1, <1>2, <1>3 DEF RunInv

LEMMA ApartKeep ==
    ASSUME NEW r \in Runners, NEW q \in Runners, Apart(r, q), run'[r] = run[r], run'[q] = run[q]
    PROVE  Apart(r, q)'
BY DEF Apart

\* A runner that is out of the way.
Away(p) == p \notin Making \cup Looking

LEMMA AwayInv ==
    ASSUME NEW r \in Runners, Away(run'[r].pc), run'[r].pc \in Chosen => run'[r].batch.txid = 0
    PROVE  RunInv(r)'
BY DEF RunInv, Away, Making

LEMMA AwayApart ==
    ASSUME NEW r, NEW q, Away(run'[r].pc) \/ Away(run'[q].pc)
    PROVE  Apart(r, q)'
BY DEF Apart, Away

\* The bound on ids moves up only with a new batch.
LEMMA BoundKeep ==
    ASSUME Bounded, TypeInv,
           \A b \in inflight' : \E o \in inflight : o.id = b.id,
           \A r \in Runners : \/ run'[r].batch.id = 0
                              \/ \E q \in Runners : run'[r].batch.id = run[q].batch.id
                              \/ \E b \in inflight : run'[r].batch.id = b.id,
           \A t \in DOMAIN txs' : \/ \E u \in DOMAIN txs : txs'[t].batch = txs[u].batch
                                  \/ \E q \in Runners : txs'[t].batch = run[q].batch.id
    PROVE  Bounded'
<1>1. PICK n \in Nat : Bound(n)
  BY DEF Bounded
<1>2. Bound(n)'
  BY <1>1 DEF Bound
<1>. QED  BY <1>2 DEF Bounded

\* Rows and txs as they were.
LEMMA RowKeep ==
    ASSUME RowInv, TypeInv, inflight' = inflight, SameTxs, DOMAIN txs' = DOMAIN txs,
           utxo' # 0 /\ (utxo # 0 => Mined(utxo)) => Mined(utxo)',
           \A r \in Runners : \/ run'[r].batch.id = 0
                              \/ run'[r].batch.id = run[r].batch.id
                              \/ \E b \in inflight : run'[r].batch.id = b.id
    PROVE  RowInv'
<1>1. Bounded'
  BY BoundKeep DEF RowInv, SameTxs
<1>2. \A b \in inflight : Carries(b) => Carries(b)'
  BY DEF Carries, SameTxs
<1>. QED  BY <1>1, <1>2 DEF RowInv, SameTxs
LEMMA IdQuiet ==
    ASSUME TypeInv, IdInv, NEW r \in Runners, Quiet(r)
    PROVE  IdInv'
<1>1. run[r].pc \in Chosen => run[r].batch.txid = 0
  BY DEF IdInv, RunInv
<1>2. QuietMove(r) /\ UNCHANGED <<inflight, txs, utxo>>
  BY <1>1, QuietMoves
<1>3. SameTxs /\ DOMAIN txs' = DOMAIN txs
  BY <1>2, SameTxsStay
<1>4. PICK p, b, a : Moved(r, p, b, a)
        /\ \/ Away(p) /\ (p \in Chosen => b.txid = 0) /\ b.id \in {0, run[r].batch.id}
           \/ b = run[r].batch /\ {run[r].pc, p} \subseteq Unsent
           \/ b = run[r].batch /\ {run[r].pc, p} \subseteq Looking
           \/ p = "gettx" /\ b \in inflight /\ b.txid # 0
  BY <1>2 DEF QuietMove, Away, Pending
<1>5. /\ run'[r].pc = p /\ run'[r].batch = b
      /\ \A q \in Runners : q # r => run'[q] = run[q]
  BY <1>4 DEF Moved
<1>6. RowInv'
  <2>1. utxo' # 0 /\ (utxo # 0 => Mined(utxo)) => Mined(utxo)'
    BY <1>2 DEF Mined
  <2>2. \A q \in Runners : \/ run'[q].batch.id = 0 \/ run'[q].batch.id = run[q].batch.id
                           \/ \E o \in inflight : run'[q].batch.id = o.id
    BY <1>4, <1>5
  <2>. QED  BY <1>2, <1>3, <2>1, <2>2, RowKeep DEF IdInv
<1>7. RunInv(r) /\ \A q \in Runners : q # r => RunInv(q) /\ Apart(r, q) /\ Apart(q, r)
  BY DEF IdInv
<1>8. ASSUME NEW q \in Runners, q # r PROVE RunInv(q)'
  BY <1>2, <1>3, <1>5, <1>7, <1>8, RunKeep DEF SameTxs
<1>9. ASSUME NEW q \in Runners, NEW s \in Runners, q # s, q # r, s # r PROVE Apart(q, s)'
  BY <1>5, <1>9, ApartKeep DEF IdInv
<1>10. CASE Away(p) /\ (p \in Chosen => b.txid = 0)
  <2>1. RunInv(r)' /\ \A q \in Runners : Apart(q, r)' /\ Apart(r, q)'
    BY <1>5, <1>10, AwayInv, AwayApart
  <2>. QED  BY <1>6, <1>8, <1>9, <2>1 DEF IdInv
<1>11. CASE b = run[r].batch /\ {run[r].pc, p} \subseteq Unsent
  <2>1. RunInv(r)'
    BY <1>2, <1>5, <1>7, <1>11 DEF RunInv, Unsent, Chosen, Looking
  <2>2. \A q \in Runners : q # r => Apart(q, r)' /\ Apart(r, q)'
    BY <1>5, <1>7, <1>11 DEF Apart, Unsent, Making, Looking
  <2>. QED  BY <1>6, <1>8, <1>9, <2>1, <2>2 DEF IdInv
<1>12. CASE b = run[r].batch /\ {run[r].pc, p} \subseteq Looking
  <2>1. RunInv(r)'
    BY <1>2, <1>5, <1>7, <1>12 DEF RunInv, Unsent, Chosen, Looking, Carries
  <2>2. \A q \in Runners : q # r => Apart(q, r)' /\ Apart(r, q)'
    BY <1>5, <1>7, <1>12 DEF Apart, Unsent, Making, Looking
  <2>. QED  BY <1>6, <1>8, <1>9, <2>1, <2>2 DEF IdInv
<1>13. CASE p = "gettx" /\ b \in inflight /\ b.txid # 0
  <2>1. Carries(b)
    BY <1>13 DEF IdInv, RowInv
  <2>2. RunInv(r)'
    BY <1>2, <1>5, <1>13, <2>1 DEF RunInv, Unsent, Chosen, Looking, Carries
  <2>3. ASSUME NEW q \in Runners, q # r, run[q].pc \in Making PROVE run[q].batch.id # b.id
    <3>1. \E o \in inflight : o.id = run[q].batch.id /\ o.txid = 0
      BY <1>7, <2>3 DEF RunInv, Making
    <3>. QED  BY <1>13, <3>1 DEF IdInv, RowInv
  <2>4. ASSUME NEW q \in Runners, q # r PROVE Apart(q, r)' /\ Apart(r, q)'
    BY <1>5, <1>13, <2>3, <2>4 DEF Apart, Unsent, Making, Looking
  <2>. QED  BY <1>6, <1>8, <1>9, <2>2, <2>4 DEF IdInv
<1>. QED  BY <1>4, <1>10, <1>11, <1>12, <1>13

\* The rows of one batch go, and nobody is left who is paying it.
LEMMA IdRemove ==
    ASSUME TypeInv, IdInv, NEW i, inflight' = {o \in inflight : o.id # i},
           UNCHANGED <<txs, utxo>>,
           \A q \in Runners :
              \/ run'[q] = run[q] /\ (run[q].pc \in Making => run[q].batch.id # i)
              \/ Away(run'[q].pc) /\ run'[q].pc \notin Chosen /\ run'[q].batch.id = 0
    PROVE  IdInv'
<1>1. SameTxs /\ DOMAIN txs' = DOMAIN txs
  BY SameTxsStay
<1>2. RowInv'
  <2>1. Bounded'
    BY <1>1, BoundKeep DEF IdInv, RowInv, SameTxs
  <2>2. \A b : Carries(b) => Carries(b)'
    BY DEF Carries
  <2>3. utxo' # 0 => Mined(utxo)'
    BY DEF IdInv, RowInv, Mined
  <2>. QED  BY <1>1, <2>1, <2>2, <2>3 DEF IdInv, RowInv
<1>3. ASSUME NEW q \in Runners PROVE RunInv(q)'
  <2>1. CASE run'[q] = run[q] /\ (run[q].pc \in Making => run[q].batch.id # i)
    BY <1>1, <2>1, RunKeep DEF IdInv, SameTxs
  <2>2. CASE Away(run'[q].pc) /\ run'[q].pc \notin Chosen
    BY <2>2, AwayInv
  <2>. QED  BY <2>1, <2>2
<1>4. ASSUME NEW q \in Runners, NEW s \in Runners, q # s PROVE Apart(q, s)'
  <2>1. CASE run'[q] = run[q] /\ run'[s] = run[s]
    BY <1>4, <2>1, ApartKeep DEF IdInv
  <2>2. CASE Away(run'[q].pc) \/ Away(run'[s].pc)
    BY <2>2, AwayApart
  <2>. QED  BY <2>1, <2>2
<1>. QED  BY <1>2, <1>3, <1>4 DEF IdInv

\* The rows of one batch get the txid of its transaction.
LEMMA IdStamp ==
    ASSUME TypeInv, IdInv, NEW i, NEW t \in DOMAIN txs, txs[t].batch = i, Attach(i, t),
           UNCHANGED <<txs, utxo>>,
           \A q \in Runners :
              \/ run'[q] = run[q] /\ (run[q].pc \in Making => run[q].batch.id # i)
              \/ Away(run'[q].pc) /\ run'[q].pc \notin Chosen /\ run'[q].batch.id = 0
    PROVE  IdInv'
<1>1. SameTxs /\ DOMAIN txs' = DOMAIN txs
  BY SameTxsStay
<1>2. t \in 0..MaxTx
  BY TxsFacts, PayoutAssumption DEF TypeInv
<1>3. /\ \A b \in inflight' : \E o \in inflight :
                /\ b.id = o.id
                /\ o.id # i => b = o
                /\ o.id = i => b.txid = t /\ b.sats = o.sats
      /\ \A o \in inflight : o.id # i => o \in inflight'
      /\ \A b \in inflight' : b \in Batch
  BY <1>2, AttachFacts
<1>4. RowInv'
  <2>1. Bounded'
    BY <1>1, <1>3, BoundKeep DEF IdInv, RowInv, SameTxs
  <2>2. \A b : Carries(b) => Carries(b)'
    BY DEF Carries
  <2>3. utxo' # 0 => Mined(utxo)'
    BY DEF IdInv, RowInv, Mined
  <2>4. ASSUME NEW b \in inflight', b.txid # 0 PROVE Carries(b)'
    <3>1. PICK o \in inflight : /\ b.id = o.id
                                /\ o.id # i => b = o
                                /\ o.id = i => b.txid = t
      BY <1>3
    <3>2. CASE o.id = i
      BY <3>1, <3>2 DEF Carries
    <3>3. CASE o.id # i
      BY <2>2, <2>4, <3>1, <3>3 DEF IdInv, RowInv
    <3>. QED  BY <3>2, <3>3
  <2>5. ASSUME NEW b \in inflight', NEW c \in inflight', b.id = c.id PROVE b = c
    <3>1. PICK o \in inflight : /\ b.id = o.id
                                /\ o.id # i => b = o
                                /\ o.id = i => b.txid = t /\ b.sats = o.sats
      BY <1>3
    <3>2. PICK u \in inflight : /\ c.id = u.id
                                /\ u.id # i => c = u
                                /\ u.id = i => c.txid = t /\ c.sats = u.sats
      BY <1>3
    <3>3. o = u
      BY <2>5, <3>1, <3>2 DEF IdInv, RowInv
    <3>4. CASE o.id # i
      BY <3>1, <3>2, <3>3, <3>4
    <3>5. CASE o.id = i
      <4>1. b \in Batch /\ c \in Batch
        BY <1>3
      <4>. QED  BY <2>5, <3>1, <3>2, <3>3, <3>5, <4>1 DEF Batch
    <3>. QED  BY <3>4, <3>5
  <2>. QED  BY <1>1, <2>1, <2>3, <2>4, <2>5 DEF IdInv, RowInv
<1>5. ASSUME NEW q \in Runners PROVE RunInv(q)'
  <2>1. CASE run'[q] = run[q] /\ (run[q].pc \in Making => run[q].batch.id # i)
    BY <1>1, <1>3, <2>1, RunKeep DEF IdInv, SameTxs
  <2>2. CASE Away(run'[q].pc) /\ run'[q].pc \notin Chosen
    BY <2>2, AwayInv
  <2>. QED  BY <2>1, <2>2
<1>6. ASSUME NEW q \in Runners, NEW s \in Runners, q # s PROVE Apart(q, s)'
  <2>1. CASE run'[q] = run[q] /\ run'[s] = run[s]
    BY <1>6, <2>1, ApartKeep DEF IdInv
  <2>2. CASE Away(run'[q].pc) \/ Away(run'[s].pc)
    BY <2>2, AwayApart
  <2>. QED  BY <2>1, <2>2
<1>. QED  BY <1>4, <1>5, <1>6 DEF IdInv
\* A runner that stops, or starts to select, is out of the way.
LEMMA AwayPcs ==
    Away("idle") /\ Away("select") /\ "idle" \notin Chosen /\ "select" \notin Chosen
BY DEF Away, Making, Unsent, Looking, Chosen

LEMMA IdSettle ==
    ASSUME TypeInv, IdInv, NEW r \in Runners, SettleByBlock(r) \/ SettleByOutput(r)
    PROVE  IdInv'
<1>1. /\ run[r].pc \in Looking /\ inflight' = {o \in inflight : o.id # run[r].batch.id}
      /\ run'[r].pc = "select" /\ run'[r].batch = NoBatch
      /\ \A q \in Runners : q # r => run'[q] = run[q]
      /\ UNCHANGED <<txs, utxo>>
  BY SettleFacts DEF Finalize, Moved
<1>2. NoBatch.id = 0
  BY IdleFacts
<1>3. ASSUME NEW q \in Runners, q # r, run[q].pc \in Making
      PROVE  run[q].batch.id # run[r].batch.id
  BY <1>1, <1>3 DEF IdInv, Apart
<1>. QED  BY <1>1, <1>2, <1>3, AwayPcs, IdRemove

LEMMA IdFail ==
    ASSUME TypeInv, IdInv, NEW r \in Runners, TransferFails(r) \/ AnswerLost(r)
    PROVE  IdInv'
<1>1. /\ run[r].pc \in Making /\ inflight' = {o \in inflight : o.id # run[r].batch.id}
      /\ run'[r].pc = "idle" /\ run'[r].batch = NoBatch
      /\ \A q \in Runners : q # r => run'[q] = run[q]
      /\ UNCHANGED <<txs, utxo>>
  BY FailFacts DEF Abort, Moved
<1>2. NoBatch.id = 0
  BY IdleFacts
<1>3. ASSUME NEW q \in Runners, q # r, run[q].pc \in Making
      PROVE  run[q].batch.id # run[r].batch.id
  BY <1>1, <1>3 DEF IdInv, Apart
<1>. QED  BY <1>1, <1>2, <1>3, AwayPcs, IdRemove

LEMMA IdAttach ==
    ASSUME TypeInv, IdInv, NEW r \in Runners, AttachTxid(r)
    PROVE  IdInv'
<1>1. /\ run[r].pc = "attach" /\ Attach(run[r].batch.id, run[r].batch.txid)
      /\ run'[r].pc = "idle" /\ run'[r].batch = NoBatch
      /\ \A q \in Runners : q # r => run'[q] = run[q]
      /\ UNCHANGED <<txs, utxo>>
  BY StampFacts DEF Moved
<1>2. NoBatch.id = 0
  BY IdleFacts
<1>3. run[r].batch.txid \in DOMAIN txs /\ txs[run[r].batch.txid].batch = run[r].batch.id
  BY <1>1 DEF IdInv, RunInv, Carries
<1>4. ASSUME NEW q \in Runners, q # r, run[q].pc \in Making
      PROVE  run[q].batch.id # run[r].batch.id
  BY <1>1, <1>4 DEF IdInv, Apart, Making
<1>. QED  BY <1>1, <1>2, <1>3, <1>4, AwayPcs, IdStamp

LEMMA IdBegin ==
    ASSUME TypeInv, IdInv, NEW r \in Runners, BeginBatch(r)
    PROVE  IdInv'
<1>1. /\ FreshId \in Nat
      /\ \A b \in inflight : b.id < FreshId
      /\ \A q \in Runners : run[q].batch.id < FreshId
      /\ \A t \in DOMAIN txs : txs[t].batch < FreshId
  BY FreshFacts DEF IdInv, RowInv
<1>2. PICK b : b = [id |-> FreshId, txid |-> run[r].batch.txid, sats |-> run[r].batch.sats]
  OBVIOUS
<1>3. /\ run[r].pc = "balance" /\ b \in Batch
      /\ inflight' = inflight \cup {b}
      /\ Moved(r, "create", b, run[r].answer)
  BY <1>1, <1>2, BeginMoves
<1>4. /\ run'[r].pc = "create" /\ run'[r].batch = b
      /\ \A q \in Runners : q # r => run'[q] = run[q]
      /\ UNCHANGED <<txs, utxo>>
  BY <1>3 DEF Moved, BeginBatch, nodeVars
<1>5. b.id = FreshId /\ b.txid = 0
  BY <1>2, <1>3 DEF IdInv, RunInv, Chosen
<1>6. /\ \A o \in inflight : o.id \in Nat
      /\ \A q \in Runners : run[q].batch.id \in Nat
      /\ \A t \in DOMAIN txs : txs[t].batch \in Nat
  <2>1. \A q \in Runners : run[q].batch.id \in Nat
    BY RunFields DEF TypeInv
  <2>2. \A o \in inflight : o.id \in Nat
    BY DEF TypeInv, Batch
  <2>3. \A t \in DOMAIN txs : txs[t] \in Tx
    BY TxsFacts DEF TypeInv
  <2>. QED  BY <2>1, <2>2, <2>3 DEF Tx
<1>7. RowInv'
  <2>1. PICK n : n = FreshId
    OBVIOUS
  <2>2. Bounded'
    <3>1. \A o \in inflight' : o.id <= n
      BY <1>1, <1>3, <1>5, <1>6, <2>1
    <3>2. \A q \in Runners : run'[q].batch.id <= n
      BY <1>1, <1>4, <1>5, <1>6, <2>1
    <3>3. \A t \in DOMAIN txs' : txs'[t].batch <= n
      BY <1>1, <1>4, <1>6, <2>1
    <3>4. n \in Nat
      BY <1>1, <2>1
    <3>5. Bound(n)'
      BY <3>1, <3>2, <3>3 DEF Bound
    <3>. QED  BY <3>4, <3>5 DEF Bounded
  <2>3. \A o, u \in inflight' : o.id = u.id => o = u
    BY <1>1, <1>3, <1>5, <1>6 DEF IdInv, RowInv
  <2>4. \A o \in inflight' : o.txid # 0 => Carries(o)'
    BY <1>3, <1>4, <1>5 DEF IdInv, RowInv, Carries
  <2>. QED  BY <1>4, <2>2, <2>3, <2>4 DEF IdInv, RowInv, Mined
<1>8. RunInv(r)'
  <2>1. \A t \in DOMAIN txs' : txs'[t].batch # b.id
    BY <1>1, <1>4, <1>5, <1>6
  <2>. QED  BY <1>3, <1>4, <1>5, <2>1 DEF RunInv, Chosen, Unsent, Looking
<1>9. ASSUME NEW q \in Runners, q # r PROVE RunInv(q)' /\ Apart(q, r)' /\ Apart(r, q)'
  <2>1. RunInv(q)'
    BY <1>3, <1>4, <1>9, RunKeep DEF IdInv
  <2>2. run'[q].batch.id # b.id
    BY <1>1, <1>4, <1>5, <1>6, <1>9
  <2>. QED  BY <1>4, <2>1, <2>2 DEF Apart
<1>10. ASSUME NEW q \in Runners, NEW s \in Runners, q # s, q # r, s # r PROVE Apart(q, s)'
  BY <1>4, <1>10, ApartKeep DEF IdInv
<1>. QED  BY <1>7, <1>8, <1>9, <1>10 DEF IdInv

LEMMA IdSend ==
    ASSUME TypeInv, IdInv, NEW r \in Runners, CreateBroadcasts(r) \/ Submit(r)
    PROVE  IdInv'
<1>1. /\ run[r].pc \in Unsent /\ Len(txs) < MaxTx /\ UNCHANGED <<inflight, utxo>>
      /\ \E outs \in Outs, a \in Answers : Broadcast(run[r].batch.id, outs) /\ Sent(r, a)
  BY SendFacts
<1>2. PICK outs \in Outs, a \in Answers : Broadcast(run[r].batch.id, outs) /\ Sent(r, a)
  BY <1>1
<1>3. PICK n : n = Len(txs) + 1
  OBVIOUS
<1>4. PICK b : b = [id |-> run[r].batch.id, txid |-> n, sats |-> run[r].batch.sats]
  OBVIOUS
<1>5. Moved(r, "attach", b, a)
  BY <1>1, <1>2, <1>3, <1>4, SentMoves
<1>6. /\ run'[r].pc = "attach" /\ run'[r].batch = b
      /\ \A q \in Runners : q # r => run'[q] = run[q]
  BY <1>5 DEF Moved
<1>7. run[r].batch.id \in Nat
  BY RunFields DEF TypeInv
<1>8. /\ SameTxs /\ DOMAIN txs' = DOMAIN txs \cup {n}
      /\ \A t \in DOMAIN txs : txs'[t] = txs[t] /\ t # n
      /\ txs'[n].batch = run[r].batch.id
  BY <1>2, <1>3, <1>7, BroadcastFacts DEF Outs
<1>9. /\ run[r].batch \in inflight /\ run[r].batch.txid = 0
      /\ \A t \in DOMAIN txs : txs[t].batch # run[r].batch.id
  BY <1>1 DEF IdInv, RunInv
<1>10. b.id = run[r].batch.id /\ b.txid = n /\ b.sats = run[r].batch.sats
  BY <1>4
<1>11. RowInv'
  <2>1. Bounded'
    <3>1. \A q \in Runners : \E s \in Runners : run'[q].batch.id = run[s].batch.id
      BY <1>6, <1>10
    <3>2. \A t \in DOMAIN txs' : \/ \E u \in DOMAIN txs : txs'[t].batch = txs[u].batch
                                 \/ \E q \in Runners : txs'[t].batch = run[q].batch.id
      BY <1>8
    <3>3. \A o \in inflight' : \E u \in inflight : u.id = o.id
      BY <1>1
    <3>. QED  BY <3>1, <3>2, <3>3, BoundKeep DEF IdInv, RowInv
  <2>2. \A t, u \in DOMAIN txs' : txs'[t].batch = txs'[u].batch => t = u
    BY <1>8, <1>9 DEF IdInv, RowInv
  <2>3. \A o \in inflight' : o.txid # 0 => Carries(o)'
    BY <1>1, <1>8 DEF IdInv, RowInv, Carries
  <2>4. utxo' # 0 => Mined(utxo)'
    <3>1. utxo # 0 => utxo \in DOMAIN txs
      BY TxsFacts DEF TypeInv
    <3>. QED  BY <1>1, <1>8, <3>1 DEF IdInv, RowInv, Mined
  <2>. QED  BY <1>1, <2>1, <2>2, <2>3, <2>4 DEF IdInv, RowInv
<1>12. RunInv(r)'
  <2>1. Carries(b)'
    BY <1>8, <1>10 DEF Carries
  <2>. QED  BY <1>1, <1>6, <1>9, <1>10, <2>1 DEF RunInv, Chosen, Unsent, Looking
<1>13. ASSUME NEW q \in Runners, q # r PROVE RunInv(q)' /\ Apart(q, r)' /\ Apart(r, q)'
  <2>1. run[r].pc \in Making /\ RunInv(q) /\ Apart(r, q) /\ Apart(q, r)
    BY <1>1, <1>13 DEF IdInv, Making
  <2>2. run[q].pc \in Making \cup Looking => run[q].batch.id # run[r].batch.id
    BY <2>1 DEF Apart
  <2>3. RunInv(q)'
    BY <1>1, <1>6, <1>8, <1>13, <2>1, <2>2, RunKeep DEF Making
  <2>. QED  BY <1>6, <1>10, <1>13, <2>2, <2>3 DEF Apart
<1>14. ASSUME NEW q \in Runners, NEW s \in Runners, q # s, q # r, s # r PROVE Apart(q, s)'
  BY <1>6, <1>14, ApartKeep DEF IdInv
<1>. QED  BY <1>11, <1>12, <1>13, <1>14 DEF IdInv
LEMMA IdCrash ==
    ASSUME TypeInv, IdInv, Crash
    PROVE  IdInv'
<1>1. /\ \A r \in Runners : run'[r].pc = "idle" /\ run'[r].batch.id = 0
      /\ UNCHANGED <<inflight, txs, utxo>>
  BY CrashFacts, IdleFacts
<1>2. SameTxs /\ DOMAIN txs' = DOMAIN txs
  BY <1>1, SameTxsStay
<1>3. utxo' # 0 /\ (utxo # 0 => Mined(utxo)) => Mined(utxo)'
  BY <1>1 DEF Mined
<1>4. RowInv'
  BY <1>1, <1>2, <1>3, RowKeep DEF IdInv
<1>5. \A r \in Runners : RunInv(r)'
  BY <1>1, AwayPcs, AwayInv
<1>6. \A r, q \in Runners : Apart(r, q)'
  BY <1>1, AwayPcs, AwayApart
<1>. QED  BY <1>4, <1>5, <1>6 DEF IdInv

\* The node's steps.
LEMMA IdNetwork ==
    ASSUME TypeInv, IdInv, SameTxs, DOMAIN txs' = DOMAIN txs, UNCHANGED <<inflight, run>>,
           utxo' # 0 /\ (utxo # 0 => Mined(utxo)) => Mined(utxo)'
    PROVE  IdInv'
<1>1. RowInv'
  BY RowKeep DEF IdInv
<1>2. ASSUME NEW r \in Runners PROVE RunInv(r)'
  BY RunKeep DEF IdInv, SameTxs
<1>3. ASSUME NEW r \in Runners, NEW q \in Runners, r # q PROVE Apart(r, q)'
  BY <1>3, ApartKeep DEF IdInv
<1>. QED  BY <1>1, <1>2, <1>3 DEF IdInv

LEMMA IdStay ==
    ASSUME TypeInv, IdInv, UNCHANGED <<inflight, run, txs, utxo>>
    PROVE  IdInv'
<1>1. SameTxs /\ DOMAIN txs' = DOMAIN txs
  BY SameTxsStay
<1>2. utxo' # 0 /\ (utxo # 0 => Mined(utxo)) => Mined(utxo)'
  BY DEF Mined
<1>. QED  BY <1>1, <1>2, IdNetwork

LEMMA IdOperator ==
    ASSUME TypeInv, IdInv, Operator
    PROVE  IdInv'
<1>1. /\ \A r \in Runners : run[r].pc = "idle"
      /\ UNCHANGED <<run, txs, utxo>>
      /\ \/ \E b \in inflight, t \in DOMAIN txs : txs[t].batch = b.id /\ Attach(b.id, t)
         \/ \E b \in inflight : inflight' = {o \in inflight : o.id # b.id}
         \/ inflight' = inflight
  BY OperatorFacts DEF LiveTx, Abort, Finalize
<1>2. \A q \in Runners : run'[q] = run[q] /\ run[q].pc \notin Making
  BY <1>1, AwayPcs DEF Away
<1>3. CASE \E b \in inflight, t \in DOMAIN txs : txs[t].batch = b.id /\ Attach(b.id, t)
  BY <1>1, <1>2, <1>3, IdStamp
<1>4. CASE \E b \in inflight : inflight' = {o \in inflight : o.id # b.id}
  BY <1>1, <1>2, <1>4, IdRemove
<1>5. CASE inflight' = inflight
  BY <1>1, <1>5, IdStay
<1>. QED  BY <1>1, <1>3, <1>4, <1>5

\* The steps of a runner, by what they do to rows and transactions.
LEMMA RunOnceSplit ==
    ASSUME NEW r, RunOnce(r)
    PROVE  \/ Quiet(r)
           \/ SettleByBlock(r) \/ SettleByOutput(r)
           \/ BeginBatch(r)
           \/ CreateBroadcasts(r) \/ Submit(r)
           \/ TransferFails(r) \/ AnswerLost(r)
           \/ AttachTxid(r)
BY DEF RunOnce, Quiet

LEMMA IdStep ==
    ASSUME TypeInv, IdInv, [Next]_vars
    PROVE  IdInv'
<1>1. ASSUME NEW r \in Runners, RunOnce(r) PROVE IdInv'
  BY <1>1, RunOnceSplit, IdQuiet, IdSettle, IdBegin, IdSend, IdFail, IdAttach
<1>2. CASE Network
  BY <1>2, NetworkFacts, IdNetwork
<1>3. ASSUME NEW w \in Workers, Accrue(w) PROVE IdInv'
  BY <1>3, IdStay DEF Accrue, nodeVars
<1>4. CASE Crash
  BY <1>4, IdCrash
<1>5. CASE Operator
  BY <1>5, IdOperator
<1>6. CASE UNCHANGED vars
  BY <1>6, IdStay DEF vars
<1>. QED  BY <1>1, <1>2, <1>3, <1>4, <1>5, <1>6 DEF Next

LEMMA TypeStep ==
    ASSUME TypeInv, IdInv, [Next]_vars
    PROVE  TypeInv'
<1>0. /\ txs \in Seq(Tx) /\ Len(txs) \in Nat /\ DOMAIN txs = 1..Len(txs)
      /\ MaxTx \in Nat /\ MaxAccrued \in Nat
      /\ Len(txs) <= MaxTx
      /\ accrued \in [Workers -> 0..MaxAccrued] /\ paid \in [Workers -> Nat]
      /\ \A b \in inflight : b \in Batch
      /\ run \in [Runners -> Run] /\ learned \in [Runners -> Learned]
      /\ rail \in Rails /\ oldNode \in BOOLEAN /\ utxo \in 0..Len(txs)
      /\ parked \subseteq DOMAIN txs /\ received \in [Workers -> Nat] /\ faults \in Nat
  BY TxsFacts, PayoutAssumption DEF TypeInv
<1>1. ASSUME NEW r \in Runners, Quiet(r) PROVE TypeInv'
  <2>1. run[r].pc \in Chosen => run[r].batch.txid = 0
    BY DEF IdInv, RunInv
  <2>2. /\ QuietMove(r)
        /\ UNCHANGED <<accrued, paid, inflight, rail, oldNode, txs, utxo, received>>
        /\ parked' \subseteq DOMAIN txs /\ learned' \in [Runners -> Learned]
        /\ faults' \in Nat
    BY <1>1, <2>1, QuietMoves
  <2>3. run' \in [Runners -> Run]
    BY <2>2, QuietMoveType
  <2>. QED  BY <1>0, <2>2, <2>3 DEF TypeInv
<1>2. ASSUME NEW r \in Runners, SettleByBlock(r) \/ SettleByOutput(r) PROVE TypeInv'
  <2>1. /\ run[r].batch \in Batch /\ Finalize(run[r].batch) /\ Moved(r, "select", NoBatch, "none")
        /\ UNCHANGED <<accrued, learned, rail, oldNode, txs, utxo, parked, received, faults>>
    BY <1>2, SettleFacts
  <2>2. paid' \in [Workers -> Nat]
    BY <2>1, CreditFacts DEF Finalize
  <2>3. run' \in [Runners -> Run]
    BY <2>1, MovedType
  <2>. QED  BY <1>0, <2>1, <2>2, <2>3 DEF TypeInv, Finalize
<1>3. ASSUME NEW r \in Runners, BeginBatch(r) PROVE TypeInv'
  <2>1. FreshId \in Nat
    BY FreshFacts DEF IdInv, RowInv
  <2>2. PICK b : b = [id |-> FreshId, txid |-> run[r].batch.txid, sats |-> run[r].batch.sats]
    OBVIOUS
  <2>3. b \in Batch /\ inflight' = inflight \cup {b} /\ Moved(r, "create", b, run[r].answer)
    BY <1>3, <2>1, <2>2, BeginMoves
  <2>4. run' \in [Runners -> Run]
    BY <2>3, MovedType
  <2>. QED  BY <1>0, <1>3, <2>3, <2>4 DEF TypeInv, BeginBatch, nodeVars
<1>4. ASSUME NEW r \in Runners, CreateBroadcasts(r) \/ Submit(r) PROVE TypeInv'
  <2>1. /\ Len(txs) < MaxTx
        /\ UNCHANGED <<accrued, paid, inflight, learned, rail, oldNode, utxo, parked,
                       received, faults>>
        /\ \E outs \in Outs, a \in Answers : Broadcast(run[r].batch.id, outs) /\ Sent(r, a)
    BY <1>4, SendFacts
  <2>2. PICK outs \in Outs, a \in Answers : Broadcast(run[r].batch.id, outs) /\ Sent(r, a)
    BY <2>1
  <2>3. run' \in [Runners -> Run]
    BY <2>1, <2>2, SentMoves DEF Moved
  <2>4. run[r].batch.id \in Nat
    BY <1>0, RunFields
  <2>5. SameTxs /\ Len(txs') = Len(txs) + 1
    BY <2>2, <2>4, BroadcastFacts DEF Outs
  <2>. QED  BY <1>0, <2>1, <2>3, <2>5 DEF TypeInv, SameTxs
<1>5. ASSUME NEW r \in Runners, TransferFails(r) \/ AnswerLost(r) PROVE TypeInv'
  <2>1. /\ Abort(run[r].batch.id)
        /\ Moved(r, "idle", NoBatch, "none") /\ faults' \in Nat
        /\ UNCHANGED <<accrued, paid, learned, rail, oldNode, txs, utxo, parked, received>>
    BY <1>5, FailFacts
  <2>2. run' \in [Runners -> Run]
    BY <2>1, MovedType
  <2>. QED  BY <1>0, <2>1, <2>2 DEF TypeInv, Abort
<1>6. ASSUME NEW r \in Runners, AttachTxid(r) PROVE TypeInv'
  <2>1. /\ Attach(run[r].batch.id, run[r].batch.txid)
        /\ Moved(r, "idle", NoBatch, "none")
        /\ faults' \in Nat /\ parked' \subseteq DOMAIN txs /\ Learn(r)
        /\ UNCHANGED <<accrued, paid, rail, oldNode, txs, utxo, received>>
    BY <1>6, StampFacts
  <2>2. run' \in [Runners -> Run] /\ learned' \in [Runners -> Learned]
    BY <2>1, MovedType, LearnType
  <2>3. \A b \in inflight' : b \in Batch
    BY <1>0, <2>1, RunFields, AttachFacts
  <2>. QED  BY <1>0, <2>1, <2>2, <2>3 DEF TypeInv
<1>7. ASSUME NEW r \in Runners, RunOnce(r) PROVE TypeInv'
  BY <1>1, <1>2, <1>3, <1>4, <1>5, <1>6, <1>7, RunOnceSplit
<1>8. CASE Network
  <2>1. received' \in [Workers -> Nat]
    BY <1>0, <1>8, NetworkFacts, ConnectPays
  <2>2. txs' \in Seq(Tx)
    BY <1>8, NetworkFacts DEF SameTxs
  <2>3. Len(txs') = Len(txs) /\ utxo' \in 0..Len(txs') /\ parked' \subseteq DOMAIN txs'
        /\ faults' \in Nat /\ oldNode' \in BOOLEAN
        /\ UNCHANGED <<accrued, paid, inflight, run, learned, rail>>
    BY <1>8, NetworkFacts
  <2>. QED  BY <1>0, <2>1, <2>2, <2>3 DEF TypeInv
<1>9. ASSUME NEW w \in Workers, Accrue(w) PROVE TypeInv'
  <2>1. accrued' = [accrued EXCEPT ![w] = accrued[w] + 1] /\ accrued[w] < MaxAccrued
        /\ UNCHANGED <<paid, inflight, run, learned, rail, oldNode, txs, utxo, parked,
                       received, faults>>
    BY <1>9 DEF Accrue, nodeVars
  <2>2. accrued[w] + 1 \in 0..MaxAccrued
    BY <1>0, <2>1
  <2>3. accrued' \in [Workers -> 0..MaxAccrued]
    BY <1>0, <2>1, <2>2
  <2>. QED  BY <1>0, <2>1, <2>3 DEF TypeInv
<1>10. CASE Crash
  <2>1. /\ run' \in [Runners -> Run] /\ learned' \in [Runners -> Learned] /\ faults' \in Nat
        /\ UNCHANGED <<accrued, paid, inflight, rail, oldNode, txs, utxo, parked, received>>
    BY <1>10, CrashFacts
  <2>. QED  BY <1>0, <2>1 DEF TypeInv
<1>11. CASE Operator
  <2>1. UNCHANGED <<accrued, run, learned, rail, oldNode, txs, utxo, received, faults>>
        /\ parked' \subseteq DOMAIN txs
    BY <1>11, OperatorFacts
  <2>2. (\A b \in inflight' : b \in Batch) /\ paid' \in [Workers -> Nat]
    <3>1. CASE \E b \in inflight, t \in DOMAIN txs : Attach(b.id, t) /\ paid' = paid
      <4>1. PICK b \in inflight, t \in DOMAIN txs : Attach(b.id, t) /\ paid' = paid
        BY <3>1
      <4>2. t \in 0..MaxTx
        BY <1>0
      <4>. QED  BY <1>0, <4>1, <4>2, AttachFacts
    <3>2. CASE \E b \in inflight : Abort(b.id) /\ paid' = paid
      BY <1>0, <3>2 DEF Abort
    <3>3. CASE \E b \in inflight : Finalize(b)
      BY <1>0, <3>3, CreditFacts DEF Finalize
    <3>4. CASE inflight' = inflight /\ paid' = paid
      BY <1>0, <3>4
    <3>. QED  BY <1>11, <3>1, <3>2, <3>3, <3>4, OperatorFacts
  <2>. QED  BY <1>0, <2>1, <2>2 DEF TypeInv
<1>12. CASE UNCHANGED vars
  BY <1>0, <1>12 DEF TypeInv, vars
<1>. QED  BY <1>7, <1>8, <1>9, <1>10, <1>11, <1>12 DEF Next

\* Every behaviour keeps the types and the ownership of batches.
THEOREM BatchesAreOwned == Spec => [](TypeInv /\ IdInv)
<1>1. TypeInv /\ IdInv /\ [Next]_vars => (TypeInv /\ IdInv)'
  BY TypeStep, IdStep
<1>. QED  BY <1>1, InitId, PTL DEF Spec

-----------------------------------------------------------------------------
(* An unmined transaction has its rows. *)

\* What is settled was mined.
LEMMA SettledIsMined ==
    ASSUME TypeInv, IdInv, NEW r \in Runners, SettleByBlock(r) \/ SettleByOutput(r)
    PROVE  Carries(run[r].batch) /\ Mined(run[r].batch.txid)
<1>1. run[r].pc \in Looking /\ (Confirmed(run[r].batch.txid) \/ utxo = run[r].batch.txid)
  BY SettleFacts
<1>2. Carries(run[r].batch)
  BY <1>1 DEF IdInv, RunInv
<1>3. run[r].batch.txid # 0
  BY <1>2, TxsFacts DEF Carries, TypeInv
<1>. QED  BY <1>1, <1>2, <1>3 DEF IdInv, RowInv, Confirmed, Mined

\* Rows stay, or go after the transaction has left the mempool.
LEMMA TrackKeep ==
    ASSUME NoUntrackedTransfer, SameTxs,
           \A t \in DOMAIN txs' : t \in DOMAIN txs \/ \E o \in inflight' : o.id = txs'[t].batch,
           \A t \in InMempool, b \in inflight :
              b.id = txs[t].batch => \/ \E o \in inflight' : o.id = b.id
                                     \/ txs'[t].state # "mempool"
    PROVE  NoUntrackedTransfer'
<1>1. SUFFICES ASSUME NEW t \in DOMAIN txs', txs'[t].state = "mempool"
               PROVE  \E o \in inflight' : o.id = txs'[t].batch
  BY DEF NoUntrackedTransfer, InMempool
<1>2. CASE t \in DOMAIN txs
  <2>1. t \in InMempool /\ txs'[t].batch = txs[t].batch
    BY <1>1, <1>2 DEF SameTxs, InMempool
  <2>2. PICK b \in inflight : b.id = txs[t].batch
    BY <2>1 DEF NoUntrackedTransfer
  <2>. QED  BY <1>1, <2>1, <2>2
<1>. QED  BY <1>2

LEMMA TrackStep ==
    ASSUME TypeInv, IdInv, NoUntrackedTransfer, "lost" \notin Faults, [Next]_vars
    PROVE  NoUntrackedTransfer'
<1>0. \A t, u \in DOMAIN txs : txs[t].batch = txs[u].batch => t = u
  BY DEF IdInv, RowInv
<1>1. ASSUME UNCHANGED <<inflight, txs>> PROVE NoUntrackedTransfer'
  BY <1>1 DEF NoUntrackedTransfer, InMempool
<1>2. ASSUME NEW b, Carries(b), Mined(b.txid), Finalize(b), UNCHANGED txs
      PROVE  NoUntrackedTransfer'
  <2>1. \A t \in InMempool : txs[t].batch # b.id
    BY <1>0, <1>2 DEF Carries, Mined, InMempool
  <2>. QED  BY <1>2, <2>1, SameTxsStay, TrackKeep DEF Finalize
<1>3. ASSUME NEW i, Abort(i), UNCHANGED txs, \A t \in InMempool : txs[t].batch # i
      PROVE  NoUntrackedTransfer'
  BY <1>3, SameTxsStay, TrackKeep DEF Abort
<1>4. ASSUME NEW i, NEW t \in 0..MaxTx, Attach(i, t), UNCHANGED txs
      PROVE  NoUntrackedTransfer'
  <2>1. \A o \in inflight : \E b \in inflight' : b.id = o.id
    BY <1>4, AttachFacts
  <2>. QED  BY <1>4, <2>1, SameTxsStay, TrackKeep
<1>5. ASSUME NEW r \in Runners, RunOnce(r) PROVE NoUntrackedTransfer'
  <2>1. CASE Quiet(r)
    <3>1. run[r].pc \in Chosen => run[r].batch.txid = 0
      BY DEF IdInv, RunInv
    <3>. QED  BY <1>1, <2>1, <3>1, QuietMoves
  <2>2. CASE SettleByBlock(r) \/ SettleByOutput(r)
    BY <1>2, <2>2, SettleFacts, SettledIsMined
  <2>3. CASE BeginBatch(r)
    <3>1. FreshId \in Nat
      BY FreshFacts DEF IdInv, RowInv
    <3>2. inflight \subseteq inflight' /\ txs' = txs
      BY <2>3, <3>1, BeginMoves DEF BeginBatch, nodeVars
    <3>. QED  BY <3>2, SameTxsStay, TrackKeep
  <2>4. CASE CreateBroadcasts(r) \/ Submit(r)
    <3>1. /\ run[r].pc \in Unsent /\ inflight' = inflight
          /\ \E outs \in Outs, a \in Answers : Broadcast(run[r].batch.id, outs) /\ Sent(r, a)
      BY <2>4, SendFacts
    <3>2. PICK outs \in Outs : Broadcast(run[r].batch.id, outs)
      BY <3>1
    <3>3. run[r].batch.id \in Nat /\ run[r].batch \in inflight
      BY <3>1, RunFields DEF TypeInv, IdInv, RunInv
    <3>4. /\ SameTxs /\ DOMAIN txs' = DOMAIN txs \cup {Len(txs) + 1}
          /\ txs'[Len(txs) + 1].batch = run[r].batch.id
      BY <3>2, <3>3, BroadcastFacts DEF Outs
    <3>. QED  BY <3>1, <3>3, <3>4, TrackKeep
  <2>5. CASE TransferFails(r) \/ AnswerLost(r)
    <3>1. run[r].pc \in Unsent /\ Abort(run[r].batch.id) /\ txs' = txs
      BY <2>5, FailFacts DEF Making
    <3>2. \A t \in InMempool : txs[t].batch # run[r].batch.id
      BY <3>1 DEF IdInv, RunInv, InMempool
    <3>. QED  BY <1>3, <3>1, <3>2
  <2>6. CASE AttachTxid(r)
    BY <1>4, <2>6, StampFacts, RunFields DEF TypeInv
  <2>. QED  BY <1>5, <2>1, <2>2, <2>3, <2>4, <2>5, <2>6, RunOnceSplit
<1>6. CASE Network
  BY <1>6, NetworkFacts, TrackKeep
<1>7. ASSUME NEW w \in Workers, Accrue(w) PROVE NoUntrackedTransfer'
  BY <1>1, <1>7 DEF Accrue, nodeVars
<1>8. CASE Crash
  BY <1>1, <1>8, CrashFacts
<1>9. CASE Operator
  <2>1. txs' = txs
    BY <1>9, OperatorFacts
  <2>2. CASE \E b \in inflight, t \in DOMAIN txs : Attach(b.id, t)
    <3>1. DOMAIN txs \subseteq 0..MaxTx
      BY TxsFacts, PayoutAssumption DEF TypeInv
    <3>. QED  BY <1>4, <2>1, <2>2, <3>1
  <2>3. CASE \E b \in inflight : (\A t \in DOMAIN txs : ~LiveTx(b, t)) /\ Abort(b.id)
    <3>1. PICK b \in inflight : (\A t \in DOMAIN txs : ~LiveTx(b, t)) /\ Abort(b.id)
      BY <2>3
    <3>2. \A t \in InMempool : txs[t].batch # b.id
      BY <3>1 DEF LiveTx, InMempool
    <3>. QED  BY <1>3, <2>1, <3>1, <3>2
  <2>4. CASE \E b \in inflight : b.txid # 0 /\ Mined(b.txid) /\ Finalize(b)
    BY <1>2, <2>1, <2>4 DEF IdInv, RowInv
  <2>5. CASE inflight' = inflight
    BY <1>1, <2>1, <2>5
  <2>. QED  BY <1>9, <2>2, <2>3, <2>4, <2>5, OperatorFacts
<1>10. CASE UNCHANGED vars
  BY <1>1, <1>10 DEF vars
<1>. QED  BY <1>5, <1>6, <1>7, <1>8, <1>9, <1>10 DEF Next

\* An unmined transaction always has its rows in payouts_in_flight, with any
\* number of ticks at work at once, on either rail, with old and new nodes and
\* whatever crashes around the broadcast; unless the answer to a call that did
\* broadcast is lost, where the code drops the rows.
THEOREM TransfersAreTracked ==
    ASSUME "lost" \notin Faults
    PROVE  Spec => []NoUntrackedTransfer
<1>1. Init => NoUntrackedTransfer
  BY DEF Init, NoUntrackedTransfer, InMempool
<1>2. TypeInv /\ IdInv /\ NoUntrackedTransfer /\ [Next]_vars => NoUntrackedTransfer'
  BY TrackStep
<1>. QED  BY <1>1, <1>2, BatchesAreOwned, PTL DEF Spec

-----------------------------------------------------------------------------
(* One tick at a time. *)

OneRunner == \A r, q \in Runners : r = q

Of(t, b) == txs[t].batch = b.id

\* A single runner finds no rows when it has chosen whom to pay, and its
\* batch among them while it settles; a node that broadcasts by itself is
\* only ever asked to pay one address.
LoneRun(r) ==
    /\ run[r].pc \in Chosen => inflight = {}
    /\ run[r].pc \in Looking => run[r].batch \in inflight
    /\ rail = "thunder" /\ ~oldNode =>
         /\ learned[r] # "unsigned" /\ run[r].pc \notin {"sign", "submit"}
         /\ run[r].pc = "attach" => run[r].answer = "bynode"
         /\ run[r].pc \in Chosen \cup {"create"} =>
               Cardinality({Address[w] : w \in DOMAIN run[r].batch.sats}) = 1

\* There is one batch at most, and its transaction pays what it says.
LoneInv ==
    /\ \A b, o \in inflight : b = o
    /\ \A r \in Runners : LoneRun(r)
    /\ \A b \in inflight, t \in DOMAIN txs : Of(t, b) => txs[t].outs = b.sats

\* The steps that leave rows, rail and node alone.
LEMMA LoneQuiet ==
    ASSUME TypeInv, IdInv, OneRunner, LoneInv, NEW r \in Runners, Quiet(r)
    PROVE  LoneInv'
<1>. USE DEF Chosen, Looking
<1>0. run \in [Runners -> Run] /\ \A q \in Runners : q = r
  BY DEF OneRunner, TypeInv
<1>1. run[r].pc \in Chosen => run[r].batch.txid = 0
  BY DEF IdInv, RunInv
<1>2. UNCHANGED <<inflight, rail, oldNode, txs>>
  BY <1>1, QuietMoves
<1>3. SUFFICES LoneRun(r)'
  BY <1>0, <1>2 DEF LoneInv, Of
<1>4. LoneRun(r)
  BY DEF LoneInv
<1>5. learned' = learned \/ (AttachFails(r) /\ Learn(r))
  BY DEF Quiet, Tick, NotInTip, Wait, WaitAndNudge, Select, SelectNothing,
         CheckMempool, ReserveShort, CreateUnsigned, Sign, AttachFails
<1>6. rail = "thunder" /\ ~oldNode => learned'[r] # "unsigned"
  <2>1. CASE learned' = learned
    BY <1>4, <2>1 DEF LoneRun
  <2>2. CASE AttachFails(r) /\ Learn(r)
    BY <1>4, <2>2 DEF LoneRun, AttachFails, Learn, TypeInv
  <2>. QED  BY <1>5, <2>1, <2>2
<1>7. CASE Stop(r)
  <2>1. run'[r].pc = "idle"
    BY <1>0, <1>7, Stopped DEF Moved
  <2>. QED  BY <1>2, <1>6, <2>1 DEF LoneRun
<1>8. CASE Tick(r)
  <2>1. CASE \E b \in inflight : Moved(r, "gettx", b, "none")
    BY <1>2, <1>6, <2>1 DEF LoneRun, Moved
  <2>2. CASE Moved(r, "select", run[r].batch, run[r].answer)
    BY <1>2, <1>6, <2>2 DEF LoneRun, Moved
  <2>. QED  BY <1>8, <2>1, <2>2, TickMoves
<1>9. CASE NotInTip(r)
  <2>1. run[r].pc = "gettx" /\ run'[r].pc = "utxos" /\ run'[r].batch = run[r].batch
    BY <1>9, NotInTipMoves DEF Moved
  <2>. QED  BY <1>2, <1>4, <1>6, <2>1 DEF LoneRun
<1>10. CASE Select(r)
  <2>1. PICK b \in Batch :
          /\ Moved(r, "mempool", b, run[r].answer)
          /\ \/ CanBatchAcrossAddresses(r)
             \/ Cardinality({Address[w] : w \in DOMAIN b.sats}) = 1
    BY <1>10, SelectMoves
  <2>2. inflight = {} /\ run'[r].pc = "mempool" /\ run'[r].batch = b
    BY <1>10, <2>1, SelectMoves DEF Moved
  <2>3. rail = "thunder" /\ ~oldNode => ~CanBatchAcrossAddresses(r)
    BY <1>4 DEF LoneRun, CanBatchAcrossAddresses
  <2>. QED  BY <1>2, <1>6, <2>1, <2>2, <2>3 DEF LoneRun
<1>11. CASE CheckMempool(r) /\ Step(r, "balance")
  <2>1. run[r].pc = "mempool" /\ run'[r].pc = "balance" /\ run'[r].batch = run[r].batch
    <3>1. "balance" \in Pcs
      BY DEF Pcs
    <3>. QED  BY <1>0, <1>11, <3>1, Stepped DEF Moved, CheckMempool
  <2>. QED  BY <1>2, <1>4, <1>6, <2>1 DEF LoneRun
<1>12. CASE CreateUnsigned(r) \/ Sign(r)
  <2>1. PICK p \in {"sign", "submit"} : Step(r, p)
    BY <1>12 DEF CreateUnsigned, Sign
  <2>2. p \in Pcs /\ ~(rail = "thunder" /\ ~oldNode)
    BY <1>4, <1>12 DEF CreateUnsigned, Sign, Pcs, LoneRun
  <2>3. run'[r].pc = p
    BY <1>0, <2>1, <2>2, Stepped DEF Moved
  <2>. QED  BY <1>2, <2>2, <2>3 DEF LoneRun
<1>. QED  BY <1>7, <1>8, <1>9, <1>10, <1>11, <1>12
     DEF Quiet, Wait, WaitAndNudge, SelectNothing, CheckMempool, ReserveShort, AttachFails

\* The rows go or are stamped while the runner is out of the way.
LEMMA LoneRows ==
    ASSUME LoneInv, IdInv', UNCHANGED <<txs, rail, oldNode>>,
           \A b \in inflight' : \E o \in inflight : b.id = o.id /\ b.sats = o.sats,
           \A r \in Runners :
              /\ run'[r].pc \in {"idle", "select"}
              /\ rail = "thunder" /\ ~oldNode => learned'[r] # "unsigned"
    PROVE  LoneInv'
<1>1. \A b, o \in inflight' : b = o
  BY DEF LoneInv, IdInv, RowInv
<1>2. \A r \in Runners : LoneRun(r)'
  BY DEF LoneRun, Chosen, Looking
<1>3. \A b \in inflight', t \in DOMAIN txs' : Of(t, b)' => txs'[t].outs = b.sats
  BY DEF LoneInv, Of
<1>. QED  BY <1>1, <1>2, <1>3 DEF LoneInv, Of

LEMMA LoneBegin ==
    ASSUME TypeInv, IdInv, OneRunner, LoneInv, NEW r \in Runners, BeginBatch(r)
    PROVE  LoneInv'
<1>0. \A q \in Runners : q = r
  BY DEF OneRunner
<1>1. FreshId \in Nat /\ \A t \in DOMAIN txs : txs[t].batch < FreshId
  BY FreshFacts DEF IdInv, RowInv
<1>2. PICK b : b = [id |-> FreshId, txid |-> run[r].batch.txid, sats |-> run[r].batch.sats]
  OBVIOUS
<1>3. /\ run[r].pc = "balance" /\ inflight' = inflight \cup {b}
      /\ Moved(r, "create", b, run[r].answer)
      /\ UNCHANGED <<txs, rail, oldNode, learned>>
  BY <1>1, <1>2, BeginMoves DEF BeginBatch, nodeVars
<1>4. inflight = {} /\ LoneRun(r)
  BY <1>3 DEF LoneInv, LoneRun, Chosen
<1>5. \A t \in DOMAIN txs : txs[t].batch # b.id
  <2>1. \A t \in DOMAIN txs : txs[t] \in Tx
    BY TxsFacts DEF TypeInv
  <2>. QED  BY <1>1, <1>2, <2>1 DEF Tx
<1>6. run'[r].pc = "create" /\ run'[r].batch = b /\ b.sats = run[r].batch.sats
  BY <1>2, <1>3 DEF Moved
<1>7. LoneRun(r)'
  BY <1>3, <1>4, <1>6 DEF LoneRun, Chosen, Looking
<1>. QED  BY <1>0, <1>3, <1>4, <1>5, <1>7 DEF LoneInv, Of

\* What is sent is what was meant.
LEMMA LoneSent ==
    ASSUME TypeInv, IdInv, OneRunner, LoneInv, NEW r \in Runners,
           CreateBroadcasts(r) \/ Submit(r)
    PROVE  \E a \in Answers :
              /\ Broadcast(run[r].batch.id, run[r].batch.sats) /\ Sent(r, a)
              /\ rail = "thunder" /\ ~oldNode => a = "bynode"
<1>1. run[r].pc \in Unsent /\ LoneRun(r)
  BY SendFacts DEF LoneInv
<1>2. PICK outs \in Outs, a \in Answers :
                /\ Broadcast(run[r].batch.id, outs) /\ Sent(r, a)
                /\ a # "unintended" => outs = run[r].batch.sats
                /\ a = "unintended" =>
                     /\ rail = "thunder" /\ ~oldNode /\ run[r].pc = "create"
                     /\ Cardinality({Address[w] : w \in DOMAIN run[r].batch.sats}) # 1
                /\ a \notin {"unintended", "bynode"} => rail = "btc" \/ run[r].pc = "submit"
  BY SendFacts
<1>3. a # "unintended"
  BY <1>1, <1>2 DEF LoneRun
<1>4. rail = "thunder" /\ ~oldNode => a = "bynode"
  BY <1>1, <1>2, <1>3 DEF LoneRun
<1>. QED  BY <1>2, <1>3, <1>4

LEMMA LoneSend ==
    ASSUME TypeInv, IdInv, OneRunner, LoneInv, NEW r \in Runners,
           CreateBroadcasts(r) \/ Submit(r)
    PROVE  LoneInv'
<1>0. \A q \in Runners : q = r
  BY DEF OneRunner
<1>1. run[r].pc \in Unsent /\ Len(txs) < MaxTx /\ UNCHANGED <<inflight, rail, oldNode, learned>>
  BY SendFacts
<1>2. PICK a \in Answers :
              /\ Broadcast(run[r].batch.id, run[r].batch.sats) /\ Sent(r, a)
              /\ rail = "thunder" /\ ~oldNode => a = "bynode"
  BY LoneSent
<1>3. run'[r].pc = "attach" /\ run'[r].answer = a
  BY <1>1, <1>2, SentMoves DEF Moved
<1>4. PICK n : n = Len(txs) + 1
  OBVIOUS
<1>5. run[r].batch.id \in Nat /\ run[r].batch.sats \in Sats
  BY RunFields DEF TypeInv
<1>6. /\ DOMAIN txs' = DOMAIN txs \cup {n}
      /\ \A t \in DOMAIN txs : txs'[t] = txs[t]
      /\ txs'[n].batch = run[r].batch.id /\ txs'[n].outs = run[r].batch.sats
  BY <1>2, <1>4, <1>5, BroadcastFacts
<1>7. run[r].batch \in inflight
  BY <1>1 DEF IdInv, RunInv
<1>8. \A b \in inflight', t \in DOMAIN txs' : txs'[t].batch = b.id => txs'[t].outs = b.sats
  BY <1>1, <1>6, <1>7 DEF LoneInv, Of
<1>9. LoneRun(r)'
  <2>1. LoneRun(r)
    BY DEF LoneInv
  <2>. QED  BY <1>1, <1>2, <1>3, <2>1 DEF LoneRun, Chosen, Looking
<1>. QED  BY <1>0, <1>1, <1>8, <1>9 DEF LoneInv, Of

LEMMA LoneStep ==
    ASSUME TypeInv, IdInv, OneRunner, "upgrade" \notin Faults, LoneInv, [Next]_vars
    PROVE  LoneInv'
<1>0. IdInv' /\ TypeInv'
  BY IdStep, TypeStep
<1>1. ASSUME NEW i, inflight' = {o \in inflight : o.id # i}
      PROVE  \A b \in inflight' : \E o \in inflight : b.id = o.id /\ b.sats = o.sats
  BY <1>1
<1>2. ASSUME NEW r \in Runners PROVE
        /\ rail = "thunder" /\ ~oldNode => learned[r] # "unsigned"
        /\ \A q \in Runners : q = r
  BY DEF LoneInv, LoneRun, OneRunner
<1>3. ASSUME NEW r \in Runners, RunOnce(r) PROVE LoneInv'
  <2>1. CASE SettleByBlock(r) \/ SettleByOutput(r)
    <3>1. /\ inflight' = {o \in inflight : o.id # run[r].batch.id}
          /\ run'[r].pc = "select" /\ UNCHANGED <<txs, rail, oldNode, learned>>
      BY <2>1, SettleFacts DEF Finalize, Moved
    <3>. QED  BY <1>0, <1>1, <1>2, <3>1, LoneRows
  <2>2. CASE TransferFails(r) \/ AnswerLost(r)
    <3>1. /\ inflight' = {o \in inflight : o.id # run[r].batch.id}
          /\ run'[r].pc = "idle" /\ UNCHANGED <<txs, rail, oldNode, learned>>
      BY <2>2, FailFacts DEF Abort, Moved
    <3>. QED  BY <1>0, <1>1, <1>2, <3>1, LoneRows
  <2>3. CASE AttachTxid(r)
    <3>1. /\ run[r].pc = "attach" /\ Attach(run[r].batch.id, run[r].batch.txid)
          /\ run'[r].pc = "idle" /\ UNCHANGED <<txs, rail, oldNode>> /\ Learn(r)
      BY <2>3, StampFacts DEF Moved
    <3>2. \A b \in inflight' : \E o \in inflight : b.id = o.id /\ b.sats = o.sats
      BY <3>1, RunFields, AttachFacts DEF TypeInv
    <3>3. rail = "thunder" /\ ~oldNode => learned'[r] # "unsigned"
      BY <3>1 DEF LoneInv, LoneRun, Learn, TypeInv
    <3>. QED  BY <1>0, <1>2, <3>1, <3>2, <3>3, LoneRows
  <2>. QED  BY <1>3, <2>1, <2>2, <2>3, RunOnceSplit, LoneQuiet, LoneBegin, LoneSend
<1>4. CASE Network
  <2>1. UNCHANGED <<inflight, run, learned, rail, oldNode>> /\ SameTxs /\ DOMAIN txs' = DOMAIN txs
    BY <1>4, NetworkFacts
  <2>2. \A r \in Runners : LoneRun(r)'
    BY <2>1 DEF LoneInv, LoneRun
  <2>3. \A b \in inflight', t \in DOMAIN txs' : txs'[t].batch = b.id => txs'[t].outs = b.sats
    BY <2>1 DEF LoneInv, Of, SameTxs
  <2>. QED  BY <2>1, <2>2, <2>3 DEF LoneInv, Of
<1>5. ASSUME UNCHANGED <<inflight, run, learned, rail, oldNode, txs>> PROVE LoneInv'
  BY <1>5 DEF LoneInv, LoneRun, Of
<1>6. ASSUME NEW w \in Workers, Accrue(w) PROVE LoneInv'
  BY <1>5, <1>6 DEF Accrue, nodeVars
<1>7. CASE Crash
  <2>1. /\ \A r \in Runners : run'[r].pc = "idle" /\ learned'[r] = "unknown"
        /\ UNCHANGED <<inflight, rail, oldNode, txs>>
    BY <1>7, CrashFacts, IdleFacts
  <2>. QED  BY <1>0, <2>1, LoneRows
<1>8. CASE Operator
  <2>1. /\ \A r \in Runners : run'[r].pc = "idle"
        /\ UNCHANGED <<run, learned, rail, oldNode, txs>>
    BY <1>8, OperatorFacts
  <2>2. \A b \in inflight' : \E o \in inflight : b.id = o.id /\ b.sats = o.sats
    <3>1. CASE \E b \in inflight, t \in DOMAIN txs : Attach(b.id, t)
      <4>1. DOMAIN txs \subseteq 0..MaxTx
        BY TxsFacts, PayoutAssumption DEF TypeInv
      <4>2. PICK b \in inflight, t \in DOMAIN txs : Attach(b.id, t)
        BY <3>1
      <4>. QED  BY <4>1, <4>2, AttachFacts
    <3>2. CASE \E b \in inflight : Abort(b.id) \/ Finalize(b)
      BY <1>1, <3>2 DEF Abort, Finalize
    <3>3. CASE inflight' = inflight
      BY <3>3
    <3>. QED  BY <1>8, <3>1, <3>2, <3>3, OperatorFacts
  <2>. QED  BY <1>0, <1>2, <2>1, <2>2, LoneRows
<1>9. CASE UNCHANGED vars
  BY <1>5, <1>9 DEF vars
<1>. QED  BY <1>3, <1>4, <1>6, <1>7, <1>8, <1>9 DEF Next

LEMMA LoneInit == Init => LoneInv
<1>. SUFFICES ASSUME Init PROVE LoneInv
  OBVIOUS
<1>1. inflight = {} /\ \A r \in Runners : run[r].pc = "idle" /\ learned[r] = "unknown"
  BY IdleFacts DEF Init
<1>. QED  BY <1>1 DEF LoneInv, LoneRun, Chosen, Looking

-----------------------------------------------------------------------------
(* What is credited has arrived. *)

\* A mined batch has arrived on top of what is credited.
CoverInv ==
    /\ PaidIsReceived
    /\ \A b \in inflight, t \in DOMAIN txs : Of(t, b) /\ Mined(t) =>
          \A w \in DOMAIN b.sats : paid[w] + b.sats[w] <= received[w]

\* Rows without credit: nothing new is mined.
LEMMA CoverRows ==
    ASSUME CoverInv, UNCHANGED <<paid, received>>,
           \A b \in inflight', t \in DOMAIN txs' : txs'[t].batch = b.id /\ Mined(t)' =>
              \E o \in inflight : o.sats = b.sats /\ t \in DOMAIN txs /\ Of(t, o) /\ Mined(t)
    PROVE  CoverInv'
<1>1. PaidIsReceived'
  BY DEF CoverInv, PaidIsReceived
<1>2. ASSUME NEW b \in inflight', NEW t \in DOMAIN txs', txs'[t].batch = b.id, Mined(t)',
             NEW w \in DOMAIN b.sats
      PROVE  paid'[w] + b.sats[w] <= received'[w]
  BY <1>2 DEF CoverInv
<1>. QED  BY <1>1, <1>2 DEF CoverInv, Of

\* A batch whose transaction was mined is credited.
LEMMA CoverFinal ==
    ASSUME TypeInv, LoneInv, CoverInv, NEW b \in inflight, Carries(b), Mined(b.txid),
           Finalize(b), UNCHANGED <<txs, received>>
    PROVE  CoverInv' /\ inflight' = {}
<1>1. inflight' = {}
  BY DEF LoneInv, Finalize
<1>2. b \in Batch /\ b.sats \in Sats
  BY DEF TypeInv, Batch
<1>3. \A w \in Workers : paid'[w] = IF w \in DOMAIN b.sats THEN paid[w] + b.sats[w] ELSE paid[w]
  BY <1>2, CreditFacts DEF Finalize
<1>4. \A w \in DOMAIN b.sats : paid[w] + b.sats[w] <= received[w]
  BY DEF CoverInv, Carries, Of
<1>5. \A w \in Workers : paid'[w] <= received'[w]
  BY <1>3, <1>4 DEF CoverInv, PaidIsReceived
<1>. QED  BY <1>1, <1>5 DEF CoverInv, PaidIsReceived

\* A block brings what its transactions pay.
LEMMA CoverConnect ==
    ASSUME TypeInv, LoneInv, CoverInv, NEW body \in SUBSET InMempool, Connect(body),
           UNCHANGED <<inflight, paid>>
    PROVE  CoverInv'
<1>1. /\ SameTxs /\ DOMAIN txs' = DOMAIN txs
      /\ \A t \in DOMAIN txs : Mined(t)' <=> Mined(t) \/ t \in body
  BY ConnectFacts
<1>2. /\ \A w \in Workers : received[w] <= received'[w] /\ received'[w] \in Nat
      /\ \A w \in Workers, t \in body : received[w] + Pays(t, w) <= received'[w]
  BY ConnectPays
<1>3. \A w \in Workers : paid[w] \in Nat /\ received[w] \in Nat /\ paid[w] <= received[w]
  BY DEF TypeInv, CoverInv, PaidIsReceived
<1>4. PaidIsReceived'
  <2>1. ASSUME NEW w \in Workers PROVE paid'[w] <= received'[w]
    <3>1. paid'[w] = paid[w]
      OBVIOUS
    <3>2. /\ paid[w] \in Nat /\ received[w] \in Nat /\ received'[w] \in Nat
          /\ paid[w] <= received[w] /\ received[w] <= received'[w]
      BY <1>2, <1>3
    <3>. QED  BY ONLY <3>1, <3>2
  <2>. QED  BY <2>1 DEF PaidIsReceived
<1>5. ASSUME NEW b \in inflight, NEW t \in DOMAIN txs, txs'[t].batch = b.id, Mined(t)',
             NEW w \in DOMAIN b.sats
      PROVE  paid'[w] + b.sats[w] <= received'[w]
  <2>1. txs[t].batch = b.id /\ (Mined(t) \/ t \in body)
    BY <1>1, <1>5 DEF SameTxs
  <2>2. b.sats \in Sats /\ w \in Workers /\ b.sats[w] \in Nat
    <3>1. b.sats \in Sats
      BY DEF TypeInv, Batch
    <3>. QED  BY <3>1, SatsFacts
  <2>3. /\ paid[w] \in Nat /\ received[w] \in Nat /\ received'[w] \in Nat
        /\ paid[w] <= received[w] /\ received[w] <= received'[w]
    BY <1>2, <1>3, <2>2
  <2>4. CASE Mined(t)
    <3>1. paid[w] + b.sats[w] <= received[w]
      BY <2>1, <2>4 DEF CoverInv, Of
    <3>. QED  BY <2>2, <2>3, <3>1
  <2>5. CASE t \in body
    <3>1. Pays(t, w) = b.sats[w]
      BY <2>1 DEF LoneInv, Of, Pays
    <3>2. received[w] + b.sats[w] <= received'[w]
      BY <1>2, <2>2, <2>5, <3>1
    <3>. QED  BY <2>2, <2>3, <3>2
  <2>. QED  BY <2>1, <2>4, <2>5
<1>. QED  BY <1>1, <1>4, <1>5 DEF CoverInv, Of

LEMMA CoverStep ==
    ASSUME TypeInv, IdInv, OneRunner, LoneInv, CoverInv, [Next]_vars
    PROVE  CoverInv'
<1>0. txs' = txs => \A t : Mined(t)' <=> Mined(t)
  BY DEF Mined
<1>1. ASSUME UNCHANGED <<inflight, txs, paid, received>> PROVE CoverInv'
  BY <1>0, <1>1, CoverRows DEF Of
<1>2. ASSUME NEW i, inflight' = {o \in inflight : o.id # i}, UNCHANGED <<txs, paid, received>>
      PROVE  CoverInv'
  BY <1>0, <1>2, CoverRows DEF Of
<1>3. ASSUME NEW i, NEW t \in 0..MaxTx, Attach(i, t), UNCHANGED <<txs, paid, received>>
      PROVE  CoverInv'
  <2>1. \A b \in inflight' : \E o \in inflight : b.id = o.id /\ b.sats = o.sats
    BY <1>3, AttachFacts
  <2>. QED  BY <1>0, <1>3, <2>1, CoverRows DEF Of
<1>4. ASSUME NEW r \in Runners, RunOnce(r) PROVE CoverInv'
  <2>1. CASE Quiet(r)
    <3>1. run[r].pc \in Chosen => run[r].batch.txid = 0
      BY DEF IdInv, RunInv
    <3>. QED  BY <1>1, <2>1, <3>1, QuietMoves
  <2>2. CASE SettleByBlock(r) \/ SettleByOutput(r)
    <3>1. /\ run[r].batch \in inflight /\ Finalize(run[r].batch) /\ UNCHANGED <<txs, received>>
      BY <2>2, SettleFacts DEF LoneInv, LoneRun
    <3>2. Carries(run[r].batch) /\ Mined(run[r].batch.txid)
      BY <2>2, SettledIsMined
    <3>. QED  BY <3>1, <3>2, CoverFinal
  <2>3. CASE BeginBatch(r)
    <3>1. FreshId \in Nat /\ \A t \in DOMAIN txs : txs[t].batch < FreshId
      BY FreshFacts DEF IdInv, RowInv
    <3>2. PICK b : b = [id |-> FreshId, txid |-> run[r].batch.txid, sats |-> run[r].batch.sats]
      OBVIOUS
    <3>3. inflight' = inflight \cup {b} /\ UNCHANGED <<txs, paid, received>>
      BY <2>3, <3>1, <3>2, BeginMoves DEF BeginBatch, nodeVars
    <3>4. \A t \in DOMAIN txs : txs[t].batch # b.id
      <4>1. \A t \in DOMAIN txs : txs[t] \in Tx
        BY TxsFacts DEF TypeInv
      <4>. QED  BY <3>1, <3>2, <4>1 DEF Tx
    <3>. QED  BY <1>0, <3>3, <3>4, CoverRows DEF Of
  <2>4. CASE CreateBroadcasts(r) \/ Submit(r)
    <3>1. /\ UNCHANGED <<inflight, paid, received>>
          /\ \E outs \in Outs, a \in Answers : Broadcast(run[r].batch.id, outs)
      BY <2>4, SendFacts
    <3>2. PICK outs \in Outs : Broadcast(run[r].batch.id, outs)
      BY <3>1
    <3>3. run[r].batch.id \in Nat
      BY RunFields DEF TypeInv
    <3>4. /\ DOMAIN txs' = DOMAIN txs \cup {Len(txs) + 1}
          /\ \A t \in DOMAIN txs : txs'[t] = txs[t]
          /\ txs'[Len(txs) + 1].state = "mempool"
      BY <3>2, <3>3, BroadcastFacts DEF Outs
    <3>5. \A t \in DOMAIN txs' : Mined(t)' => t \in DOMAIN txs /\ txs'[t] = txs[t] /\ Mined(t)
      BY <3>4 DEF Mined
    <3>. QED  BY <3>1, <3>5, CoverRows DEF Of
  <2>5. CASE TransferFails(r) \/ AnswerLost(r)
    BY <1>2, <2>5, FailFacts DEF Abort
  <2>6. CASE AttachTxid(r)
    BY <1>3, <2>6, StampFacts, RunFields DEF TypeInv
  <2>. QED  BY <1>4, <2>1, <2>2, <2>3, <2>4, <2>5, <2>6, RunOnceSplit
<1>5. CASE Network
  <2>1. UNCHANGED <<inflight, paid>> /\ SameTxs /\ DOMAIN txs' = DOMAIN txs
    BY <1>5, NetworkFacts
  <2>2. CASE received' = received /\ \A t \in DOMAIN txs : Mined(t)' <=> Mined(t)
    BY <2>1, <2>2, CoverRows DEF Of, SameTxs
  <2>3. CASE \E body \in SUBSET InMempool : Connect(body)
    BY <2>1, <2>3, CoverConnect
  <2>. QED  BY <1>5, <2>2, <2>3, NetworkFacts
<1>6. ASSUME NEW w \in Workers, Accrue(w) PROVE CoverInv'
  BY <1>1, <1>6 DEF Accrue, nodeVars
<1>7. CASE Crash
  BY <1>1, <1>7, CrashFacts
<1>8. CASE Operator
  <2>1. UNCHANGED <<txs, received>>
    BY <1>8, OperatorFacts
  <2>2. CASE \E b \in inflight, t \in DOMAIN txs : Attach(b.id, t) /\ paid' = paid
    <3>1. DOMAIN txs \subseteq 0..MaxTx
      BY TxsFacts, PayoutAssumption DEF TypeInv
    <3>. QED  BY <1>3, <2>1, <2>2, <3>1
  <2>3. CASE \E b \in inflight : Abort(b.id) /\ paid' = paid
    BY <1>2, <2>1, <2>3 DEF Abort
  <2>4. CASE \E b \in inflight : b.txid # 0 /\ Mined(b.txid) /\ Finalize(b)
    BY <2>1, <2>4, CoverFinal DEF IdInv, RowInv
  <2>5. CASE inflight' = inflight /\ paid' = paid
    BY <1>1, <2>1, <2>5
  <2>. QED  BY <1>8, <2>2, <2>3, <2>4, <2>5, OperatorFacts
<1>9. CASE UNCHANGED vars
  BY <1>1, <1>9 DEF vars
<1>. QED  BY <1>4, <1>5, <1>6, <1>7, <1>8, <1>9 DEF Next

\* "paid therefore means settled": with one tick at a time nobody is credited
\* more than blocks have brought him, on either rail, with an old or a new
\* node, and with any fault but a node that is upgraded under a running worker.
THEOREM CreditMeansArrived ==
    ASSUME OneRunner, "upgrade" \notin Faults
    PROVE  Spec => []PaidIsReceived
<1>1. Init => LoneInv /\ CoverInv
  <2>1. Init => CoverInv
    BY DEF Init, CoverInv, PaidIsReceived
  <2>. QED  BY <2>1, LoneInit
<1>2. TypeInv /\ IdInv /\ LoneInv /\ CoverInv /\ [Next]_vars => (LoneInv /\ CoverInv)'
  BY LoneStep, CoverStep
<1>3. LoneInv /\ CoverInv => PaidIsReceived
  BY DEF CoverInv
<1>. QED  BY <1>1, <1>2, <1>3, BatchesAreOwned, PTL DEF Spec

-----------------------------------------------------------------------------
(* Nobody is paid twice. *)

\* Credit and what is to be credited stay below what was earned.
OwedInv ==
    /\ \A w \in Workers : paid[w] <= accrued[w]
    /\ \A b \in inflight : \A w \in DOMAIN b.sats : paid[w] + b.sats[w] <= accrued[w]
    /\ \A r \in Runners : run[r].pc \in Chosen =>
          \A w \in DOMAIN run[r].batch.sats : paid[w] + run[r].batch.sats[w] <= accrued[w]

\* No transaction of a batch in flight was mined.
NoneMined == \A b \in inflight, t \in DOMAIN txs : Of(t, b) => ~Mined(t)

\* What arrived is what was credited, and the batch in flight if it was mined.
ExactInv ==
    /\ \A b \in inflight, t \in DOMAIN txs : Of(t, b) /\ Mined(t) =>
          \A w \in Workers : received[w] = paid[w] + Pays(t, w)
    /\ NoneMined => received = paid

\* Credit, with the rows gone.
LEMMA OwedFinal ==
    ASSUME TypeInv, LoneInv, OwedInv, NEW b \in inflight, Finalize(b), accrued' = accrued,
           \A r \in Runners : run'[r].pc \notin Chosen
    PROVE  OwedInv'
<1>1. inflight' = {} /\ b \in Batch
  BY DEF LoneInv, Finalize, TypeInv
<1>2. \A w \in Workers : paid'[w] = IF w \in DOMAIN b.sats THEN paid[w] + b.sats[w] ELSE paid[w]
  BY <1>1, CreditFacts DEF Finalize
<1>3. \A w \in Workers : paid'[w] <= accrued'[w]
  BY <1>2 DEF OwedInv
<1>. QED  BY <1>1, <1>3 DEF OwedInv

\* The rows go or are stamped, and nothing is credited.
LEMMA OwedRows ==
    ASSUME OwedInv, UNCHANGED <<accrued, paid>>,
           \A b \in inflight' : \E o \in inflight : b.sats = o.sats,
           \A r \in Runners : \/ run'[r].pc \notin Chosen
                              \/ run[r].pc \in Chosen /\ run'[r].batch = run[r].batch
    PROVE  OwedInv'
<1>1. ASSUME NEW b \in inflight', NEW w \in DOMAIN b.sats PROVE paid'[w] + b.sats[w] <= accrued'[w]
  BY DEF OwedInv
<1>2. ASSUME NEW r \in Runners, run'[r].pc \in Chosen, NEW w \in DOMAIN run'[r].batch.sats
      PROVE  paid'[w] + run'[r].batch.sats[w] <= accrued'[w]
  <2>1. run[r].pc \in Chosen /\ run'[r].batch = run[r].batch
    BY <1>2
  <2>. QED  BY <1>2, <2>1 DEF OwedInv
<1>3. \A w \in Workers : paid'[w] <= accrued'[w]
  BY DEF OwedInv
<1>. QED  BY <1>1, <1>2, <1>3 DEF OwedInv

LEMMA OwedStep ==
    ASSUME TypeInv, IdInv, OneRunner, LoneInv, OwedInv, [Next]_vars
    PROVE  OwedInv'
<1>0. "idle" \notin Chosen /\ "select" \notin Chosen /\ "create" \notin Chosen /\ "attach" \notin Chosen
      /\ "gettx" \notin Chosen /\ "utxos" \notin Chosen
  BY DEF Chosen
<1>1. ASSUME NEW r \in Runners PROVE \A q \in Runners : q = r
  BY DEF OneRunner
<1>2. ASSUME NEW i, inflight' = {o \in inflight : o.id # i}
      PROVE  \A b \in inflight' : \E o \in inflight : b.sats = o.sats
  BY <1>2
<1>3. ASSUME NEW i, NEW t \in 0..MaxTx, Attach(i, t)
      PROVE  \A b \in inflight' : \E o \in inflight : b.sats = o.sats
  BY <1>3, AttachFacts
<1>4. ASSUME NEW r \in Runners, RunOnce(r) PROVE OwedInv'
  <2>1. CASE Quiet(r)
    <3>1. run[r].pc \in Chosen => run[r].batch.txid = 0
      BY DEF IdInv, RunInv
    <3>2. UNCHANGED <<accrued, paid, inflight>> /\ QuietMove(r)
      BY <2>1, <3>1, QuietMoves
    <3>3. CASE Select(r)
      <4>1. PICK b \in Batch :
                /\ Moved(r, "mempool", b, run[r].answer)
                /\ \A w \in DOMAIN b.sats : b.sats[w] = accrued[w] - paid[w]
        BY <3>3, SelectMoves
      <4>2. run'[r].batch = b
        BY <4>1 DEF Moved
      <4>3. ASSUME NEW w \in DOMAIN b.sats PROVE paid[w] + b.sats[w] <= accrued[w]
        <5>1. w \in Workers
          BY SatsFacts DEF Batch
        <5>2. accrued[w] \in Nat /\ paid[w] \in Nat
          BY <5>1, PayoutAssumption DEF TypeInv
        <5>. QED  BY <4>1, <5>2
      <4>. QED  BY <1>1, <3>2, <4>2, <4>3 DEF OwedInv
    <3>4. CASE ~Select(r)
      <4>1. run'[r].pc \notin Chosen \/ (run[r].pc \in Chosen /\ run'[r].batch = run[r].batch)
        <5>0. run \in [Runners -> Run] /\ "balance" \in Pcs /\ "sign" \in Pcs /\ "submit" \in Pcs
          BY DEF TypeInv, Pcs
        <5>1. CASE Stop(r)
          BY <1>0, <5>0, <5>1, Stopped DEF Moved
        <5>2. CASE Tick(r)
          BY <1>0, <5>2, TickMoves DEF Moved
        <5>3. CASE NotInTip(r)
          BY <1>0, <5>3, NotInTipMoves DEF Moved
        <5>4. CASE CheckMempool(r) /\ Step(r, "balance")
          BY <5>0, <5>4, Stepped DEF Moved, CheckMempool, Chosen
        <5>5. CASE CreateUnsigned(r) \/ Sign(r)
          <6>1. Step(r, "sign") \/ Step(r, "submit")
            BY <5>5 DEF CreateUnsigned, Sign
          <6>2. run'[r].pc \in {"sign", "submit"}
            BY <5>0, <6>1, Stepped DEF Moved
          <6>. QED  BY <6>2 DEF Chosen
        <5>. QED  BY <2>1, <3>4, <5>1, <5>2, <5>3, <5>4, <5>5
             DEF Quiet, Wait, WaitAndNudge, SelectNothing, CheckMempool, ReserveShort, AttachFails
      <4>. QED  BY <1>1, <3>2, <4>1, OwedRows
    <3>. QED  BY <3>3, <3>4
  <2>2. CASE SettleByBlock(r) \/ SettleByOutput(r)
    <3>1. /\ run[r].batch \in inflight /\ Finalize(run[r].batch) /\ accrued' = accrued
          /\ run'[r].pc = "select"
      BY <2>2, SettleFacts DEF LoneInv, LoneRun, Moved
    <3>. QED  BY <1>0, <1>1, <3>1, OwedFinal
  <2>3. CASE BeginBatch(r)
    <3>1. FreshId \in Nat
      BY FreshFacts DEF IdInv, RowInv
    <3>2. PICK b : b = [id |-> FreshId, txid |-> run[r].batch.txid, sats |-> run[r].batch.sats]
      OBVIOUS
    <3>3. /\ inflight' = inflight \cup {b} /\ UNCHANGED <<paid, accrued>>
          /\ run[r].pc = "balance" /\ run'[r].pc = "create" /\ b.sats = run[r].batch.sats
      BY <2>3, <3>1, <3>2, BeginMoves DEF BeginBatch, Moved
    <3>4. \A w \in DOMAIN b.sats : paid[w] + b.sats[w] <= accrued[w]
      BY <3>3 DEF OwedInv, Chosen
    <3>. QED  BY <1>0, <1>1, <3>3, <3>4 DEF OwedInv
  <2>4. CASE CreateBroadcasts(r) \/ Submit(r)
    <3>1. /\ UNCHANGED <<inflight, paid, accrued>> /\ run'[r].pc = "attach"
      BY <2>4, SendFacts, SentMoves DEF Moved
    <3>. QED  BY <1>0, <1>1, <3>1, OwedRows
  <2>5. CASE TransferFails(r) \/ AnswerLost(r)
    <3>1. /\ inflight' = {o \in inflight : o.id # run[r].batch.id}
          /\ run'[r].pc = "idle" /\ UNCHANGED <<accrued, paid>>
      BY <2>5, FailFacts DEF Abort, Moved
    <3>. QED  BY <1>0, <1>1, <1>2, <3>1, OwedRows
  <2>6. CASE AttachTxid(r)
    <3>1. /\ Attach(run[r].batch.id, run[r].batch.txid)
          /\ run'[r].pc = "idle" /\ UNCHANGED <<accrued, paid>>
      BY <2>6, StampFacts DEF Moved
    <3>2. run[r].batch.txid \in 0..MaxTx
      BY RunFields DEF TypeInv
    <3>. QED  BY <1>0, <1>1, <1>3, <3>1, <3>2, OwedRows
  <2>. QED  BY <1>4, <2>1, <2>2, <2>3, <2>4, <2>5, <2>6, RunOnceSplit
<1>5. ASSUME UNCHANGED <<inflight, accrued, paid, run>> PROVE OwedInv'
  BY <1>5 DEF OwedInv
<1>6. CASE Network
  BY <1>5, <1>6, NetworkFacts
<1>7. ASSUME NEW w \in Workers, Accrue(w) PROVE OwedInv'
  <2>1. /\ accrued' = [accrued EXCEPT ![w] = accrued[w] + 1]
        /\ UNCHANGED <<paid, inflight, run>>
    BY <1>7 DEF Accrue
  <2>2. \A v \in Workers : accrued[v] \in Nat /\ accrued'[v] \in Nat /\ accrued[v] <= accrued'[v]
                           /\ paid[v] \in Nat
    BY <2>1, PayoutAssumption DEF TypeInv
  <2>3. \A v \in Workers : paid'[v] <= accrued'[v]
    BY <2>1, <2>2 DEF OwedInv
  <2>4. ASSUME NEW s \in Sats, \A v \in DOMAIN s : paid[v] + s[v] <= accrued[v]
        PROVE  \A v \in DOMAIN s : paid'[v] + s[v] <= accrued'[v]
    BY <2>1, <2>2, <2>4, SatsFacts
  <2>5. \A b \in inflight : \A v \in DOMAIN b.sats : paid'[v] + b.sats[v] <= accrued'[v]
    <3>1. \A b \in inflight : b.sats \in Sats
      BY DEF TypeInv, Batch
    <3>. QED  BY <2>4, <3>1 DEF OwedInv
  <2>6. \A r \in Runners : run[r].pc \in Chosen =>
          \A v \in DOMAIN run[r].batch.sats : paid'[v] + run[r].batch.sats[v] <= accrued'[v]
    <3>1. \A r \in Runners : run[r].batch.sats \in Sats
      BY RunFields DEF TypeInv
    <3>. QED  BY <2>4, <3>1 DEF OwedInv
  <2>. QED  BY <2>1, <2>3, <2>5, <2>6 DEF OwedInv
<1>8. CASE Crash
  <2>1. /\ \A r \in Runners : run'[r].pc = "idle"
        /\ UNCHANGED <<inflight, accrued, paid>>
    BY <1>8, CrashFacts, IdleFacts
  <2>. QED  BY <1>0, <2>1, OwedRows
<1>9. CASE Operator
  <2>1. (\A r \in Runners : run'[r].pc = "idle") /\ accrued' = accrued
    BY <1>9, OperatorFacts
  <2>2. CASE \E b \in inflight, t \in DOMAIN txs : Attach(b.id, t) /\ paid' = paid
    <3>1. DOMAIN txs \subseteq 0..MaxTx
      BY TxsFacts, PayoutAssumption DEF TypeInv
    <3>. QED  BY <1>0, <1>3, <2>1, <2>2, <3>1, OwedRows
  <2>3. CASE \E b \in inflight : Abort(b.id) /\ paid' = paid
    BY <1>0, <1>2, <2>1, <2>3, OwedRows DEF Abort
  <2>4. CASE \E b \in inflight : Finalize(b)
    BY <1>0, <2>1, <2>4, OwedFinal
  <2>5. CASE inflight' = inflight /\ paid' = paid
    BY <1>0, <2>1, <2>5, OwedRows
  <2>. QED  BY <1>9, <2>2, <2>3, <2>4, <2>5, OperatorFacts
<1>10. CASE UNCHANGED vars
  BY <1>5, <1>10 DEF vars
<1>. QED  BY <1>4, <1>6, <1>7, <1>8, <1>9, <1>10 DEF Next
\* Rows come, go or are stamped without credit; those with a mined transaction stay.
LEMMA ExactRows ==
    ASSUME ExactInv, UNCHANGED <<paid, received>>,
           \A b \in inflight', t \in DOMAIN txs' : txs'[t].batch = b.id /\ Mined(t)' =>
              /\ t \in DOMAIN txs /\ txs'[t].outs = txs[t].outs
              /\ Mined(t) /\ \E o \in inflight : Of(t, o),
           \A o \in inflight, t \in DOMAIN txs : Of(t, o) /\ Mined(t) =>
              /\ t \in DOMAIN txs' /\ Mined(t)'
              /\ \E b \in inflight' : txs'[t].batch = b.id
    PROVE  ExactInv'
<1>1. ASSUME NEW b \in inflight', NEW t \in DOMAIN txs', txs'[t].batch = b.id, Mined(t)',
             NEW w \in Workers
      PROVE  received'[w] = paid'[w] + Pays(t, w)'
  <2>1. t \in DOMAIN txs /\ Mined(t) /\ Pays(t, w)' = Pays(t, w)
    BY <1>1 DEF Pays
  <2>2. \E o \in inflight : Of(t, o)
    BY <1>1
  <2>3. received[w] = paid[w] + Pays(t, w)
    BY <2>1, <2>2 DEF ExactInv
  <2>. QED  BY <2>1, <2>3
<1>2. NoneMined' => NoneMined
  BY DEF NoneMined, Of
<1>. QED  BY <1>1, <1>2 DEF ExactInv, Of

\* Credit makes up for what had arrived.
LEMMA ExactFinal ==
    ASSUME TypeInv, LoneInv, ExactInv, NEW b \in inflight, Carries(b), Mined(b.txid),
           Finalize(b), received' = received
    PROVE  ExactInv'
<1>1. inflight' = {}
  BY DEF LoneInv, Finalize
<1>2. b \in Batch /\ paid' \in [Workers -> Nat]
      /\ \A w \in Workers : paid'[w] = IF w \in DOMAIN b.sats THEN paid[w] + b.sats[w] ELSE paid[w]
  BY CreditFacts DEF Finalize, TypeInv
<1>3. b.txid \in DOMAIN txs /\ Of(b.txid, b) /\ txs[b.txid].outs = b.sats
  BY DEF LoneInv, Carries, Of
<1>4. ASSUME NEW w \in Workers PROVE received[w] = paid'[w]
  <2>1. received[w] = paid[w] + Pays(b.txid, w) /\ paid[w] \in Nat
    BY <1>3 DEF ExactInv, TypeInv
  <2>2. Pays(b.txid, w) = IF w \in DOMAIN b.sats THEN b.sats[w] ELSE 0
    BY <1>3 DEF Pays
  <2>. QED  BY <1>2, <2>1, <2>2
<1>5. received' = paid'
  <2>1. received \in [Workers -> Nat]
    BY DEF TypeInv
  <2>. QED  BY <1>2, <1>4, <2>1
<1>. QED  BY <1>1, <1>5 DEF ExactInv

\* There is one transaction at most in the mempool.
LEMMA OneInMempool ==
    ASSUME IdInv, LoneInv, NoUntrackedTransfer, NEW t \in InMempool
    PROVE  /\ InMempool = {t} /\ t \in DOMAIN txs /\ ~Mined(t)
           /\ \E b \in inflight : Of(t, b) /\ inflight = {b}
           /\ NoneMined
<1>1. t \in DOMAIN txs /\ ~Mined(t)
  BY DEF InMempool, Mined
<1>2. PICK b \in inflight : b.id = txs[t].batch
  BY DEF NoUntrackedTransfer
<1>3. inflight = {b}
  BY <1>2 DEF LoneInv
<1>4. ASSUME NEW u \in DOMAIN txs, txs[u].batch = b.id PROVE u = t
  BY <1>1, <1>2, <1>4 DEF IdInv, RowInv
<1>5. ASSUME NEW u \in InMempool PROVE u = t
  <2>1. u \in DOMAIN txs
    BY DEF InMempool
  <2>2. PICK o \in inflight : o.id = txs[u].batch
    BY DEF NoUntrackedTransfer
  <2>. QED  BY <1>3, <1>4, <2>1, <2>2
<1>6. NoneMined
  BY <1>1, <1>3, <1>4 DEF NoneMined, Of
<1>. QED  BY <1>1, <1>2, <1>3, <1>5, <1>6 DEF Of

\* A block brings the batch in flight, or nothing.
LEMMA ExactConnect ==
    ASSUME TypeInv, IdInv, LoneInv, NoUntrackedTransfer, ExactInv,
           NEW body \in SUBSET InMempool, Connect(body), UNCHANGED <<inflight, paid>>
    PROVE  ExactInv'
<1>1. /\ DOMAIN txs' = DOMAIN txs
      /\ \A t \in DOMAIN txs : txs'[t].batch = txs[t].batch /\ txs'[t].outs = txs[t].outs
      /\ \A t \in DOMAIN txs : Mined(t)' <=> Mined(t) \/ t \in body
  BY ConnectFacts DEF SameTxs
<1>2. CASE body = {}
  <2>1. received' = received
    BY <1>2, ConnectPays
  <2>. QED  BY <1>1, <1>2, <2>1, ExactRows DEF Of
<1>3. ASSUME NEW t \in body PROVE ExactInv'
  <2>1. t \in InMempool
    OBVIOUS
  <2>2. /\ InMempool = {t} /\ t \in DOMAIN txs /\ ~Mined(t) /\ NoneMined
        /\ \E b \in inflight : Of(t, b) /\ inflight = {b}
    BY <2>1, OneInMempool
  <2>3. PICK b \in inflight : Of(t, b) /\ inflight = {b}
    BY <2>2
  <2>4. body = {t} /\ received = paid
    BY <2>2 DEF ExactInv
  <2>5. \A w \in Workers : received'[w] = paid'[w] + Pays(t, w)
    BY <2>4, ConnectPays
  <2>6. \A w \in Workers : Pays(t, w)' = Pays(t, w)
    BY <1>1, <2>2 DEF Pays
  <2>7. ASSUME NEW u \in DOMAIN txs', txs'[u].batch = b.id PROVE u = t
    BY <1>1, <2>2, <2>3, <2>7 DEF Of, IdInv, RowInv
  <2>8. ~NoneMined'
    BY <1>1, <2>2, <2>3 DEF NoneMined, Of
  <2>. QED  BY <2>3, <2>5, <2>6, <2>7, <2>8 DEF ExactInv, Of
<1>. QED  BY <1>2, <1>3

LEMMA ExactStep ==
    ASSUME TypeInv, IdInv, OneRunner, LoneInv, NoUntrackedTransfer, ExactInv,
           "lost" \notin Faults, [Next]_vars
    PROVE  ExactInv'
<1>0. txs' = txs => \A t : Mined(t)' <=> Mined(t)
  BY DEF Mined
<1>1. ASSUME UNCHANGED <<inflight, txs, paid, received>> PROVE ExactInv'
  BY <1>0, <1>1, ExactRows DEF Of
<1>2. ASSUME NEW i, inflight' = {o \in inflight : o.id # i}, UNCHANGED <<txs, paid, received>>,
             \A t \in DOMAIN txs : txs[t].batch = i => ~Mined(t)
      PROVE  ExactInv'
  BY <1>0, <1>2, ExactRows DEF Of
<1>3. ASSUME NEW i, NEW t \in 0..MaxTx, Attach(i, t), UNCHANGED <<txs, paid, received>>
      PROVE  ExactInv'
  <2>1. /\ \A b \in inflight' : \E o \in inflight : b.id = o.id
        /\ \A o \in inflight : \E b \in inflight' : b.id = o.id
    BY <1>3, AttachFacts
  <2>. QED  BY <1>0, <1>3, <2>1, ExactRows DEF Of
<1>4. ASSUME NEW r \in Runners, RunOnce(r) PROVE ExactInv'
  <2>1. CASE Quiet(r)
    <3>1. run[r].pc \in Chosen => run[r].batch.txid = 0
      BY DEF IdInv, RunInv
    <3>. QED  BY <1>1, <2>1, <3>1, QuietMoves
  <2>2. CASE SettleByBlock(r) \/ SettleByOutput(r)
    <3>1. /\ run[r].batch \in inflight /\ Finalize(run[r].batch) /\ received' = received
      BY <2>2, SettleFacts DEF LoneInv, LoneRun
    <3>2. Carries(run[r].batch) /\ Mined(run[r].batch.txid)
      BY <2>2, SettledIsMined
    <3>. QED  BY <3>1, <3>2, ExactFinal
  <2>3. CASE BeginBatch(r)
    <3>1. FreshId \in Nat /\ \A t \in DOMAIN txs : txs[t].batch < FreshId
      BY FreshFacts DEF IdInv, RowInv
    <3>2. PICK b : b = [id |-> FreshId, txid |-> run[r].batch.txid, sats |-> run[r].batch.sats]
      OBVIOUS
    <3>3. inflight' = inflight \cup {b} /\ UNCHANGED <<txs, paid, received>>
      BY <2>3, <3>1, <3>2, BeginMoves DEF BeginBatch, nodeVars
    <3>4. \A t \in DOMAIN txs : txs[t].batch # b.id
      <4>1. \A t \in DOMAIN txs : txs[t] \in Tx
        BY TxsFacts DEF TypeInv
      <4>. QED  BY <3>1, <3>2, <4>1 DEF Tx
    <3>. QED  BY <1>0, <3>3, <3>4, ExactRows DEF Of
  <2>4. CASE CreateBroadcasts(r) \/ Submit(r)
    <3>1. /\ UNCHANGED <<inflight, paid, received>>
          /\ \E outs \in Outs, a \in Answers : Broadcast(run[r].batch.id, outs)
      BY <2>4, SendFacts
    <3>2. PICK outs \in Outs : Broadcast(run[r].batch.id, outs)
      BY <3>1
    <3>3. run[r].batch.id \in Nat
      BY RunFields DEF TypeInv
    <3>4. /\ DOMAIN txs' = DOMAIN txs \cup {Len(txs) + 1}
          /\ \A t \in DOMAIN txs : txs'[t] = txs[t]
          /\ txs'[Len(txs) + 1].state = "mempool"
      BY <3>2, <3>3, BroadcastFacts DEF Outs
    <3>5. \A t \in DOMAIN txs' : Mined(t)' => t \in DOMAIN txs /\ txs'[t] = txs[t] /\ Mined(t)
      BY <3>4 DEF Mined
    <3>6. \A t \in DOMAIN txs : Mined(t) => t \in DOMAIN txs' /\ Mined(t)' /\ txs'[t] = txs[t]
      BY <3>4 DEF Mined
    <3>. QED  BY <3>1, <3>5, <3>6, ExactRows DEF Of
  <2>5. CASE TransferFails(r) \/ AnswerLost(r)
    <3>1. /\ run[r].pc \in Unsent /\ Abort(run[r].batch.id) /\ UNCHANGED <<txs, paid, received>>
      BY <2>5, FailFacts DEF Making
    <3>2. \A t \in DOMAIN txs : txs[t].batch # run[r].batch.id
      BY <3>1 DEF IdInv, RunInv
    <3>. QED  BY <1>2, <3>1, <3>2 DEF Abort
  <2>6. CASE AttachTxid(r)
    BY <1>3, <2>6, StampFacts, RunFields DEF TypeInv
  <2>. QED  BY <1>4, <2>1, <2>2, <2>3, <2>4, <2>5, <2>6, RunOnceSplit
<1>5. CASE Network
  <2>1. UNCHANGED <<inflight, paid>> /\ SameTxs /\ DOMAIN txs' = DOMAIN txs
    BY <1>5, NetworkFacts
  <2>2. CASE received' = received /\ \A t \in DOMAIN txs : Mined(t)' <=> Mined(t)
    BY <2>1, <2>2, ExactRows DEF Of, SameTxs
  <2>3. CASE \E body \in SUBSET InMempool : Connect(body)
    BY <2>1, <2>3, ExactConnect
  <2>. QED  BY <1>5, <2>2, <2>3, NetworkFacts
<1>6. ASSUME NEW w \in Workers, Accrue(w) PROVE ExactInv'
  BY <1>1, <1>6 DEF Accrue, nodeVars
<1>7. CASE Crash
  BY <1>1, <1>7, CrashFacts
<1>8. CASE Operator
  <2>1. UNCHANGED <<txs, received>>
    BY <1>8, OperatorFacts
  <2>2. CASE \E b \in inflight, t \in DOMAIN txs : Attach(b.id, t) /\ paid' = paid
    <3>1. DOMAIN txs \subseteq 0..MaxTx
      BY TxsFacts, PayoutAssumption DEF TypeInv
    <3>. QED  BY <1>3, <2>1, <2>2, <3>1
  <2>3. CASE \E b \in inflight :
                (\A t \in DOMAIN txs : ~LiveTx(b, t)) /\ Abort(b.id) /\ paid' = paid
    <3>1. PICK b \in inflight :
             (\A t \in DOMAIN txs : ~LiveTx(b, t)) /\ Abort(b.id) /\ paid' = paid
      BY <2>3
    <3>2. \A t \in DOMAIN txs : txs[t].batch = b.id => ~Mined(t)
      BY <3>1 DEF LiveTx, Mined
    <3>. QED  BY <1>2, <2>1, <3>1, <3>2 DEF Abort
  <2>4. CASE \E b \in inflight : b.txid # 0 /\ Mined(b.txid) /\ Finalize(b)
    BY <2>1, <2>4, ExactFinal DEF IdInv, RowInv
  <2>5. CASE inflight' = inflight /\ paid' = paid
    BY <1>1, <2>1, <2>5
  <2>. QED  BY <1>8, <2>2, <2>3, <2>4, <2>5, OperatorFacts
<1>9. CASE UNCHANGED vars
  BY <1>1, <1>9 DEF vars
<1>. QED  BY <1>4, <1>5, <1>6, <1>7, <1>8, <1>9 DEF Next

\* The batch in flight is all that can be on its way, once.
LEMMA ExactIsOwed ==
    ASSUME TypeInv, IdInv, LoneInv, NoUntrackedTransfer, OwedInv, ExactInv
    PROVE  NeverOverpaid
<1>1. SUFFICES ASSUME NEW w \in Workers
               PROVE  received[w] + SumFunction([t \in InMempool |-> Pays(t, w)]) <= accrued[w]
  BY DEF NeverOverpaid
<1>2. PICK f : f = [t \in InMempool |-> Pays(t, w)]
  OBVIOUS
<1>3. IsFiniteSet(InMempool) /\ \A t \in InMempool : t \in DOMAIN txs /\ txs[t] \in Tx
  <2>1. InMempool \subseteq DOMAIN txs /\ IsFiniteSet(DOMAIN txs) /\ \A t \in DOMAIN txs : txs[t] \in Tx
    BY TxsFacts DEF TypeInv, InMempool
  <2>. QED  BY <2>1, FS_Subset
<1>4. f \in [InMempool -> Nat] /\ \A t \in InMempool : f[t] = Pays(t, w)
  BY <1>2, <1>3, PaysType
<1>5. /\ InMempool = {} => SumFunction(f) = 0
      /\ \A t : InMempool = {t} => SumFunction(f) = f[t]
  BY <1>3, <1>4, SumFacts
<1>6. paid[w] \in Nat /\ accrued[w] \in Nat /\ received[w] \in Nat /\ paid[w] <= accrued[w]
  BY PayoutAssumption DEF TypeInv, OwedInv
<1>7. ASSUME NEW b \in inflight, NEW t \in DOMAIN txs, Of(t, b)
      PROVE  paid[w] + Pays(t, w) <= accrued[w]
  <2>1. txs[t].outs = b.sats
    BY <1>7 DEF LoneInv
  <2>2. CASE w \in DOMAIN b.sats
    BY <2>1, <2>2 DEF OwedInv, Pays
  <2>3. CASE w \notin DOMAIN b.sats
    BY <1>6, <2>1, <2>3 DEF Pays
  <2>. QED  BY <2>2, <2>3
<1>8. CASE InMempool = {}
  <2>1. SumFunction(f) = 0
    BY <1>5, <1>8
  <2>2. received[w] <= accrued[w]
    <3>1. CASE NoneMined
      BY <1>6, <3>1 DEF ExactInv
    <3>2. CASE ~NoneMined
      <4>1. PICK b \in inflight, t \in DOMAIN txs : Of(t, b) /\ Mined(t)
        BY <3>2 DEF NoneMined
      <4>2. received[w] = paid[w] + Pays(t, w)
        BY <4>1 DEF ExactInv
      <4>. QED  BY <1>7, <4>1, <4>2
    <3>. QED  BY <3>1, <3>2
  <2>. QED  BY <1>2, <1>6, <2>1, <2>2
<1>9. ASSUME NEW t \in InMempool
      PROVE  received[w] + SumFunction([u \in InMempool |-> Pays(u, w)]) <= accrued[w]
  <2>1. /\ InMempool = {t} /\ t \in DOMAIN txs /\ NoneMined
        /\ \E b \in inflight : Of(t, b)
    BY OneInMempool
  <2>2. SumFunction(f) = Pays(t, w)
    BY <1>4, <1>5, <2>1
  <2>3. received[w] = paid[w]
    BY <2>1 DEF ExactInv
  <2>4. paid[w] + Pays(t, w) <= accrued[w]
    BY <1>7, <2>1
  <2>. QED  BY <1>2, <2>2, <2>3, <2>4
<1>. QED  BY <1>8, <1>9

\* At-most-once payout: with one tick at a time, what a worker got and what is
\* on its way to him never exceeds what he earned, on either rail, with an old
\* or a new node, whatever crashes, is refused or evicted; unless the answer to
\* a broadcast is lost or the node is upgraded under a running worker.
THEOREM NobodyIsOverpaid ==
    ASSUME OneRunner, "lost" \notin Faults, "upgrade" \notin Faults
    PROVE  Spec => []NeverOverpaid
<1>1. Init => LoneInv /\ OwedInv /\ ExactInv
  <2>1. ASSUME Init PROVE OwedInv /\ ExactInv
    <3>1. /\ inflight = {} /\ received = paid
          /\ \A w \in Workers : paid[w] = 0 /\ accrued[w] = 0
      BY <2>1 DEF Init
    <3>2. \A r \in Runners : run[r].pc \notin Chosen
      BY <2>1, IdleFacts DEF Init, Chosen
    <3>. QED  BY <3>1, <3>2 DEF OwedInv, ExactInv
  <2>. QED  BY <2>1, LoneInit
<1>2. TypeInv /\ IdInv /\ NoUntrackedTransfer /\ LoneInv /\ OwedInv /\ ExactInv /\ [Next]_vars
         => (LoneInv /\ OwedInv /\ ExactInv)'
  BY LoneStep, OwedStep, ExactStep
<1>3. TypeInv /\ IdInv /\ NoUntrackedTransfer /\ LoneInv /\ OwedInv /\ ExactInv => NeverOverpaid
  BY ExactIsOwed
<1>4. Spec => []NoUntrackedTransfer
  BY TransfersAreTracked
<1>. QED  BY <1>1, <1>2, <1>3, <1>4, BatchesAreOwned, PTL DEF Spec
=============================================================================
