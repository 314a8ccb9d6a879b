------------------------- MODULE BlockLedgerProofs -------------------------
(***************************************************************************)
(* TLAPS proofs about BlockLedger, for every number of candidates, every   *)
(* chain length and reorganisation depth: types; that no block is credited *)
(* or rotated twice; that no row is stored without its share; that a pass  *)
(* leaves no confirmed row behind; and that what was credited stays in the *)
(* node's chain.                                                           *)
(***************************************************************************)
EXTENDS BlockLedger, FiniteSetTheorems, SequenceTheorems, TLAPS

\* The candidates of a running pass are rows that were on record and not above
\* the polled tip when the pass listed them; between passes there are none.
TodoInv ==
    /\ pc # "check" => todo = {}
    /\ \A b \in todo : /\ rows[b].status \in {"pending", "confirmed"}
                       /\ rows[b].height <= TipHeight

-----------------------------------------------------------------------------
(* Types. *)

\* A chain replaced from some height on is still a chain.
LEMMA ReplacedChain ==
    ASSUME NEW n \in Nat, NEW f \in [1..n -> Blocks]
    PROVE  f \in Seq(Blocks) /\ Len(f) = n
<1>1. f \in Seq(Blocks)
  BY SeqDef
<1>2. Len(f) \in Nat /\ DOMAIN f = 1..Len(f)
  BY <1>1, LenProperties
<1>. QED
  BY <1>1, <1>2

\* A row keeps its type under a verdict and under the latch.
LEMMA VerdictType ==
    ASSUME NEW r \in Row, NEW s \in Statuses, NEW c \in Nat
    PROVE  Verdict(r, s, c) \in Row
BY DEF Verdict, Row

\* A row keeps its type when store_pplns_distribute sets its latch.
LEMMA LatchType ==
    ASSUME NEW r \in Row
    PROVE  [r EXCEPT !.dist = TRUE] \in Row
BY DEF Row

\* Heights of rows and of templates are numbers.
LEMMA HeightType ==
    ASSUME NEW r \in Row, NEW t \in Template
    PROVE  r.height \in Int /\ t.height \in Int
BY ConstantsAssumption DEF Row, Template, Heights

\* One row of the table is replaced.
LEMMA RowsStepType ==
    ASSUME NEW f \in [Ours -> Row], NEW b \in Ours, NEW r \in Row
    PROVE  [f EXCEPT ![b] = r] \in [Ours -> Row]
OBVIOUS

\* A connection thread that moves on is still a connection thread.
LEMMA CandPcType ==
    ASSUME NEW c \in Cand,
           NEW p \in {"idle", "submitted", "shared", "staged", "done", "dead"}
    PROVE  [c EXCEPT !.pc = p] \in Cand
BY DEF Cand

\* So does the whole table of connection threads when one of them moves on.
LEMMA CandStepType ==
    ASSUME NEW f \in [Ours -> Cand], NEW b \in Ours,
           NEW p \in {"idle", "submitted", "shared", "staged", "done", "dead"}
    PROVE  [f EXCEPT ![b].pc = p] \in [Ours -> Cand]
<1>1. [f[b] EXCEPT !.pc = p] \in Cand
  BY CandPcType
<1>. QED
  BY <1>1

\* The number of rows is a number: the row id is well defined.
LEMMA RowCount == Cardinality({c \in Ours : rows[c].status # "none"}) \in Nat
<1>1. {c \in Ours : rows[c].status # "none"} \in SUBSET Ours
  OBVIOUS
<1>. QED
  BY <1>1, ConstantsAssumption, FS_Subset, FS_CardinalityType

\* Enqueueing keeps the ring within its capacity.
LEMMA EnqueueType ==
    ASSUME queue \in Seq(Event), Len(queue) <= RingCap,
           NEW ev \in Event, Enqueue(ev)
    PROVE  queue' \in Seq(Event) /\ Len(queue') <= RingCap
BY ConstantsAssumption DEF Enqueue

\* A verdict of the templates pass is a row again.
LEMMA FromTemplatesType ==
    ASSUME TypeOK, NEW b \in Ours, NEW tip \in Int
    PROVE  FromTemplates(b, tip) \in Row
<1>1. rows[b] \in Row
  BY DEF TypeOK
<1>2. rows[b].height \in Int
  BY <1>1, ConstantsAssumption DEF Row, Heights
<1>3. {"confirmed", "orphaned"} \subseteq Statuses
  BY DEF Statuses
<1>4. Verdict(rows[b], "orphaned", 0) \in Row
  BY <1>1, <1>3, VerdictType
<1>5. ASSUME NEW d \in Nat PROVE Verdict(rows[b], "confirmed", d) \in Row
  BY <1>1, <1>3, VerdictType
<1>. QED
  BY <1>1, <1>2, <1>4, <1>5 DEF FromTemplates

\* Initially every variable has its type and nothing is left to check.
LEMMA TypeInit == ASSUME Init PROVE TypeOK /\ TodoInv
BY ConstantsAssumption, EmptySeq
   DEF Init, TypeOK, TodoInv, Cand, Row, NoRow, Statuses, Template,
       NoTemplate, Heights, Blocks

\* Every step of node, connection threads, writer and watcher keeps the types.
LEMMA TypeStep ==
    ASSUME TypeOK, TodoInv, [Next]_vars
    PROVE  TypeOK'
<1>. USE ConstantsAssumption DEF TypeOK
<1>1. CASE Extend
  BY <1>1 DEF Extend, CanGrow, Blocks, poolVars, dbVars, tipVars
<1>2. ASSUME NEW k \in 1..MaxReorg, Reorg(k) PROVE TypeOK'
  <2>1. Len(chain) + 1 \in Nat
    OBVIOUS
  <2>2. chain' \in [1..(Len(chain) + 1) -> Blocks]
    BY <1>2 DEF Reorg, Blocks
  <2>3. chain' \in Seq(Blocks) /\ Len(chain') <= MaxHeight
    <3>1. chain' \in Seq(Blocks) /\ Len(chain') = Len(chain) + 1
      BY <2>1, <2>2, ReplacedChain
    <3>. QED
      BY <1>2, <3>1 DEF Reorg, CanGrow
  <2>. QED
    BY <1>2, <2>3 DEF Reorg, poolVars, dbVars, tipVars
<1>3. CASE ReorgBack
  <2>1. Len(chain) + 1 \in Nat
    OBVIOUS
  <2>2. chain' \in [1..(Len(chain) + 1) -> Blocks]
    BY <1>3 DEF ReorgBack, Blocks
  <2>3. chain' \in Seq(Blocks) /\ Len(chain') <= MaxHeight
    <3>1. chain' \in Seq(Blocks) /\ Len(chain') = Len(chain) + 1
      BY <2>1, <2>2, ReplacedChain
    <3>. QED
      BY <1>3, <3>1 DEF ReorgBack, CanGrow
  <2>. QED
    BY <1>3, <2>3 DEF ReorgBack, poolVars, dbVars, tipVars
<1>4. ASSUME NEW b \in Ours, SubmitBlock(b) PROVE TypeOK'
  <2>1. chain' \in Seq(Blocks) /\ Len(chain') <= MaxHeight
    BY <1>4 DEF SubmitBlock, CanGrow, Blocks
  <2>2. cand' \in [Ours -> Cand]
    BY <1>4 DEF SubmitBlock, Cand
  <2>. QED
    BY <1>4, <2>1, <2>2 DEF SubmitBlock, dbVars, tipVars
<1>5. ASSUME NEW b \in Ours, RecordShare(b) PROVE TypeOK'
  <2>1. queue' \in Seq(Event) /\ Len(queue') <= RingCap
    BY <1>5, EnqueueType DEF RecordShare, Event
  <2>2. cand' \in [Ours -> Cand]
    BY <1>5, CandStepType DEF RecordShare
  <2>. QED
    BY <1>5, <2>1, <2>2 DEF RecordShare, nodeVars, dbVars, tipVars
<1>6. ASSUME NEW b \in Ours, StageFractions(b) PROVE TypeOK'
  <2>1. cand' \in [Ours -> Cand]
    BY <1>6, CandStepType DEF StageFractions
  <2>. QED
    BY <1>6, <2>1 DEF StageFractions, nodeVars, tipVars
<1>7. ASSUME NEW b \in Ours, RecordBlock(b) PROVE TypeOK'
  <2>1. queue' \in Seq(Event) /\ Len(queue') <= RingCap
    BY <1>7, EnqueueType DEF RecordBlock, Event
  <2>2. cand' \in [Ours -> Cand]
    BY <1>7, CandStepType DEF RecordBlock
  <2>. QED
    BY <1>7, <2>1, <2>2 DEF RecordBlock, nodeVars, dbVars, tipVars
<1>8. CASE Commit
  <2>1. Head(queue) \in Event /\ queue' \in Seq(Event) /\ Len(queue') <= RingCap
    BY <1>8, HeadTailProperties DEF Commit
  <2>2. \A b \in Ours : NewRow(b) \in Row
    BY RowCount DEF NewRow, Row, Statuses, Cand
  <2>3. Head(queue)[2] \in Ours
    BY <2>1 DEF Event
  <2>4. anchored' \subseteq Ours
    BY <1>8, <2>3 DEF Commit
  <2>5. rows' \in [Ours -> Row]
    <3>1. rows \in [Ours -> Row]
      OBVIOUS
    <3>2. \/ UNCHANGED rows
          \/ rows' = [rows EXCEPT ![Head(queue)[2]] =
                        IF rows[Head(queue)[2]].status = "none"
                        THEN NewRow(Head(queue)[2]) ELSE rows[Head(queue)[2]]]
      BY <1>8 DEF Commit
    <3>3. (IF rows[Head(queue)[2]].status = "none"
           THEN NewRow(Head(queue)[2]) ELSE rows[Head(queue)[2]]) \in Row
      BY <2>2, <2>3
    <3>4. [rows EXCEPT ![Head(queue)[2]] =
             IF rows[Head(queue)[2]].status = "none"
             THEN NewRow(Head(queue)[2]) ELSE rows[Head(queue)[2]]] \in [Ours -> Row]
      BY ONLY <2>3, <3>1, <3>3, RowsStepType
    <3>. QED
      BY ONLY <3>1, <3>2, <3>4
  <2>. QED
    BY <1>8, <2>1, <2>4, <2>5 DEF Commit, nodeVars, tipVars
<1>9. CASE LoseBatch
  <2>1. queue' \in Seq(Event) /\ Len(queue') <= RingCap
    BY <1>9, HeadTailProperties DEF LoseBatch
  <2>. QED
    BY <1>9, <2>1 DEF LoseBatch, nodeVars, dbVars, tipVars
<1>10. CASE Poll
  <2>1. Len(chain) + 1 \in Heights /\ Tip \in Blocks \cup {None}
    BY DEF Heights, Tip
  <2>2. tmpl' \in Template
    BY <1>10, <2>1 DEF Poll, Template
  <2>. QED
    BY <1>10, <2>2 DEF Poll, poolVars, nodeVars, dbVars
<1>11. CASE List
  BY <1>11 DEF List, Listed, Shallow, poolVars, nodeVars, dbVars
<1>12. CASE CheckOne
  <2>1. PICK b \in todo : /\ \/ rows' = [rows EXCEPT ![b] = NodeVerdict(b)]
                             \/ UNCHANGED rows
                          /\ todo' = todo \ {b}
    BY <1>12 DEF CheckOne
  <2>2. NodeVerdict(b) \in Row
    <3>1. rows[b] \in Row /\ rows[b].height <= TipHeight
      BY <2>1 DEF TodoInv
    <3>2. rows[b].height \in Int /\ TipHeight \in Int
      <4>1. rows[b].height \in Int /\ tmpl.height \in Int
        BY <3>1, HeightType
      <4>. QED
        BY <4>1 DEF TipHeight
    <3>3. TipHeight - rows[b].height + 1 \in Nat
      BY <3>1, <3>2
    <3>4. {"confirmed", "orphaned"} \subseteq Statuses
      BY DEF Statuses
    <3>. QED
      BY <3>1, <3>3, <3>4, VerdictType DEF NodeVerdict
  <2>3. rows' \in [Ours -> Row]
    BY <2>1, <2>2
  <2>. QED
    BY <1>12, <2>1, <2>3 DEF CheckOne, poolVars, nodeVars
<1>13. CASE CheckUnsupported
  BY <1>13 DEF CheckUnsupported, poolVars, nodeVars, dbVars
<1>14. CASE CheckFails
  BY <1>14 DEF CheckFails, poolVars, nodeVars, dbVars
<1>15. CASE CheckDone
  BY <1>15 DEF CheckDone, poolVars, nodeVars, dbVars
<1>16. CASE TemplatesPass
  <2>1. TipHeight \in Int
    BY DEF TipHeight, Template, Heights
  <2>2. rows' \in [Ours -> Row]
    BY <1>16, <2>1, FromTemplatesType DEF TemplatesPass
  <2>. QED
    BY <1>16, <2>2 DEF TemplatesPass, poolVars, nodeVars
<1>17. CASE Settle
  BY <1>17 DEF Settle, poolVars, nodeVars
<1>18. CASE DistributeOne
  <2>1. PICK b \in Ours :
           /\ paid' = [paid EXCEPT ![b] = IF b \in anchored THEN @ + 1 ELSE @]
           /\ rows' = [rows EXCEPT ![b].dist = TRUE]
    BY <1>18 DEF DistributeOne, Due
  <2>2. paid' \in [Ours -> Nat]
    BY <2>1
  <2>3. rows' \in [Ours -> Row]
    <3>1. [rows[b] EXCEPT !.dist = TRUE] \in Row
      BY LatchType
    <3>2. rows' = [rows EXCEPT ![b] = [rows[b] EXCEPT !.dist = TRUE]]
      BY <2>1
    <3>. QED
      BY <3>1, <3>2
  <2>. QED
    BY <1>18, <2>2, <2>3 DEF DistributeOne, tipVars, poolVars, nodeVars
<1>19. CASE DistributeDone
  BY <1>19 DEF DistributeDone, poolVars, nodeVars, dbVars
<1>20. CASE Build
  <2>1. templates' \in [Heights -> Blocks \cup {None}] /\ job' \in Heights
    BY <1>20 DEF Build, RecordTemplate, Template
  <2>. QED
    BY <1>20, <2>1 DEF Build, nodeVars
<1>21. CASE BuildFails
  BY <1>21 DEF BuildFails, poolVars, nodeVars, dbVars
<1>22. CASE Crash
  <2>1. cand' \in [Ours -> Cand]
    BY <1>22, CandPcType DEF Crash
  <2>2. job' \in Heights /\ last' \in Template
    BY <1>22 DEF Crash, NoTemplate, Template, Heights
  <2>. QED
    BY <1>22, <2>1, <2>2, EmptySeq DEF Crash, nodeVars, dbVars
<1>23. CASE Start
  <2>1. Len(chain) + 1 \in Heights /\ Tip \in Blocks \cup {None}
    BY DEF Heights, Tip
  <2>2. tmpl' \in Template /\ last' \in Template /\ job' \in Heights
    BY <1>23, <2>1 DEF Start, Template
  <2>3. rows' \in [Ours -> Row]
    BY <1>23, FromTemplatesType DEF Start
  <2>4. templates' \in [Heights -> Blocks \cup {None}]
    BY <1>23, <2>2 DEF Start, RecordTemplate, Template
  <2>. QED
    BY <1>23, <2>2, <2>3, <2>4 DEF Start, nodeVars
<1>24. CASE Quiet \/ UNCHANGED vars
  BY <1>24 DEF Quiet, vars
<1>. QED
  BY <1>1, <1>2, <1>3, <1>4, <1>5, <1>6, <1>7, <1>8, <1>9, <1>10, <1>11,
     <1>12, <1>13, <1>14, <1>15, <1>16, <1>17, <1>18, <1>19, <1>20, <1>21,
     <1>22, <1>23, <1>24
     DEF Next, Node, Submit, Writer, Watcher

\* What is left to check keeps its row until the pass has judged it.
LEMMA TodoStep ==
    ASSUME TypeOK, TodoInv, [Next]_vars
    PROVE  TodoInv'
<1>. USE DEF TodoInv
<1>1. CASE UNCHANGED <<todo, rows, tmpl, pc>>
  BY <1>1 DEF TipHeight
<1>2. CASE todo' = {}
  BY <1>2
<1>3. CASE Commit
  <2>1. \A b \in todo : rows'[b] = rows[b]
    BY <1>3 DEF Commit, TypeOK
  <2>. QED
    BY <1>3, <2>1 DEF Commit, tipVars, TipHeight
<1>4. CASE List
  BY <1>4 DEF List, Listed, Shallow, dbVars, TipHeight
<1>5. CASE CheckOne
  <2>1. \A c \in todo' : rows'[c] = rows[c] /\ c \in todo
    BY <1>5 DEF CheckOne, TypeOK
  <2>. QED
    BY <1>5, <2>1 DEF CheckOne, TipHeight
<1>6. CASE CheckDone \/ CheckFails \/ CheckUnsupported \/ Crash
  BY <1>6 DEF CheckDone, CheckFails, CheckUnsupported, Crash
<1>7. CASE pc # "check" /\ pc' # "check" /\ todo' = todo
  BY <1>7
<1>8. CASE Node
  BY <1>1, <1>8 DEF Node, Extend, Reorg, ReorgBack, dbVars, tipVars
<1>9. CASE \E b \in Ours : Submit(b)
  BY <1>1, <1>9 DEF Submit, SubmitBlock, RecordShare, StageFractions,
                    RecordBlock, dbVars, tipVars
<1>10. CASE LoseBatch \/ Quiet \/ UNCHANGED vars
  BY <1>1, <1>10 DEF LoseBatch, Quiet, vars, dbVars, tipVars
<1>11. CASE Poll \/ TemplatesPass \/ Settle \/ DistributeOne \/ DistributeDone
            \/ Build \/ BuildFails \/ Start
  BY <1>7, <1>11 DEF Poll, TemplatesPass, Settle, DistributeOne,
                     DistributeDone, Build, BuildFails, Start, tipVars
<1>. QED
  BY <1>3, <1>4, <1>5, <1>6, <1>8, <1>9, <1>10, <1>11
     DEF Next, Writer, Watcher

\* Every variable of the ledger keeps its type, on every chain.
THEOREM TypeCorrect == Spec => []TypeOK
<1>1. Init => TypeOK /\ TodoInv
  BY TypeInit
<1>2. TypeOK /\ TodoInv /\ [Next]_vars => TypeOK' /\ TodoInv'
  BY TypeStep, TodoStep
<1>. QED
  BY <1>1, <1>2, PTL DEF Spec

-----------------------------------------------------------------------------
(* No block is credited twice. *)

\* Why PaidAtMostOnce holds: a credit leaves its latch behind, the latch is
\* only ever set on a row with a window, a row has a window only if the block
\* was found by a pool keeping a PPLNS ledger, and what a connection thread
\* found out about its block does not change once the thread has left "idle" -
\* which it has before anything of it is queued.
PayInv ==
    /\ \A b \in Ours :
         /\ paid[b] <= 1
         /\ paid[b] = 1 => rows[b].dist
         /\ rows[b].dist => rows[b].window
         /\ rows[b].window => /\ rows[b].status # "none"
                              /\ cand[b].mode = "pplns"
                              /\ cand[b].pc # "idle"
    /\ \A i \in 1..Len(queue) : cand[queue[i][2]].pc # "idle"

\* A verdict changes neither the window nor the latch of a row.
LEMMA VerdictKeeps ==
    ASSUME NEW r \in Row, NEW s \in Statuses, NEW c \in Nat
    PROVE  /\ Verdict(r, s, c).dist = r.dist
           /\ Verdict(r, s, c).window = r.window
           /\ Verdict(r, s, c).status = s
BY DEF Verdict, Row

\* Neither does the templates pass, which judges only rows that exist.
LEMMA FromTemplatesKeeps ==
    ASSUME TypeOK, NEW b \in Ours, NEW tip \in Int
    PROVE  /\ FromTemplates(b, tip).dist = rows[b].dist
           /\ FromTemplates(b, tip).window = rows[b].window
           /\ FromTemplates(b, tip).status = "none" => rows[b].status = "none"
<1>1. rows[b] \in Row
  BY DEF TypeOK
<1>2. rows[b].height \in Int
  BY <1>1, ConstantsAssumption DEF Row, Heights
<1>3. {"confirmed", "orphaned"} \subseteq Statuses
  BY DEF Statuses
<1>4. ASSUME NEW s \in {"confirmed", "orphaned"}, NEW d \in Nat
      PROVE  /\ Verdict(rows[b], s, d).dist = rows[b].dist
             /\ Verdict(rows[b], s, d).window = rows[b].window
             /\ Verdict(rows[b], s, d).status # "none"
  BY <1>1, <1>3, VerdictKeeps
<1>. QED
  BY <1>1, <1>2, <1>4 DEF FromTemplates

\* A thread that moves on keeps what it found out about its block.
LEMMA CandKeeps ==
    ASSUME NEW f \in [Ours -> Cand], NEW b \in Ours, NEW p,
           NEW c \in Ours
    PROVE  /\ [f EXCEPT ![b].pc = p][c].mode = f[c].mode
           /\ [f EXCEPT ![b].pc = p][c].pc = IF c = b THEN p ELSE f[c].pc
BY DEF Cand

\* A thread that queues an event keeps its mode and goes one step further;
\* the other threads stay where they are.
LEMMA RecordKeeps ==
    ASSUME TypeOK, NEW b \in Ours, RecordShare(b) \/ RecordBlock(b), NEW c \in Ours
    PROVE  /\ cand'[c].mode = cand[c].mode
           /\ cand'[c].pc = cand[c].pc \/ c = b
           /\ cand[b].pc = "submitted" => cand'[b].pc = "shared"
           /\ cand[b].pc # "submitted" => cand[b].pc = "staged" /\ cand'[b].pc = "done"
<1>1. cand \in [Ours -> Cand]
  BY DEF TypeOK
<1>2. CASE RecordShare(b)
  BY <1>1, <1>2, CandKeeps DEF RecordShare
<1>3. CASE RecordBlock(b)
  BY <1>1, <1>3, CandKeeps DEF RecordBlock
<1>. QED
  BY <1>2, <1>3

\* Rows may be judged, and threads may move on, without disturbing PayInv.
LEMMA PayFrame ==
    ASSUME TypeOK, PayInv,
           paid' = paid,
           \A b \in Ours : /\ rows'[b].dist = rows[b].dist
                           /\ rows'[b].window = rows[b].window
                           /\ rows'[b].status = "none" => rows[b].status = "none"
                           /\ cand[b].pc # "idle" => /\ cand'[b].pc # "idle"
                                                     /\ cand'[b].mode = cand[b].mode,
           \A i \in 1..Len(queue') : cand'[queue'[i][2]].pc # "idle"
    PROVE  PayInv'
BY DEF PayInv

\* Every step preserves the invariant behind PaidOnce: the latch is set by the
\* step that credits, and only for a window whose mode keeps a ledger.
LEMMA PayStep ==
    ASSUME TypeOK, TodoInv, PayInv, [Next]_vars
    PROVE  PayInv'
<1>0. \A i \in 1..Len(queue) : queue[i][2] \in Ours
  BY DEF TypeOK, Event
<1>1. CASE UNCHANGED <<paid, rows, cand, queue>>
  BY <1>1 DEF PayInv
<1>2. ASSUME NEW b \in Ours, SubmitBlock(b) PROVE PayInv'
  <2>1. \A c \in Ours : cand[c].pc # "idle" => cand'[c] = cand[c]
    BY <1>2 DEF SubmitBlock, TypeOK
  <2>2. UNCHANGED <<paid, rows, queue>>
    BY <1>2 DEF SubmitBlock, dbVars
  <2>. QED
    BY <1>0, <2>1, <2>2, PayFrame DEF PayInv
<1>3. ASSUME NEW b \in Ours, RecordShare(b) \/ RecordBlock(b) PROVE PayInv'
  <2>1. \A c \in Ours : /\ cand[c].pc # "idle" => cand'[c].pc # "idle"
                        /\ cand'[c].mode = cand[c].mode
    BY <1>3, RecordKeeps
  <2>2. UNCHANGED <<paid, rows>>
    BY <1>3 DEF RecordShare, RecordBlock, dbVars
  <2>3. cand'[b].pc # "idle"
    BY <1>3, RecordKeeps
  <2>4. PICK ev \in Event : ev[2] = b /\ Enqueue(ev)
    BY <1>3 DEF RecordShare, RecordBlock, Event
  <2>5. \A i \in 1..Len(queue') : queue'[i] = ev \/ (i \in 1..Len(queue) /\ queue'[i] = queue[i])
    BY <2>4 DEF Enqueue, TypeOK
  <2>6. \A i \in 1..Len(queue') : cand'[queue'[i][2]].pc # "idle"
    BY <1>0, <2>1, <2>3, <2>4, <2>5 DEF PayInv
  <2>. QED
    BY <2>1, <2>2, <2>6, PayFrame
<1>4. ASSUME NEW b \in Ours, StageFractions(b) PROVE PayInv'
  <2>1. \A c \in Ours : /\ cand[c].pc # "idle" => cand'[c].pc # "idle"
                        /\ cand'[c].mode = cand[c].mode
    BY <1>4, CandKeeps DEF StageFractions, TypeOK
  <2>2. UNCHANGED <<paid, rows, queue>>
    BY <1>4 DEF StageFractions
  <2>. QED
    BY <1>0, <2>1, <2>2, PayFrame DEF PayInv
<1>5. CASE Commit
  <2>1. /\ queue # <<>>
        /\ \A i \in 1..Len(queue') : i + 1 \in 1..Len(queue) /\ queue'[i] = queue[i + 1]
    BY <1>5, HeadTailProperties DEF Commit, TypeOK
  <2>2. \A i \in 1..Len(queue') : cand'[queue'[i][2]].pc # "idle"
    BY <1>5, <2>1 DEF Commit, PayInv
  <2>3. CASE UNCHANGED rows
    BY <1>5, <2>2, <2>3, PayFrame DEF Commit
  <2>4. CASE ~UNCHANGED rows
    <3>. DEFINE b == Head(queue)[2]
    <3>1. b = queue[1][2] /\ 1 \in 1..Len(queue)
      BY <2>1 DEF TypeOK
    <3>2. b \in Ours /\ cand[b].pc # "idle"
      BY <1>0, <3>1 DEF PayInv
    <3>3. rows' = [rows EXCEPT ![b] = IF @.status = "none" THEN NewRow(b) ELSE @]
      BY <1>5, <2>4 DEF Commit
    <3>4. rows[b].status = "none" /\ rows' = [rows EXCEPT ![b] = NewRow(b)]
      BY <2>4, <3>2, <3>3 DEF TypeOK
    <3>5. ~rows[b].window /\ ~rows[b].dist /\ paid[b] # 1
      BY <3>2, <3>4 DEF PayInv, TypeOK, Row
    <3>6. /\ NewRow(b).dist = FALSE
          /\ NewRow(b).status # "none"
          /\ NewRow(b).window => cand[b].mode = "pplns"
      BY DEF NewRow
    <3>7. UNCHANGED <<cand, paid>>
      BY <1>5 DEF Commit
    <3>. QED
      BY <2>2, <3>2, <3>4, <3>5, <3>6, <3>7 DEF PayInv, TypeOK
  <2>. QED
    BY <2>3, <2>4
<1>6. CASE LoseBatch
  <2>1. \A i \in 1..Len(queue') : i + 1 \in 1..Len(queue) /\ queue'[i] = queue[i + 1]
    BY <1>6, HeadTailProperties DEF LoseBatch, TypeOK
  <2>2. \A i \in 1..Len(queue') : cand'[queue'[i][2]].pc # "idle"
    BY <1>6, <2>1 DEF LoseBatch, PayInv
  <2>. QED
    BY <1>6, <2>2, PayFrame DEF LoseBatch, dbVars
<1>7. CASE CheckOne
  <2>1. PICK b \in todo : \/ rows' = [rows EXCEPT ![b] = NodeVerdict(b)]
                          \/ UNCHANGED rows
    BY <1>7 DEF CheckOne
  <2>2. rows[b] \in Row /\ rows[b].height <= TipHeight
    BY <2>1 DEF TodoInv, TypeOK
  <2>3. TipHeight - rows[b].height + 1 \in Nat
    BY <2>2, ConstantsAssumption DEF TypeOK, Row, TipHeight, Template, Heights
  <2>4. /\ NodeVerdict(b).dist = rows[b].dist
        /\ NodeVerdict(b).window = rows[b].window
        /\ NodeVerdict(b).status # "none"
    BY <2>2, <2>3, VerdictKeeps DEF NodeVerdict, Statuses
  <2>5. UNCHANGED <<paid, cand, queue>>
    BY <1>7 DEF CheckOne, poolVars
  <2>. QED
    BY <1>0, <2>1, <2>4, <2>5, PayFrame DEF PayInv, TypeOK
<1>8. CASE TemplatesPass \/ Start
  <2>1. Len(chain) \in Int /\ TipHeight \in Int
    BY ConstantsAssumption DEF TypeOK, TipHeight, Template, Heights
  <2>2. UNCHANGED <<paid, cand, queue>>
    BY <1>8 DEF TemplatesPass, Start, poolVars
  <2>3. \A b \in Ours : /\ rows'[b].dist = rows[b].dist
                        /\ rows'[b].window = rows[b].window
                        /\ rows'[b].status = "none" => rows[b].status = "none"
    BY <1>8, <2>1, FromTemplatesKeeps DEF TemplatesPass, Start
  <2>. QED
    BY <1>0, <2>2, <2>3, PayFrame DEF PayInv
<1>9. CASE DistributeOne
  <2>1. PICK b \in Due :
           /\ paid' = [paid EXCEPT ![b] = IF b \in anchored THEN @ + 1 ELSE @]
           /\ rows' = [rows EXCEPT ![b].dist = TRUE]
    BY <1>9 DEF DistributeOne
  <2>2. b \in Ours /\ ~rows[b].dist /\ rows[b].window
    BY <2>1 DEF Due
  <2>3. paid[b] = 0
    BY <2>2 DEF PayInv, TypeOK
  <2>4. paid'[b] <= 1 /\ \A c \in Ours \ {b} : paid'[c] = paid[c] /\ rows'[c] = rows[c]
    BY <2>1, <2>2, <2>3 DEF TypeOK
  <2>5. /\ rows'[b].dist
        /\ rows'[b].window = rows[b].window
        /\ rows'[b].status = rows[b].status
    BY <2>1, <2>2 DEF TypeOK, Row
  <2>6. UNCHANGED <<cand, queue>>
    BY <1>9 DEF DistributeOne, poolVars
  <2>. QED
    BY <2>2, <2>4, <2>5, <2>6 DEF PayInv
<1>10. CASE Crash
  <2>1. \A c \in Ours : /\ cand[c].pc # "idle" => cand'[c].pc # "idle"
                        /\ cand'[c].mode = cand[c].mode
    BY <1>10 DEF Crash, TypeOK, Cand
  <2>2. UNCHANGED <<paid, rows>> /\ Len(queue') = 0
    BY <1>10 DEF Crash, dbVars
  <2>. QED
    BY <2>1, <2>2, PayFrame
<1>11. CASE Node \/ Quiet \/ UNCHANGED vars
  BY <1>1, <1>11 DEF Node, Extend, Reorg, ReorgBack, Quiet, vars, dbVars, poolVars
<1>12. CASE Poll \/ List \/ CheckUnsupported \/ CheckFails \/ CheckDone \/ Settle
            \/ DistributeDone \/ Build \/ BuildFails
  BY <1>1, <1>12 DEF Poll, List, CheckUnsupported, CheckFails, CheckDone,
                     Settle, DistributeDone, Build, BuildFails, dbVars, poolVars
<1>. QED
  BY <1>2, <1>3, <1>4, <1>5, <1>6, <1>7, <1>8, <1>9, <1>10, <1>11, <1>12
     DEF Next, Submit, Writer, Watcher

\* store_pplns_distribute credits a block at most once, only behind its latch,
\* and never a block whose coinbase paid the window itself: for any number of
\* blocks, any reorganisation, lost batch, crash and change of mode.
THEOREM PaidOnce == Spec => []PaidAtMostOnce
<1>1. Init => TypeOK /\ TodoInv /\ PayInv
  <2>1. ASSUME Init PROVE PayInv
    BY <2>1 DEF Init, PayInv, NoRow
  <2>. QED
    BY <2>1, TypeInit
<1>2. TypeOK /\ TodoInv /\ PayInv /\ [Next]_vars => TypeOK' /\ TodoInv' /\ PayInv'
  BY TypeStep, TodoStep, PayStep
<1>3. PayInv => PaidAtMostOnce
  BY DEF PayInv, PaidAtMostOnce
<1>. QED
  BY <1>1, <1>2, <1>3, PTL DEF Spec

-----------------------------------------------------------------------------
(* No rotation is applied twice. *)

\* Why RotatedAtMostOnce holds: applying deltas deletes them, and only the
\* thread that found the block stages them, once, on its way past "shared".
RotInv ==
    \A b \in Ours :
        /\ rotated[b] <= 1
        /\ rotated[b] = 1 => b \notin staged
        /\ rotated[b] = 1 \/ b \in staged =>
               /\ cand[b].mode = "coinbase"
               /\ cand[b].pc \in {"staged", "done", "dead"}

\* Every step preserves the invariant behind RotatedOnce: deltas are staged at
\* most once per block and leave the staging table with the step that applies
\* them.
LEMMA RotStep ==
    ASSUME TypeOK, RotInv, [Next]_vars
    PROVE  RotInv'
<1>1. CASE UNCHANGED <<rotated, staged, cand>>
  BY <1>1 DEF RotInv
<1>2. ASSUME NEW b \in Ours, SubmitBlock(b) PROVE RotInv'
  <2>1. \A c \in Ours : cand[c].pc # "idle" => cand'[c] = cand[c]
    BY <1>2 DEF SubmitBlock, TypeOK
  <2>. QED
    BY <1>2, <2>1 DEF SubmitBlock, dbVars, RotInv
<1>3. ASSUME NEW b \in Ours, RecordShare(b) \/ RecordBlock(b) PROVE RotInv'
  <2>1. \A c \in Ours :
          /\ cand'[c].mode = cand[c].mode
          /\ cand[c].pc \in {"staged", "done", "dead"} => cand'[c].pc \in {"staged", "done", "dead"}
    BY <1>3, RecordKeeps
  <2>. QED
    BY <1>3, <2>1 DEF RecordShare, RecordBlock, dbVars, RotInv
<1>4. ASSUME NEW b \in Ours, StageFractions(b) PROVE RotInv'
  <2>1. \A c \in Ours : /\ cand'[c].mode = cand[c].mode
                        /\ cand'[c].pc = IF c = b THEN "staged" ELSE cand[c].pc
    BY <1>4, CandKeeps DEF StageFractions, TypeOK
  <2>2. cand[b].pc = "shared" /\ rotated[b] # 1
    BY <1>4 DEF StageFractions, RotInv
  <2>3. UNCHANGED rotated /\ (staged' = staged \/ (staged' = staged \cup {b} /\ cand[b].mode = "coinbase"))
    BY <1>4 DEF StageFractions
  <2>. QED
    BY <2>1, <2>2, <2>3 DEF RotInv
<1>5. CASE Settle
  <2>1. CASE UNCHANGED <<staged, rotated>>
    BY <1>1, <1>5, <2>1 DEF Settle, poolVars
  <2>2. CASE /\ staged' = staged \ Settled
             /\ rotated' = [b \in Ours |->
                              IF b \in staged /\ rows[b].status = "confirmed"
                              THEN rotated[b] + 1 ELSE rotated[b]]
    BY <1>5, <2>2 DEF Settle, Settled, poolVars, RotInv, TypeOK
  <2>. QED
    BY <1>5, <2>1, <2>2 DEF Settle
<1>6. CASE Crash
  <2>1. \A c \in Ours :
          /\ cand'[c].mode = cand[c].mode
          /\ cand[c].pc \in {"staged", "done", "dead"} => cand'[c].pc \in {"staged", "done", "dead"}
    BY <1>6 DEF Crash, TypeOK, Cand
  <2>. QED
    BY <1>6, <2>1 DEF Crash, dbVars, RotInv
<1>7. CASE Node \/ Writer \/ Quiet \/ Start \/ UNCHANGED vars
  BY <1>1, <1>7 DEF Node, Extend, Reorg, ReorgBack, Writer, Commit, LoseBatch,
                    Quiet, Start, vars, dbVars, poolVars
<1>8. CASE Watcher
  BY <1>1, <1>5, <1>8 DEF Watcher, Poll, List, CheckOne, CheckUnsupported,
       CheckFails, CheckDone, TemplatesPass, DistributeOne, DistributeDone,
       Build, BuildFails, dbVars, poolVars
<1>. QED
  BY <1>2, <1>3, <1>4, <1>6, <1>7, <1>8 DEF Next, Submit

\* store_settle_block_fractions applies a block's deltas at most once, however
\* often it runs, and only for blocks whose coinbase paid the window.
THEOREM RotatedOnce == Spec => []RotatedAtMostOnce
<1>1. Init => TypeOK /\ TodoInv /\ RotInv
  <2>1. ASSUME Init PROVE RotInv
    BY <2>1 DEF Init, RotInv
  <2>. QED
    BY <2>1, TypeInit
<1>2. TypeOK /\ TodoInv /\ RotInv /\ [Next]_vars => TypeOK' /\ TodoInv' /\ RotInv'
  BY TypeStep, TodoStep, RotStep
<1>3. RotInv => RotatedAtMostOnce
  BY DEF RotInv, RotatedAtMostOnce
<1>. QED
  BY <1>1, <1>2, <1>3, PTL DEF Spec
-----------------------------------------------------------------------------
(* No row without its share. *)

\* An event of the ring.
Queued(ev) == \E i \in 1..Len(queue) : queue[i] = ev

\* Every candidate queues its share once and its block once, so a ring with
\* room for two events per candidate never fills up.
RingInv ==
    /\ \A i, j \in 1..Len(queue) : queue[i] = queue[j] => i = j
    /\ \A b \in Ours :
         /\ cand[b].pc \in {"idle", "submitted"} => ~Queued(<<"share", b>>)
         /\ cand[b].pc # "done" => ~Queued(<<"block", b>>)

\* Why RowHasItsShare holds: from the moment the connection thread has queued
\* the share it is on record or ahead of the block in the ring.
ShareInv ==
    /\ \A b \in Ours :
         /\ cand[b].pc \in {"shared", "staged"} => b \in anchored \/ Queued(<<"share", b>>)
         /\ rows[b].status # "none" => b \in anchored
    /\ \A b \in Ours : \A i \in 1..Len(queue) :
         queue[i] = <<"block", b>> =>
             b \in anchored \/ \E j \in 1..(i - 1) : queue[j] = <<"share", b>>

\* There is room for an event that is not in the ring yet.
LEMMA RoomForEvent ==
    ASSUME RingCap >= 2 * Cardinality(Ours), TypeOK, RingInv,
           NEW ev \in Event, ~Queued(ev), Enqueue(ev)
    PROVE  queue' = Append(queue, ev)
<1>1. /\ IsFiniteSet(Event) /\ Cardinality(Event) = 2 * Cardinality(Ours)
      /\ Cardinality(Event) \in Nat
  <2>1. IsFiniteSet({"share", "block"}) /\ Cardinality({"share", "block"}) = 2
    <3>1. {"share", "block"} = {"share"} \cup {"block"} /\ "block" \notin {"share"}
      OBVIOUS
    <3>2. IsFiniteSet({"share"}) /\ Cardinality({"share"}) = 1
      BY FS_Singleton
    <3>. QED
      BY <3>1, <3>2, FS_AddElement
  <2>. QED
    BY <2>1, ConstantsAssumption, FS_Product, FS_CardinalityType DEF Event
<1>2. /\ IsFiniteSet(Event \ {ev})
      /\ Cardinality(Event \ {ev}) = Cardinality(Event) - 1
  BY <1>1, FS_RemoveElement
<1>3. queue \in [1..Len(queue) -> Event] /\ Len(queue) \in Nat
  BY DEF TypeOK
<1>4. queue \in [1..Len(queue) -> Event \ {ev}]
  BY <1>3 DEF Queued
<1>5. queue \in Injection(1..Len(queue), Event \ {ev})
  BY <1>4 DEF Injection, IsInjective, RingInv
<1>6. Cardinality(1..Len(queue)) <= Cardinality(Event \ {ev})
  BY <1>2, <1>5, FS_Injection
<1>7. Cardinality(1..Len(queue)) = Len(queue)
  BY <1>3, FS_Interval
<1>8. Cardinality(Ours) \in Nat /\ RingCap \in Nat
  BY ConstantsAssumption, FS_CardinalityType
<1>9. Len(queue) < RingCap
  BY <1>1, <1>2, <1>3, <1>6, <1>7, <1>8
<1>. QED
  BY <1>9 DEF Enqueue

\* The ring with one event more.
LEMMA QueueAppend ==
    ASSUME NEW q \in Seq(Event), NEW ev \in Event
    PROVE  /\ Len(Append(q, ev)) = Len(q) + 1 /\ Len(q) \in Nat
           /\ Append(q, ev)[Len(q) + 1] = ev
           /\ \A i \in 1..Len(q) : Append(q, ev)[i] = q[i]
BY AppendProperties

\* The ring without its oldest event.
LEMMA QueueTail ==
    ASSUME NEW q \in Seq(Event), q # <<>>
    PROVE  /\ Len(q) \in Nat /\ Len(q) >= 1 /\ Len(Tail(q)) = Len(q) - 1
           /\ Head(q) = q[1] /\ q[1] \in Event
           /\ \A i \in 1..(Len(q) - 1) : Tail(q)[i] = q[i + 1]
BY HeadTailProperties

\* A connection thread that queues an event it has not queued before.
LEMMA ShareQueueStep ==
    ASSUME RingCap >= 2 * Cardinality(Ours), TypeOK, RingInv, ShareInv,
           NEW b \in Ours, RecordShare(b) \/ RecordBlock(b)
    PROVE  RingInv' /\ ShareInv'
<1>1. UNCHANGED <<rows, anchored>>
  BY DEF RecordShare, RecordBlock, dbVars
<1>2. ASSUME NEW c \in Ours, c # b PROVE cand'[c].pc = cand[c].pc
  BY <1>2, RecordKeeps
<1>3. queue \in Seq(Event)
  BY DEF TypeOK
<1>4. CASE RecordShare(b)
  <2>1. cand[b].pc = "submitted" /\ cand'[b].pc = "shared" /\ Enqueue(<<"share", b>>)
    BY <1>4, RecordKeeps DEF RecordShare
  <2>2. ~Queued(<<"share", b>>) /\ <<"share", b>> \in Event /\ ~Queued(<<"block", b>>)
    BY <2>1 DEF RingInv, Event
  <2>3. queue' = Append(queue, <<"share", b>>)
    BY <2>1, <2>2, RoomForEvent
  <2>4. /\ Len(queue') = Len(queue) + 1 /\ Len(queue) \in Nat
        /\ queue'[Len(queue) + 1] = <<"share", b>>
        /\ \A i \in 1..Len(queue) : queue'[i] = queue[i]
    BY <1>3, <2>2, <2>3, QueueAppend
  <2>5. RingInv'
    BY <1>2, <2>1, <2>2, <2>4 DEF RingInv, Queued
  <2>6. ShareInv'
    <3>1. ASSUME NEW c \in Ours, cand'[c].pc \in {"shared", "staged"}
          PROVE  c \in anchored' \/ (Queued(<<"share", c>>))'
      <4>1. Queued(<<"share", c>>) => (Queued(<<"share", c>>))'
        BY <2>4 DEF Queued
      <4>2. c = b => (Queued(<<"share", b>>))'
        BY <2>1, <2>4, <3>1 DEF Queued
      <4>. QED
        BY <1>1, <1>2, <3>1, <4>1, <4>2 DEF ShareInv
    <3>2. ASSUME NEW c \in Ours, NEW i \in 1..Len(queue'), queue'[i] = <<"block", c>>
          PROVE  c \in anchored' \/ \E j \in 1..(i - 1) : queue'[j] = <<"share", c>>
      <4>1. i \in 1..Len(queue) /\ queue[i] = <<"block", c>>
        BY <2>4, <3>2
      <4>2. c \in anchored \/ \E j \in 1..(i - 1) : queue[j] = <<"share", c>>
        BY <4>1 DEF ShareInv
      <4>. QED
        BY <1>1, <2>4, <4>1, <4>2
    <3>. QED
      BY <1>1, <3>1, <3>2 DEF ShareInv
  <2>. QED
    BY <2>5, <2>6
<1>5. CASE RecordBlock(b)
  <2>1. cand[b].pc = "staged" /\ cand'[b].pc = "done" /\ Enqueue(<<"block", b>>)
    BY <1>5, RecordKeeps DEF RecordBlock
  <2>2. ~Queued(<<"block", b>>) /\ <<"block", b>> \in Event
    BY <2>1 DEF RingInv, Event
  <2>3. queue' = Append(queue, <<"block", b>>)
    BY <2>1, <2>2, RoomForEvent
  <2>4. /\ Len(queue') = Len(queue) + 1 /\ Len(queue) \in Nat
        /\ queue'[Len(queue) + 1] = <<"block", b>>
        /\ \A i \in 1..Len(queue) : queue'[i] = queue[i]
    BY <1>3, <2>2, <2>3, QueueAppend
  <2>5. RingInv'
    BY <1>2, <2>1, <2>2, <2>4 DEF RingInv, Queued
  <2>6. ShareInv'
    <3>1. ASSUME NEW c \in Ours, cand'[c].pc \in {"shared", "staged"}
          PROVE  c \in anchored' \/ (Queued(<<"share", c>>))'
      <4>1. Queued(<<"share", c>>) => (Queued(<<"share", c>>))'
        BY <2>4 DEF Queued
      <4>2. c = b => FALSE
        BY <2>1, <2>4, <3>1 DEF Queued
      <4>. QED
        BY <1>1, <1>2, <3>1, <4>1, <4>2 DEF ShareInv
    <3>2. ASSUME NEW c \in Ours, NEW i \in 1..Len(queue'), queue'[i] = <<"block", c>>
          PROVE  c \in anchored' \/ \E j \in 1..(i - 1) : queue'[j] = <<"share", c>>
      <4>1. CASE i \in 1..Len(queue)
        <5>1. queue[i] = <<"block", c>>
          BY <2>4, <3>2, <4>1
        <5>2. c \in anchored \/ \E j \in 1..(i - 1) : queue[j] = <<"share", c>>
          BY <4>1, <5>1 DEF ShareInv
        <5>. QED
          BY <1>1, <2>4, <4>1, <5>2
      <4>2. CASE i = Len(queue) + 1
        <5>1. c = b
          BY <2>4, <3>2, <4>2
        <5>2. b \in anchored \/ Queued(<<"share", b>>)
          BY <2>1 DEF ShareInv
        <5>3. (i - 1) = Len(queue)
          BY <2>4, <4>2
        <5>. QED
          BY <1>1, <2>4, <5>1, <5>2, <5>3 DEF Queued
      <4>. QED
        BY <2>4, <4>1, <4>2
    <3>. QED
      BY <1>1, <3>1, <3>2 DEF ShareInv
  <2>. QED
    BY <2>5, <2>6
<1>. QED
  BY <1>4, <1>5

\* The writer records the oldest event.
LEMMA ShareCommitStep ==
    ASSUME TypeOK, RingInv, ShareInv, Commit
    PROVE  RingInv' /\ ShareInv'
<1>1. queue \in Seq(Event) /\ queue # <<>> /\ queue' = Tail(queue) /\ cand' = cand
  BY DEF Commit, TypeOK
<1>2. /\ Len(queue) \in Nat /\ Len(queue) >= 1 /\ Len(queue') = Len(queue) - 1
      /\ Head(queue) = queue[1] /\ queue[1] \in Event
      /\ \A i \in 1..(Len(queue) - 1) : queue'[i] = queue[i + 1]
  BY <1>1, QueueTail
<1>3. ASSUME NEW ev, (Queued(ev))' PROVE Queued(ev)
  BY <1>2, <1>3 DEF Queued
<1>4. ASSUME NEW ev, Queued(ev), ev # queue[1] PROVE (Queued(ev))'
  <2>1. PICK i \in 1..Len(queue) : queue[i] = ev
    BY <1>4 DEF Queued
  <2>2. i - 1 \in 1..Len(queue') /\ queue'[i - 1] = ev
    BY <1>2, <1>4, <2>1
  <2>. QED
    BY <2>2 DEF Queued
<1>5. RingInv'
  <2>1. \A i, j \in 1..Len(queue') : queue'[i] = queue'[j] => i = j
    BY <1>2 DEF RingInv
  <2>2. ASSUME NEW b \in Ours
        PROVE  /\ cand'[b].pc \in {"idle", "submitted"} => ~(Queued(<<"share", b>>))'
               /\ cand'[b].pc # "done" => ~(Queued(<<"block", b>>))'
    BY <1>1, <1>3 DEF RingInv
  <2>. QED
    BY <2>1, <2>2 DEF RingInv
<1>. DEFINE b0 == queue[1][2]
<1>6. b0 \in Ours /\ queue[1] = <<queue[1][1], b0>> /\ queue[1][1] \in {"share", "block"}
  BY <1>2 DEF Event
<1>7. anchored \subseteq anchored' /\ (queue[1][1] = "share" => b0 \in anchored')
  BY <1>2 DEF Commit
<1>8. ASSUME NEW b \in Ours, queue[1] = <<"share", b>> PROVE b \in anchored'
  BY <1>6, <1>7, <1>8
<1>9. ASSUME NEW b \in Ours, NEW i \in 1..Len(queue'), queue'[i] = <<"block", b>>
      PROVE  b \in anchored' \/ \E j \in 1..(i - 1) : queue'[j] = <<"share", b>>
  <2>1. i + 1 \in 1..Len(queue) /\ queue[i + 1] = <<"block", b>>
    BY <1>2, <1>9
  <2>2. b \in anchored \/ \E j \in 1..i : queue[j] = <<"share", b>>
    <3>1. (i + 1) - 1 = i
      BY <1>2
    <3>2. b \in anchored \/ \E j \in 1..((i + 1) - 1) : queue[j] = <<"share", b>>
      BY <2>1 DEF ShareInv
    <3>. QED
      BY <3>1, <3>2
  <2>3. ASSUME NEW j \in 1..i, queue[j] = <<"share", b>>, j # 1
        PROVE  j - 1 \in 1..(i - 1) /\ queue'[j - 1] = <<"share", b>>
    BY <1>2, <2>1, <2>3
  <2>. QED
    BY <1>7, <1>8, <2>2, <2>3
<1>10. ASSUME NEW b \in Ours, cand'[b].pc \in {"shared", "staged"}
       PROVE  b \in anchored' \/ (Queued(<<"share", b>>))'
  <2>1. b \in anchored \/ Queued(<<"share", b>>)
    BY <1>1, <1>10 DEF ShareInv
  <2>. QED
    BY <1>4, <1>7, <1>8, <2>1
<1>11. ASSUME NEW b \in Ours, rows'[b].status # "none" PROVE b \in anchored'
  <2>1. CASE rows[b].status # "none"
    BY <1>7, <2>1 DEF ShareInv
  <2>2. CASE rows[b].status = "none"
    <3>1. rows'[b] # rows[b]
      BY <1>11, <2>2
    <3>2. queue[1][1] = "block" /\ b = b0
      BY <1>2, <1>6, <3>1 DEF Commit, TypeOK
    <3>3. queue[1] = <<"block", b>> /\ 1 \in 1..Len(queue)
      BY <1>2, <1>6, <3>2
    <3>4. b \in anchored
      BY <3>3 DEF ShareInv
    <3>. QED
      BY <1>7, <3>4
  <2>. QED
    BY <2>1, <2>2
<1>. QED
  BY <1>5, <1>9, <1>10, <1>11 DEF ShareInv

\* Steps that queue and record nothing.
LEMMA ShareFrame ==
    ASSUME RingInv, ShareInv, UNCHANGED <<queue, anchored>>,
           \A b \in Ours : /\ rows'[b].status # "none" => rows[b].status # "none"
                           /\ cand'[b].pc = cand[b].pc
    PROVE  RingInv' /\ ShareInv'
BY DEF RingInv, ShareInv, Queued

\* Every step preserves the order of share and block.
LEMMA ShareStep ==
    ASSUME RingCap >= 2 * Cardinality(Ours), ~DbMayFail,
           TypeOK, TodoInv, RingInv, ShareInv, [Next]_vars
    PROVE  RingInv' /\ ShareInv'
<1>1. CASE UNCHANGED <<rows, cand, queue, anchored>>
  BY <1>1, ShareFrame
<1>2. ASSUME NEW b \in Ours, SubmitBlock(b) PROVE RingInv' /\ ShareInv'
  <2>1. /\ cand[b].pc = "idle" /\ cand'[b].pc = "submitted"
        /\ \A c \in Ours \ {b} : cand'[c] = cand[c]
    BY <1>2 DEF SubmitBlock, TypeOK
  <2>2. UNCHANGED <<rows, queue, anchored>>
    BY <1>2 DEF SubmitBlock, dbVars
  <2>. QED
    BY <2>1, <2>2 DEF RingInv, ShareInv, Queued
<1>3. ASSUME NEW b \in Ours, RecordShare(b) \/ RecordBlock(b) PROVE RingInv' /\ ShareInv'
  BY <1>3, ShareQueueStep
<1>4. ASSUME NEW b \in Ours, StageFractions(b) PROVE RingInv' /\ ShareInv'
  <2>1. /\ cand[b].pc = "shared" /\ cand'[b].pc = "staged"
        /\ \A c \in Ours \ {b} : cand'[c].pc = cand[c].pc
    BY <1>4, CandKeeps DEF StageFractions, TypeOK
  <2>2. UNCHANGED <<rows, queue, anchored>>
    BY <1>4 DEF StageFractions
  <2>. QED
    BY <2>1, <2>2 DEF RingInv, ShareInv, Queued
<1>5. CASE Commit
  BY <1>5, ShareCommitStep
<1>6. CASE CheckOne
  <2>1. \A b \in Ours : rows'[b] = rows[b] \/ rows[b].status # "none"
    BY <1>6 DEF CheckOne, TypeOK, TodoInv
  <2>. QED
    BY <1>6, <2>1, ShareFrame DEF CheckOne, poolVars
<1>7. CASE TemplatesPass \/ Start
  <2>1. \A b \in Ours : rows'[b].status # "none" => rows[b].status # "none"
    BY <1>7 DEF TemplatesPass, Start, FromTemplates
  <2>. QED
    BY <1>7, <2>1, ShareFrame DEF TemplatesPass, Start, poolVars
<1>8. CASE DistributeOne
  <2>1. \A b \in Ours : rows'[b] = rows[b] \/ rows[b].status # "none"
    BY <1>8 DEF DistributeOne, Due, TypeOK
  <2>. QED
    BY <1>8, <2>1, ShareFrame DEF DistributeOne, poolVars
<1>9. CASE Crash
  <2>1. /\ queue' = <<>> /\ UNCHANGED <<rows, anchored>>
        /\ \A c \in Ours : cand'[c].pc \notin {"shared", "staged"}
    BY <1>9 DEF Crash, dbVars, TypeOK, Cand
  <2>2. \A i : i \notin 1..Len(queue')
    BY <2>1
  <2>. QED
    BY <2>1, <2>2 DEF RingInv, ShareInv, Queued
<1>10. CASE Node \/ Quiet \/ UNCHANGED vars
  BY <1>1, <1>10 DEF Node, Extend, Reorg, ReorgBack, Quiet, vars, dbVars, poolVars
<1>11. CASE Poll \/ List \/ CheckUnsupported \/ CheckFails \/ CheckDone \/ Settle
            \/ DistributeDone \/ Build \/ BuildFails
  BY <1>1, <1>11 DEF Poll, List, CheckUnsupported, CheckFails, CheckDone,
                     Settle, DistributeDone, Build, BuildFails, dbVars, poolVars
<1>. QED
  BY <1>2, <1>3, <1>4, <1>5, <1>6, <1>7, <1>8, <1>9, <1>10, <1>11
     DEF Next, Submit, Writer, LoseBatch, Watcher

\* stratum.c queues the candidate's share before the block, and the writer
\* keeps the order: as long as the ring has room for both events of every
\* candidate and no batch is lost, there is no row whose window has no anchor,
\* whatever crashes in between.
THEOREM RowsAreAnchored ==
    ASSUME RingCap >= 2 * Cardinality(Ours), ~DbMayFail
    PROVE  Spec => []RowHasItsShare
<1>1. Init => TypeOK /\ TodoInv /\ RingInv /\ ShareInv
  <2>1. ASSUME Init PROVE RingInv /\ ShareInv
    BY <2>1 DEF Init, RingInv, ShareInv, Queued, NoRow
  <2>. QED
    BY <2>1, TypeInit
<1>2. TypeOK /\ TodoInv /\ RingInv /\ ShareInv /\ [Next]_vars
        => TypeOK' /\ TodoInv' /\ RingInv' /\ ShareInv'
  BY TypeStep, TodoStep, ShareStep
<1>3. ShareInv => RowHasItsShare
  BY DEF ShareInv, RowHasItsShare
<1>. QED
  BY <1>1, <1>2, <1>3, PTL DEF Spec
-----------------------------------------------------------------------------
(* Heights: templates, jobs, candidates and rows against the node's chain. *)

\* The watcher works on a new tip.
InPass == pc \in {"list", "check", "templates", "settle", "distribute", "build"}

\* The template a record holds is not ahead of the node, and one at the node's
\* height names the node's tip: a chain that changed is a longer chain.
Current(t) == /\ t.height <= Len(chain) + 1
              /\ t.height = Len(chain) + 1 => t.prev = Tip

\* Jobs and candidates are never above the last template, every pass is about
\* a higher one, and a row has the height its candidate was solved at.
HeightInv ==
    /\ Current(tmpl) /\ Current(last)
    /\ InPass => tmpl.height > last.height
    /\ job <= last.height
    /\ \A b \in Ours :
         /\ pc # "down" => cand[b].height <= last.height
         /\ cand[b].height <= Len(chain) + 1
         /\ cand[b].pc # "idle" => cand[b].height >= 1
         /\ rows[b].status # "none" => /\ rows[b].height = cand[b].height
                                       /\ cand[b].pc # "idle"
    /\ \A i \in 1..Len(queue) : cand[queue[i][2]].pc # "idle"

\* Every step of the node makes the chain one longer.
LEMMA NodeGrows ==
    ASSUME TypeOK, Node
    PROVE  /\ Len(chain) \in Nat /\ Len(chain') = Len(chain) + 1
           /\ UNCHANGED <<poolVars, dbVars, tipVars, crashes>>
<1>1. UNCHANGED <<poolVars, dbVars, tipVars, crashes>>
  BY DEF Node, Extend, Reorg, ReorgBack
<1>2. Len(chain) \in Nat /\ chain \in Seq(Blocks) /\ fork \in Seq(Blocks)
  BY DEF TypeOK
<1>3. CASE Extend
  BY <1>1, <1>2, <1>3 DEF Extend, Blocks
<1>4. ASSUME NEW k \in 1..MaxReorg, Reorg(k) PROVE Len(chain') = Len(chain) + 1
  <2>1. chain' \in [1..(Len(chain) + 1) -> Blocks]
    BY <1>2, <1>4 DEF Reorg, Blocks
  <2>2. Len(chain) + 1 \in Nat
    BY <1>2
  <2>. QED
    BY ONLY <2>1, <2>2, ReplacedChain
<1>5. CASE ReorgBack
  <2>1. chain' \in [1..(Len(chain) + 1) -> Blocks]
    BY <1>2, <1>5 DEF ReorgBack, Blocks
  <2>2. Len(chain) + 1 \in Nat
    BY <1>2
  <2>3. Len(chain') = Len(chain) + 1
    BY ONLY <2>1, <2>2, ReplacedChain
  <2>. QED
    BY <1>1, <1>2, <2>3
<1>. QED
  BY <1>1, <1>2, <1>3, <1>4, <1>5 DEF Node

\* What more than MaxReorg blocks are built on stays where it is.
LEMMA NodeKeepsDeep ==
    ASSUME TypeOK, Node, NEW h \in Nat, 1 <= h, h + MaxReorg <= Len(chain)
    PROVE  chain'[h] = chain[h]
<1>1. /\ Len(chain) \in Nat /\ chain \in Seq(Blocks) /\ MaxReorg \in Nat
      /\ h \in 1..Len(chain) /\ h \in 1..(Len(chain) + 1)
  BY ConstantsAssumption DEF TypeOK
<1>2. CASE Extend
  <2>1. chain' = Append(chain, Foreign)
    BY <1>2 DEF Extend
  <2>. QED
    BY <1>1, <2>1 DEF Blocks
<1>3. ASSUME NEW k \in 1..MaxReorg, Reorg(k) PROVE chain'[h] = chain[h]
  <2>1. h <= Len(chain) - k
    BY <1>1
  <2>. QED
    BY <1>1, <1>3, <2>1 DEF Reorg
<1>4. CASE ReorgBack
  <2>1. h \in 1..(Len(chain) - MaxReorg)
    BY <1>1
  <2>. QED
    BY <1>4, <2>1 DEF ReorgBack
<1>. QED
  BY <1>2, <1>3, <1>4 DEF Node

\* A thread that moves on keeps the height and the answer of its block.
LEMMA CandKeepsFacts ==
    ASSUME NEW f \in [Ours -> Cand], NEW b \in Ours, NEW p, NEW c \in Ours
    PROVE  /\ [f EXCEPT ![b].pc = p][c].height = f[c].height
           /\ [f EXCEPT ![b].pc = p][c].accepted = f[c].accepted
BY DEF Cand

\* The steps of a connection thread after submitblock.
LEMMA ThreadKeeps ==
    ASSUME TypeOK, NEW b \in Ours,
           RecordShare(b) \/ StageFractions(b) \/ RecordBlock(b), NEW c \in Ours
    PROVE  /\ cand'[c].height = cand[c].height
           /\ cand'[c].accepted = cand[c].accepted
           /\ cand'[c].pc = cand[c].pc \/ c = b
           /\ cand[b].pc \in {"submitted", "shared", "staged"}
           /\ cand'[b].pc \in {"shared", "staged", "done"}
           /\ cand'[b].pc = "done" => RecordBlock(b)
<1>1. cand \in [Ours -> Cand]
  BY DEF TypeOK
<1>2. PICK p \in {"shared", "staged", "done"} : cand' = [cand EXCEPT ![b].pc = p]
                                                 /\ (p = "done" => RecordBlock(b))
  BY DEF RecordShare, StageFractions, RecordBlock
<1>3. cand[b].pc \in {"submitted", "shared", "staged"}
  BY DEF RecordShare, StageFractions, RecordBlock
<1>4. /\ [cand EXCEPT ![b].pc = p][c].height = cand[c].height
      /\ [cand EXCEPT ![b].pc = p][c].accepted = cand[c].accepted
  BY <1>1, CandKeepsFacts
<1>5. /\ [cand EXCEPT ![b].pc = p][c].pc = IF c = b THEN p ELSE cand[c].pc
      /\ [cand EXCEPT ![b].pc = p][b].pc = p
  BY <1>1, CandKeeps
<1>. QED
  BY <1>2, <1>3, <1>4, <1>5

\* What a verdict leaves of a row, and what it says.
LEMMA VerdictFields ==
    ASSUME NEW r \in Row, NEW s \in Statuses, NEW c \in Nat
    PROVE  /\ Verdict(r, s, c).height = r.height
           /\ Verdict(r, s, c).status = s
           /\ Verdict(r, s, c).confs = c
BY DEF Verdict, Row

\* The templates pass on one row, case by case.
LEMMA FromTemplatesCases ==
    ASSUME TypeOK, NEW b \in Ours, NEW tip \in Int
    PROVE  LET r == rows[b]
               s == FromTemplates(b, tip)
           IN  /\ s.height = r.height
               /\ \/ s = r /\ (r.status \in {"none", "rejected"} \/ templates[r.height + 1] = None)
                  \/ s.status = "orphaned" /\ r.status \notin {"none", "rejected"}
                     /\ s.confs = 0
                     /\ (r.height > tip \/ templates[r.height + 1] \notin {None, b})
                  \/ s.status = "confirmed" /\ r.status \notin {"none", "rejected"}
                     /\ r.height <= tip
                     /\ templates[r.height + 1] = b
                     /\ s.confs = tip - r.height + 1
<1>1. rows[b] \in Row
  BY DEF TypeOK
<1>2. rows[b].height \in Int
  BY <1>1, ConstantsAssumption DEF Row, Heights
<1>. DEFINE d == IF tip - rows[b].height + 1 > 0 THEN tip - rows[b].height + 1 ELSE 0
<1>3. d \in Nat /\ (rows[b].height <= tip => d = tip - rows[b].height + 1)
  BY <1>2
<1>. HIDE DEF d
<1>4. /\ Verdict(rows[b], "orphaned", 0).height = rows[b].height
      /\ Verdict(rows[b], "orphaned", 0).status = "orphaned"
      /\ Verdict(rows[b], "orphaned", 0).confs = 0
  BY <1>1, VerdictFields DEF Statuses
<1>5. /\ Verdict(rows[b], "confirmed", d).height = rows[b].height
      /\ Verdict(rows[b], "confirmed", d).status = "confirmed"
      /\ Verdict(rows[b], "confirmed", d).confs = d
  BY <1>1, <1>3, VerdictFields DEF Statuses
<1>6. FromTemplates(b, tip) =
        IF rows[b].status \in {"none", "rejected"} THEN rows[b]
        ELSE IF rows[b].height > tip THEN Verdict(rows[b], "orphaned", 0)
        ELSE IF templates[rows[b].height + 1] = None THEN rows[b]
        ELSE IF templates[rows[b].height + 1] = b THEN Verdict(rows[b], "confirmed", d)
        ELSE Verdict(rows[b], "orphaned", 0)
  BY DEF FromTemplates, d
<1>7. CASE rows[b].status \in {"none", "rejected"}
  BY <1>6, <1>7
<1>8. CASE rows[b].status \notin {"none", "rejected"} /\ rows[b].height > tip
  BY <1>4, <1>6, <1>8
<1>9. CASE rows[b].status \notin {"none", "rejected"} /\ ~(rows[b].height > tip)
  <2>1. rows[b].height <= tip
    BY <1>2, <1>9
  <2>2. CASE templates[rows[b].height + 1] = None
    BY <1>6, <1>9, <2>2
  <2>3. CASE templates[rows[b].height + 1] # None /\ templates[rows[b].height + 1] = b
    BY <1>3, <1>5, <1>6, <1>9, <2>1, <2>3
  <2>4. CASE templates[rows[b].height + 1] # None /\ templates[rows[b].height + 1] # b
    BY <1>4, <1>6, <1>9, <2>4
  <2>. QED
    BY <2>2, <2>3, <2>4
<1>. QED
  BY <1>7, <1>8, <1>9

\* The latch changes nothing else of its row, and no other row.
LEMMA LatchKeeps ==
    ASSUME NEW f \in [Ours -> Row], NEW b \in Ours, NEW c \in Ours
    PROVE  /\ [f EXCEPT ![b].dist = TRUE][c].status = f[c].status
           /\ [f EXCEPT ![b].dist = TRUE][c].height = f[c].height
           /\ [f EXCEPT ![b].dist = TRUE][c].confs = f[c].confs
BY DEF Row

\* All heights are numbers.
LEMMA HeightNats ==
    ASSUME TypeOK
    PROVE  /\ Len(chain) \in Nat /\ job \in Nat
           /\ tmpl.height \in Nat /\ last.height \in Nat
           /\ \A b \in Ours : cand[b].height \in Nat /\ rows[b].height \in Nat
                              /\ rows[b].confs \in Nat
BY ConstantsAssumption DEF TypeOK, Heights, Template, Cand, Row

\* Steps that move neither the node, nor the watcher to another template, nor
\* a candidate away from its height.
LEMMA HeightFrame ==
    ASSUME HeightInv, UNCHANGED <<chain, tmpl, last, job>>,
           InPass' => InPass, pc' # "down" => pc # "down",
           \A b \in Ours : /\ cand'[b].height = cand[b].height
                           /\ cand'[b].pc # "idle" <=> cand[b].pc # "idle"
                           /\ rows'[b].status # "none" => /\ rows[b].status # "none"
                                                          /\ rows'[b].height = rows[b].height,
           \A i \in 1..Len(queue') : cand'[queue'[i][2]].pc # "idle"
    PROVE  HeightInv'
BY DEF HeightInv, Current, Tip

\* Every step keeps templates, jobs, candidates and rows in line.
LEMMA HeightStep ==
    ASSUME TypeOK, TodoInv, HeightInv, [Next]_vars
    PROVE  HeightInv'
<1>0. \A i \in 1..Len(queue) : queue[i][2] \in Ours
  BY DEF TypeOK, Event
<1>n. /\ Len(chain) \in Nat /\ job \in Nat
      /\ tmpl.height \in Nat /\ last.height \in Nat
      /\ \A b \in Ours : cand[b].height \in Nat
  BY HeightNats
<1>1. CASE Node
  <2>1. Len(chain') = Len(chain) + 1 /\ UNCHANGED <<poolVars, dbVars, tipVars, crashes>>
    BY <1>1, NodeGrows
  <2>2. UNCHANGED <<tmpl, last, job, cand, rows, queue, pc>>
    BY <2>1 DEF poolVars, dbVars, tipVars
  <2>3. (Current(tmpl))' /\ (Current(last))'
    BY <1>n, <2>1, <2>2 DEF HeightInv, Current
  <2>. QED
    BY <1>n, <2>1, <2>2, <2>3 DEF HeightInv, InPass
<1>2. ASSUME NEW b \in Ours, SubmitBlock(b) PROVE HeightInv'
  <2>1. /\ UNCHANGED <<tmpl, last, job, rows, queue, pc>>
        /\ pc # "down" /\ job > 0 /\ cand[b].pc = "idle"
    BY <1>2 DEF SubmitBlock, dbVars, tipVars, Up
  <2>2. \/ chain' = chain
        \/ Len(chain') = Len(chain) + 1
    BY <1>2 DEF SubmitBlock, TypeOK, Blocks
  <2>3. (Current(tmpl))' /\ (Current(last))' /\ Len(chain') >= Len(chain)
    BY <1>n, <2>1, <2>2 DEF HeightInv, Current, Tip
  <2>4. /\ cand'[b].height = job /\ cand'[b].pc = "submitted"
        /\ \A c \in Ours \ {b} : cand'[c] = cand[c]
    BY <1>2 DEF SubmitBlock, TypeOK
  <2>5. Len(chain') \in Nat
    BY HeightNats, <2>2, <1>n
  <2>6. job <= Len(chain) + 1
    BY <1>n DEF HeightInv, Current
  <2>7. \A c \in Ours :
          /\ pc' # "down" => cand'[c].height <= last'.height
          /\ cand'[c].height <= Len(chain') + 1
          /\ cand'[c].pc # "idle" => cand'[c].height >= 1
          /\ rows'[c].status # "none" => /\ rows'[c].height = cand'[c].height
                                         /\ cand'[c].pc # "idle"
    BY <1>n, <2>1, <2>3, <2>4, <2>5, <2>6 DEF HeightInv
  <2>8. \A i \in 1..Len(queue') : cand'[queue'[i][2]].pc # "idle"
    BY <1>0, <2>1, <2>4 DEF HeightInv
  <2>. QED
    BY <2>1, <2>3, <2>7, <2>8 DEF HeightInv, InPass
<1>3. ASSUME NEW b \in Ours, RecordShare(b) \/ StageFractions(b) \/ RecordBlock(b)
      PROVE  HeightInv'
  <2>1. UNCHANGED <<chain, tmpl, last, job, rows, pc>>
    BY <1>3 DEF RecordShare, StageFractions, RecordBlock, nodeVars, dbVars, tipVars
  <2>2. \A c \in Ours : /\ cand'[c].height = cand[c].height
                        /\ cand'[c].pc # "idle" <=> cand[c].pc # "idle"
    BY <1>3, ThreadKeeps
  <2>3. \A i \in 1..Len(queue') : queue'[i][2] = b \/ (i \in 1..Len(queue) /\ queue'[i] = queue[i])
    <3>1. CASE UNCHANGED queue
      BY <3>1
    <3>2. ASSUME NEW ev \in Event, ev[2] = b, Enqueue(ev)
          PROVE  \A i \in 1..Len(queue') : queue'[i][2] = b \/ (i \in 1..Len(queue) /\ queue'[i] = queue[i])
      BY <3>2 DEF Enqueue, TypeOK
    <3>3. /\ <<"share", b>> \in Event /\ <<"block", b>> \in Event
          /\ <<"share", b>>[2] = b /\ <<"block", b>>[2] = b
      BY DEF Event
    <3>4. UNCHANGED queue \/ Enqueue(<<"share", b>>) \/ Enqueue(<<"block", b>>)
      BY <1>3 DEF RecordShare, StageFractions, RecordBlock
    <3>. QED
      BY <3>1, <3>2, <3>3, <3>4
  <2>4. cand[b].pc # "idle"
    BY <1>3, ThreadKeeps
  <2>5. \A i \in 1..Len(queue') : cand'[queue'[i][2]].pc # "idle"
    BY <1>0, <2>2, <2>3, <2>4 DEF HeightInv
  <2>. QED
    BY <2>1, <2>2, <2>5, HeightFrame DEF InPass
<1>4. CASE Writer
  <2>1. /\ queue # <<>> /\ queue' = Tail(queue) /\ UNCHANGED <<chain, tmpl, last, job, pc, cand>>
    BY <1>4 DEF Writer, Commit, LoseBatch, nodeVars, tipVars
  <2>2. \A i \in 1..Len(queue') : i + 1 \in 1..Len(queue) /\ queue'[i] = queue[i + 1]
    BY <2>1, HeadTailProperties DEF TypeOK
  <2>3. \A i \in 1..Len(queue') : cand'[queue'[i][2]].pc # "idle"
    BY <2>1, <2>2 DEF HeightInv
  <2>4. ASSUME NEW b \in Ours
        PROVE  \/ rows'[b] = rows[b]
               \/ b = queue[1][2] /\ rows'[b].height = cand[b].height
    BY <1>4, <2>1 DEF Writer, Commit, LoseBatch, dbVars, TypeOK, NewRow
  <2>5. 1 \in 1..Len(queue)
    BY <2>1 DEF TypeOK
  <2>6. \A b \in Ours : rows'[b].status # "none" => /\ rows'[b].height = cand'[b].height
                                                    /\ cand'[b].pc # "idle"
    BY <2>1, <2>4, <2>5 DEF HeightInv
  <2>. QED
    BY <2>1, <2>3, <2>6 DEF HeightInv, InPass, Current, Tip
<1>5. CASE Poll
  <2>1. /\ tmpl' = [height |-> Len(chain) + 1, prev |-> Tip] /\ tmpl' # last
        /\ UNCHANGED <<chain, last, job, cand, rows, queue>> /\ pc = "poll" /\ pc' # "down"
    BY <1>5 DEF Poll, poolVars, nodeVars, dbVars
  <2>2. last = [height |-> last.height, prev |-> last.prev]
    BY DEF TypeOK, Template
  <2>3. tmpl'.height = Len(chain) + 1 /\ tmpl'.prev = Tip
    BY <2>1
  <2>4. last.height < Len(chain) + 1
    BY <1>n, <2>1, <2>2 DEF HeightInv, Current
  <2>5. (Current(tmpl))' /\ (Current(last))'
    BY <2>1, <2>3 DEF HeightInv, Current, Tip
  <2>6. tmpl'.height > last'.height
    BY <1>n, <2>1, <2>3, <2>4
  <2>. QED
    BY <2>1, <2>5, <2>6 DEF HeightInv
<1>6. CASE CheckOne
  <2>1. /\ UNCHANGED <<chain, tmpl, last, job, pc, cand, queue>>
        /\ \E b \in todo : rows' = [rows EXCEPT ![b] = NodeVerdict(b)] \/ UNCHANGED rows
    BY <1>6 DEF CheckOne, poolVars, nodeVars
  <2>2. PICK b \in todo : rows' = [rows EXCEPT ![b] = NodeVerdict(b)] \/ UNCHANGED rows
    BY <2>1
  <2>3. rows[b] \in Row /\ rows[b].height <= TipHeight /\ b \in Ours /\ rows[b].status # "none"
    BY <2>2 DEF TodoInv, TypeOK
  <2>4. TipHeight - rows[b].height + 1 \in Nat
    BY <2>3, ConstantsAssumption DEF TypeOK, Row, TipHeight, Template, Heights
  <2>5. NodeVerdict(b).height = rows[b].height
    BY <2>3, <2>4, VerdictFields DEF NodeVerdict, Statuses
  <2>6. \A c \in Ours : rows'[c].status # "none" => /\ rows[c].status # "none"
                                                    /\ rows'[c].height = rows[c].height
    BY <2>2, <2>3, <2>5 DEF TypeOK
  <2>7. \A i \in 1..Len(queue') : cand'[queue'[i][2]].pc # "idle"
    BY <2>1 DEF HeightInv
  <2>. QED
    BY <2>1, <2>6, <2>7, HeightFrame DEF InPass
<1>7. CASE TemplatesPass
  <2>1. /\ UNCHANGED <<chain, tmpl, last, job, cand, queue>> /\ pc = "templates" /\ pc' = "settle"
        /\ TipHeight \in Int
    BY <1>7, <1>n DEF TemplatesPass, poolVars, nodeVars, TipHeight
  <2>2. \A c \in Ours : rows'[c] = rows[c] \/ rows'[c] = FromTemplates(c, TipHeight)
    BY <1>7 DEF TemplatesPass
  <2>3. \A c \in Ours : rows'[c].status # "none" => /\ rows[c].status # "none"
                                                    /\ rows'[c].height = rows[c].height
    BY <2>1, <2>2, FromTemplatesCases
  <2>4. \A i \in 1..Len(queue') : cand'[queue'[i][2]].pc # "idle"
    BY <2>1 DEF HeightInv
  <2>. QED
    BY <2>1, <2>3, <2>4, HeightFrame DEF InPass
<1>8. CASE DistributeOne
  <2>1. /\ UNCHANGED <<chain, tmpl, last, job, cand, queue, pc>>
        /\ \E b \in Ours : rows' = [rows EXCEPT ![b].dist = TRUE]
    BY <1>8 DEF DistributeOne, Due, poolVars, nodeVars, tipVars
  <2>2. \A c \in Ours : rows'[c].status = rows[c].status /\ rows'[c].height = rows[c].height
    <3>1. rows \in [Ours -> Row]
      BY DEF TypeOK
    <3>. QED
      BY <2>1, <3>1, LatchKeeps
  <2>3. \A i \in 1..Len(queue') : cand'[queue'[i][2]].pc # "idle"
    BY <2>1 DEF HeightInv
  <2>. QED
    BY <2>1, <2>2, <2>3, HeightFrame DEF InPass
<1>9. CASE Build
  <2>1. /\ last' = tmpl /\ job' = tmpl.height /\ pc = "build" /\ pc' = "poll"
        /\ UNCHANGED <<chain, tmpl, cand, rows, queue>>
    BY <1>9 DEF Build, nodeVars
  <2>2. \A c \in Ours : cand[c].height <= tmpl.height
    BY <1>n, <2>1 DEF HeightInv, InPass
  <2>. QED
    BY <1>n, <2>1, <2>2 DEF HeightInv, InPass, Current, Tip
<1>10. CASE Crash
  <2>1. /\ UNCHANGED <<chain, tmpl, rows>> /\ last' = NoTemplate /\ job' = 0 /\ pc' = "down"
        /\ queue' = <<>>
    BY <1>10 DEF Crash, nodeVars, dbVars
  <2>2. \A c \in Ours : cand'[c].height = cand[c].height /\ (cand'[c].pc # "idle" <=> cand[c].pc # "idle")
    BY <1>10 DEF Crash, TypeOK, Cand
  <2>3. last'.height = 0
    BY <2>1 DEF NoTemplate
  <2>4. (Current(tmpl))' /\ (Current(last))'
    BY <1>n, <2>1, <2>3 DEF HeightInv, Current, Tip
  <2>5. \A i : i \notin 1..Len(queue')
    BY <2>1
  <2>. QED
    BY <2>1, <2>2, <2>3, <2>4, <2>5 DEF HeightInv, InPass
<1>11. CASE Start
  <2>1. /\ tmpl' = [height |-> Len(chain) + 1, prev |-> Tip] /\ last' = tmpl'
        /\ job' = Len(chain) + 1 /\ pc' = "poll" /\ UNCHANGED <<chain, cand, queue>>
    BY <1>11 DEF Start, nodeVars
  <2>2. tmpl'.height = Len(chain) + 1 /\ tmpl'.prev = Tip
    BY <2>1
  <2>3. \A c \in Ours : rows'[c] = FromTemplates(c, Len(chain)) /\ Len(chain) \in Int
    BY <1>11, <1>n DEF Start
  <2>4. \A c \in Ours : rows'[c].status # "none" => /\ rows[c].status # "none"
                                                    /\ rows'[c].height = rows[c].height
    BY <2>3, FromTemplatesCases
  <2>. QED
    BY <1>n, <2>1, <2>2, <2>4 DEF HeightInv, InPass, Current, Tip
<1>12. CASE Quiet \/ UNCHANGED vars
  BY <1>12 DEF Quiet, vars, HeightInv, InPass, Current, Tip
<1>13. CASE List \/ CheckUnsupported \/ CheckFails \/ CheckDone \/ Settle
            \/ DistributeDone \/ BuildFails
  <2>1. UNCHANGED <<chain, tmpl, last, job, cand, rows, queue>>
    BY <1>13 DEF List, CheckUnsupported, CheckFails, CheckDone,
                 Settle, DistributeDone, BuildFails, dbVars, poolVars, nodeVars
  <2>2. InPass /\ pc # "down"
    BY <1>13 DEF List, CheckUnsupported, CheckFails, CheckDone,
                 Settle, DistributeDone, BuildFails, InPass
  <2>3. \A i \in 1..Len(queue') : cand'[queue'[i][2]].pc # "idle"
    BY <2>1 DEF HeightInv
  <2>. QED
    BY <2>1, <2>2, <2>3, HeightFrame
<1>. QED
  BY <1>1, <1>2, <1>3, <1>4, <1>5, <1>6, <1>7, <1>8, <1>9, <1>10, <1>11, <1>12, <1>13
     DEF Next, Submit, Watcher

\* Heights are in line on every behaviour.
LEMMA HeightInvariant == Spec => [](TypeOK /\ TodoInv /\ HeightInv)
<1>1. Init => TypeOK /\ TodoInv /\ HeightInv
  <2>1. ASSUME Init PROVE HeightInv
    BY <2>1 DEF Init, HeightInv, Current, InPass, NoTemplate, NoRow
  <2>. QED
    BY <2>1, TypeInit
<1>2. TypeOK /\ TodoInv /\ HeightInv /\ [Next]_vars => TypeOK' /\ TodoInv' /\ HeightInv'
  BY TypeStep, TodoStep, HeightStep
<1>. QED
  BY <1>1, <1>2, PTL DEF Spec
-----------------------------------------------------------------------------
(* No confirmed row is left behind by a pass. *)

\* The row has the depth of the polled tip, or one that is final.
FreshRow(b) == \/ rows[b].confs = TipHeight - rows[b].height + 1
               \/ rows[b].confs >= FinalDepth

\* Why ConfirmedRowsFresh holds: while the pass checks, what is not fresh is
\* still to be checked; after that everything is fresh.
FreshInv ==
    /\ gbh # -1
    /\ pc = "check" =>
         \A b \in Ours : rows[b].status = "confirmed" => b \in todo \/ FreshRow(b)
    /\ pc \in {"templates", "settle", "distribute", "build"} =>
         \A b \in Ours : rows[b].status = "confirmed" => FreshRow(b)

\* The columns that order the list are numbers.
LEMMA ShallowNumbers ==
    ASSUME TypeOK, NEW b \in Shallow
    PROVE  b \in Ours /\ rows[b].height \in Int /\ rows[b].id \in Int
<1>1. b \in Ours
  BY DEF Shallow
<1>2. rows[b] \in Row
  BY <1>1 DEF TypeOK
<1>3. rows[b].height \in Heights /\ rows[b].id \in Nat
  BY <1>2 DEF Row
<1>4. \A h \in Heights : h \in Int
  BY ConstantsAssumption DEF Heights
<1>5. rows[b].height \in Int
  BY ONLY <1>3, <1>4
<1>6. rows[b].id \in Int
  BY ONLY <1>3
<1>. QED
  BY <1>1, <1>5, <1>6

\* With a cap no smaller than the number of candidates nothing is left out of
\* store_list_unresolved_blocks.
LEMMA ListedAll ==
    ASSUME TypeOK, MaxPerTick >= Cardinality(Ours)
    PROVE  Listed = Shallow
<1>1. ASSUME NEW b \in Shallow
      PROVE  Cardinality({a \in Shallow : Newer(a, b)}) < MaxPerTick
  <2>. DEFINE A == {a \in Shallow : Newer(a, b)}
  <2>1. b \in Ours /\ b \notin A
    <3>1. b \in Ours /\ rows[b].height \in Int /\ rows[b].id \in Int
      BY <1>1, ShallowNumbers
    <3>. QED
      BY <3>1 DEF Newer
  <2>2. A \in SUBSET (Ours \ {b})
    BY <2>1 DEF Shallow
  <2>. HIDE DEF A
  <2>3. IsFiniteSet(Ours) /\ Cardinality(Ours) \in Nat
    BY ConstantsAssumption, FS_CardinalityType
  <2>4. IsFiniteSet(Ours \ {b}) /\ Cardinality(Ours \ {b}) = Cardinality(Ours) - 1
    BY <2>1, <2>3, FS_RemoveElement
  <2>5. Cardinality(A) <= Cardinality(Ours \ {b}) /\ Cardinality(A) \in Nat
    BY <2>2, <2>4, FS_Subset, FS_CardinalityType
  <2>6. Cardinality(A) < MaxPerTick
    BY <2>3, <2>4, <2>5, ConstantsAssumption
  <2>. QED
    BY <2>6 DEF A
<1>. QED
  BY <1>1 DEF Listed

\* Steps that change no verdict and stay in the same part of a pass.
LEMMA FreshFrame ==
    ASSUME FreshInv, UNCHANGED <<tmpl, pc, gbh, todo>>,
           \A b \in Ours : rows'[b].status = "confirmed" =>
               /\ rows[b].status = "confirmed"
               /\ rows'[b].confs = rows[b].confs /\ rows'[b].height = rows[b].height
    PROVE  FreshInv'
BY DEF FreshInv, FreshRow, TipHeight

\* Every step of a pass leaves what it judged fresh.
LEMMA FreshStep ==
    ASSUME ServesGetBlockHash, ~RpcMayFail, ~DbMayFail,
           MaxPerTick >= Cardinality(Ours),
           TypeOK, TodoInv, HeightInv, HeightInv', FreshInv, [Next]_vars
    PROVE  FreshInv'
<1>1. CASE UNCHANGED <<rows, tmpl, pc, gbh, todo>>
  BY <1>1, FreshFrame
<1>2. CASE Commit
  <2>1. \A b \in Ours : rows'[b] = rows[b] \/ rows'[b] = NewRow(b)
    BY <1>2 DEF Commit, TypeOK
  <2>2. \A b \in Ours : NewRow(b).status # "confirmed"
    BY DEF NewRow
  <2>. QED
    BY <1>2, <2>1, <2>2, FreshFrame DEF Commit, tipVars
<1>3. CASE Poll
  <2>1. /\ UNCHANGED <<gbh, rows>> /\ pc' \in {"build", "list"}
        /\ (pc' = "build" => tmpl'.height = 1)
    BY <1>3 DEF Poll, dbVars, FreshInv, TypeOK
  <2>2. ASSUME pc' = "build", NEW b \in Ours PROVE rows'[b].status = "none"
    <3>1. last'.height < 1 /\ last'.height \in Nat
      BY <1>3, <2>1, <2>2, HeightNats DEF HeightInv, InPass, Poll
    <3>2. cand'[b].height <= last'.height
      BY <2>2 DEF HeightInv
    <3>3. cand'[b].height \in Nat
      BY <1>3, HeightNats DEF Poll, poolVars
    <3>. QED
      BY <3>1, <3>2, <3>3 DEF HeightInv
  <2>. QED
    BY <2>1, <2>2 DEF FreshInv
<1>4. CASE List
  <2>1. /\ UNCHANGED <<gbh, rows, tmpl>> /\ pc = "list" /\ pc' = "check" /\ todo' = Shallow
    BY <1>4, ListedAll DEF List, dbVars
  <2>2. ASSUME NEW b \in Ours, rows[b].status = "confirmed", b \notin Shallow
        PROVE  rows[b].confs >= FinalDepth
    <3>1. rows[b].height <= TipHeight
      <4>1. rows[b].height = cand[b].height /\ cand[b].height <= last.height
        BY <2>1, <2>2 DEF HeightInv
      <4>2. last.height < tmpl.height
        BY <2>1 DEF HeightInv, InPass
      <4>. QED
        BY <4>1, <4>2, HeightNats DEF TipHeight
    <3>2. ~(rows[b].confs < FinalDepth)
      BY <2>2, <3>1 DEF Shallow
    <3>. QED
      BY <3>2, HeightNats, ConstantsAssumption
  <2>. QED
    BY <2>1, <2>2 DEF FreshInv, FreshRow
<1>5. CASE CheckOne
  <2>1. PICK b \in todo : rows' = [rows EXCEPT ![b] = NodeVerdict(b)] /\ todo' = todo \ {b}
    BY <1>5 DEF CheckOne
  <2>2. UNCHANGED <<tmpl, pc>> /\ gbh' = 1 /\ pc = "check"
    BY <1>5 DEF CheckOne
  <2>3. rows[b] \in Row /\ rows[b].height <= TipHeight /\ b \in Ours
    BY <2>1 DEF TodoInv, TypeOK
  <2>4. TipHeight - rows[b].height + 1 \in Nat
    BY <2>3, HeightNats DEF TipHeight
  <2>5. /\ NodeVerdict(b).height = rows[b].height
        /\ NodeVerdict(b).status = "confirmed"
             => NodeVerdict(b).confs = TipHeight - rows[b].height + 1
    BY <2>3, <2>4, VerdictFields DEF NodeVerdict, Statuses
  <2>6. rows'[b] = NodeVerdict(b) /\ \A c \in Ours \ {b} : rows'[c] = rows[c]
    BY <2>1, <2>3 DEF TypeOK
  <2>. QED
    BY <2>1, <2>2, <2>5, <2>6 DEF FreshInv, FreshRow, TipHeight
<1>6. CASE CheckDone
  BY <1>6 DEF CheckDone, FreshInv, FreshRow, TipHeight, dbVars
<1>7. CASE CheckUnsupported \/ CheckFails
  BY <1>7 DEF CheckUnsupported, CheckFails
<1>8. CASE TemplatesPass
  <2>1. /\ UNCHANGED <<tmpl, gbh>> /\ pc = "templates" /\ pc' = "settle"
        /\ \A b \in Ours : rows'[b] = FromTemplates(b, TipHeight)
    BY <1>8 DEF TemplatesPass
  <2>2. TipHeight \in Int
    BY HeightNats DEF TipHeight
  <2>3. ASSUME NEW b \in Ours, rows'[b].status = "confirmed" PROVE (FreshRow(b))'
    <3>1. \/ rows'[b] = rows[b]
          \/ rows'[b].confs = TipHeight - rows'[b].height + 1
      BY <2>1, <2>2, <2>3, FromTemplatesCases
    <3>. QED
      BY <2>1, <2>3, <3>1 DEF FreshInv, FreshRow, TipHeight
  <2>. QED
    BY <2>1, <2>3 DEF FreshInv
<1>9. CASE DistributeOne
  <2>1. /\ UNCHANGED <<tmpl, pc, gbh, todo>>
        /\ \E b \in Ours : rows' = [rows EXCEPT ![b].dist = TRUE]
    BY <1>9 DEF DistributeOne, Due, tipVars
  <2>2. rows \in [Ours -> Row]
    BY DEF TypeOK
  <2>3. \A c \in Ours : /\ rows'[c].status = rows[c].status
                        /\ rows'[c].height = rows[c].height
                        /\ rows'[c].confs = rows[c].confs
    BY <2>1, <2>2, LatchKeeps
  <2>. QED
    BY <2>1, <2>3, FreshFrame
<1>10. CASE Settle \/ DistributeDone
  <2>1. UNCHANGED <<rows, tmpl, gbh>> /\ pc \in {"settle", "distribute"}
        /\ pc' \in {"distribute", "build"}
    BY <1>10 DEF Settle, DistributeDone, dbVars
  <2>. QED
    BY <2>1 DEF FreshInv, FreshRow, TipHeight
<1>11. CASE Build \/ BuildFails \/ Crash \/ Start
  <2>1. pc' \in {"poll", "down"} /\ gbh' \in {gbh, 0}
    BY <1>11 DEF Build, BuildFails, Crash, Start
  <2>. QED
    BY <2>1 DEF FreshInv
<1>12. CASE Node
  BY <1>1, <1>12 DEF Node, Extend, Reorg, ReorgBack, dbVars, tipVars
<1>13. CASE \E b \in Ours : Submit(b)
  BY <1>1, <1>13 DEF Submit, SubmitBlock, RecordShare, StageFractions,
                     RecordBlock, dbVars, tipVars
<1>14. CASE LoseBatch \/ Quiet \/ UNCHANGED vars
  BY <1>1, <1>14 DEF LoseBatch, Quiet, vars, dbVars, tipVars
<1>. QED
  BY <1>2, <1>3, <1>4, <1>5, <1>6, <1>7, <1>8, <1>9, <1>10, <1>11, <1>12, <1>13, <1>14
     DEF Next, Writer, Watcher

\* When the pass over a new tip is over, every confirmed row has the depth of
\* that tip or a final one (reconcile.c, store_list_unresolved_blocks): with a
\* node that answers getblockhash, no failing RPC or transaction, and no more
\* candidates than one tick checks; over restarts and reorganisations.
THEOREM ConfirmedRowsAreFresh ==
    ASSUME ServesGetBlockHash, ~RpcMayFail, ~DbMayFail,
           MaxPerTick >= Cardinality(Ours)
    PROVE  Spec => []ConfirmedRowsFresh
<1>1. Init => FreshInv
  BY DEF Init, FreshInv
<1>2. /\ TypeOK /\ TodoInv /\ HeightInv /\ FreshInv /\ [Next]_vars
      /\ TypeOK' /\ TodoInv' /\ HeightInv'
      => FreshInv'
  BY FreshStep
<1>3. FreshInv => ConfirmedRowsFresh
  BY DEF FreshInv, ConfirmedRowsFresh, FreshRow
<1>. QED
  BY <1>1, <1>2, <1>3, HeightInvariant, PTL DEF Spec
-----------------------------------------------------------------------------
(* What is credited stays in the chain. *)

\* A candidate so deep in the node's chain that no reorganisation reaches it.
Buried(b) == /\ cand[b].height >= 1
             /\ cand[b].height + MaxReorg <= Len(chain)
             /\ chain[cand[b].height] = b

\* Why PaidBlockInChain holds.  What is credited is buried, and so is what the
\* watcher counts as mature.
BuriedInv ==
    \A b \in Ours :
        /\ rows[b].status = "confirmed" /\ rows[b].confs >= Maturity => Buried(b)
        /\ paid[b] > 0 => Buried(b) /\ cand[b].pc # "idle"

\* An accepted block is on record before more than MaxLag blocks follow it.
FlightInv ==
    \A b \in Ours :
        cand[b].accepted /\ InFlight(b) => Len(chain) <= cand[b].height + MaxLag

\* Only before the node has first answered getblockhash does a pass end in the
\* templates; those are no newer than the current job.
ServedInv ==
    /\ gbh \in {0, 1}
    /\ pc = "templates" => gbh = 0
    /\ pc = "down" => \A b \in Ours : rows[b].status = "none"
    /\ \A h \in Heights : templates[h] # None => h <= last.height

\* Whatever is judged by the templates then is too young for the verdict to
\* make it mature - an older row would have been listed for getblockhash - and
\* an orphan is not revived.
YoungInv ==
    \A b \in Ours :
        /\ rows[b].status = "pending" => rows[b].confs = 0
        /\ gbh = 0 =>
             /\ rows[b].status = "confirmed" => rows[b].confs <= MaxLag + 1
             /\ rows[b].status = "orphaned" => /\ templates[rows[b].height + 1] # b
                                               /\ rows[b].height + 1 <= last.height
             /\ /\ pc = "templates" \/ (pc = "check" /\ todo = {})
                /\ rows[b].status \in {"pending", "confirmed"}
                => TipHeight <= rows[b].height + MaxLag

\* A pass that has something to check lists something: the newest row.
LEMMA SomethingListed ==
    ASSUME TypeOK, Shallow # {}
    PROVE  Listed # {}
<1>. DEFINE Before(b) == {a \in Shallow : Newer(a, b)}
            T == {Before(b) : b \in Shallow}
            R == StrictSubsetOrdering(Ours)
<1>1. ASSUME NEW b \in Shallow
      PROVE  b \in Ours /\ rows[b].height \in Int /\ rows[b].id \in Int
  BY ShallowNumbers
<1>2. T # {} /\ T \subseteq SUBSET Ours
  BY <1>1
<1>3. IsWellFoundedOn(R, SUBSET Ours)
  BY ConstantsAssumption, FS_StrictSubsetOrderingWellFounded, FS_FiniteSubsetsOfFinite
<1>. HIDE DEF R, T
<1>4. PICK x \in T : \A y \in T : ~(<<y, x>> \in R)
  BY <1>2, <1>3, WFMin
<1>5. PICK b \in Shallow : x = Before(b)
  BY <1>4 DEF T
<1>6. ASSUME NEW a \in Before(b) PROVE FALSE
  <2>1. a \in Shallow /\ Newer(a, b)
    OBVIOUS
  <2>2. Before(a) \subseteq Before(b)
    <3>1. ASSUME NEW c \in Shallow, Newer(c, a) PROVE Newer(c, b)
      BY <1>1, <2>1, <3>1 DEF Newer
    <3>. QED
      BY <3>1
  <2>3. a \notin Before(a)
    BY <1>1, <2>1 DEF Newer
  <2>4. Before(a) \in T /\ Before(a) \subseteq x /\ Before(a) # x
    BY <1>5, <2>1, <2>2, <2>3 DEF T
  <2>5. Before(a) \in SUBSET Ours /\ x \in SUBSET Ours
    BY <1>2, <1>4, <2>4
  <2>6. <<Before(a), x>> \in R
    BY <2>4, <2>5 DEF R, StrictSubsetOrdering
  <2>. QED
    BY <1>4, <2>4, <2>6
<1>7. Before(b) = {}
  BY <1>6
<1>8. Cardinality(Before(b)) = 0
  BY <1>7, FS_EmptySet
<1>9. b \in Listed
  BY <1>5, <1>8, ConstantsAssumption DEF Listed
<1>. QED
  BY <1>9

\* What is buried stays buried.
LEMMA BuriedStable ==
    ASSUME TypeOK, [Next]_vars, NEW b \in Ours, Buried(b),
           cand'[b].height = cand[b].height
    PROVE  (Buried(b))'
<1>1. Len(chain) \in Nat /\ cand[b].height \in Nat /\ MaxReorg \in Nat /\ chain \in Seq(Blocks)
  BY HeightNats, ConstantsAssumption DEF TypeOK
<1>2. CASE UNCHANGED chain
  BY <1>2 DEF Buried
<1>3. CASE Node
  <2>1. chain'[cand[b].height] = chain[cand[b].height]
    BY <1>1, <1>3, NodeKeepsDeep DEF Buried
  <2>2. Len(chain') = Len(chain) + 1
    BY <1>3, NodeGrows
  <2>. QED
    BY <1>1, <2>1, <2>2 DEF Buried
<1>4. ASSUME NEW c \in Ours, SubmitBlock(c) PROVE (Buried(b))'
  <2>1. \/ chain' = chain
        \/ chain' = Append(chain, c)
    BY <1>4 DEF SubmitBlock
  <2>2. cand[b].height \in 1..Len(chain)
    BY <1>1 DEF Buried
  <2>3. /\ chain'[cand[b].height] = chain[cand[b].height] /\ Len(chain') >= Len(chain)
        /\ Len(chain') \in Nat
    BY <1>1, <2>1, <2>2 DEF Blocks
  <2>. QED
    BY <1>1, <2>3 DEF Buried
<1>5. CASE Writer \/ Watcher \/ Crash \/ Start \/ Quiet \/ UNCHANGED vars
  <2>1. UNCHANGED chain
    BY <1>5 DEF Writer, Commit, LoseBatch, Watcher, Poll, List, CheckOne, CheckUnsupported,
       CheckFails, CheckDone, TemplatesPass, Settle, DistributeOne, DistributeDone,
       Build, BuildFails, Crash, Start, Quiet, vars, nodeVars
  <2>. QED
    BY <1>2, <2>1
<1>6. ASSUME NEW c \in Ours, RecordShare(c) \/ StageFractions(c) \/ RecordBlock(c)
      PROVE  (Buried(b))'
  BY <1>2, <1>6 DEF RecordShare, StageFractions, RecordBlock, nodeVars
<1>. QED
  BY <1>3, <1>4, <1>5, <1>6 DEF Next, Submit

\* A candidate that is not idle any more keeps its height and its answer.
LEMMA CandStable ==
    ASSUME TypeOK, [Next]_vars, NEW b \in Ours, cand[b].pc # "idle"
    PROVE  /\ cand'[b].height = cand[b].height /\ cand'[b].accepted = cand[b].accepted
           /\ cand'[b].pc # "idle"
<1>1. CASE UNCHANGED cand
  BY <1>1
<1>2. ASSUME NEW c \in Ours, SubmitBlock(c)
      PROVE  /\ cand'[b].height = cand[b].height /\ cand'[b].accepted = cand[b].accepted
             /\ cand'[b].pc # "idle"
  <2>1. cand'[b] = cand[b]
    BY <1>2 DEF SubmitBlock, TypeOK
  <2>. QED
    BY <2>1
<1>3. ASSUME NEW c \in Ours, RecordShare(c) \/ StageFractions(c) \/ RecordBlock(c)
      PROVE  /\ cand'[b].height = cand[b].height /\ cand'[b].accepted = cand[b].accepted
             /\ cand'[b].pc # "idle"
  BY <1>3, ThreadKeeps
<1>4. CASE Crash
  BY <1>4 DEF Crash, TypeOK, Cand
<1>5. CASE Node \/ Writer \/ Watcher \/ Start \/ Quiet \/ UNCHANGED vars
  <2>1. UNCHANGED cand
    BY <1>5 DEF Node, Extend, Reorg, ReorgBack, Writer, Commit, LoseBatch, Watcher, Poll,
       List, CheckOne, CheckUnsupported, CheckFails, CheckDone, TemplatesPass, Settle,
       DistributeOne, DistributeDone, Build, BuildFails, Start, Quiet, vars, poolVars
  <2>. QED
    BY <2>1
<1>. QED
  BY <1>2, <1>3, <1>4, <1>5 DEF Next, Submit
\* Every step that makes the chain longer waits for the blocks in flight.
LEMMA FlightStep ==
    ASSUME MaxCrashes = 0, TypeOK, FlightInv, [Next]_vars
    PROVE  FlightInv'
<1>n. /\ Len(chain) \in Nat /\ MaxLag \in Nat /\ MaxLag > 0 /\ queue \in Seq(Event)
      /\ \A b \in Ours : cand[b].height \in Nat
  BY HeightNats, ConstantsAssumption DEF TypeOK
<1>1. CASE UNCHANGED <<cand, queue, chain>>
  BY <1>1 DEF FlightInv, InFlight
<1>2. CASE Node
  <2>1. CanGrow /\ Len(chain') = Len(chain) + 1 /\ UNCHANGED <<cand, queue>>
    BY <1>2, NodeGrows DEF Node, Extend, Reorg, ReorgBack, poolVars
  <2>. QED
    BY <1>n, <2>1 DEF CanGrow, FlightInv, InFlight
<1>3. ASSUME NEW b \in Ours, SubmitBlock(b) PROVE FlightInv'
  <2>1. /\ UNCHANGED queue
        /\ \A c \in Ours \ {b} : cand'[c] = cand[c]
        /\ cand'[b].height = job
    BY <1>3 DEF SubmitBlock, TypeOK
  <2>2. CASE chain' = Append(chain, b) /\ job = Len(chain) + 1 /\ CanGrow
    <3>1. Len(chain') = Len(chain) + 1
      BY <2>2 DEF TypeOK, Blocks
    <3>. QED
      BY <1>n, <2>1, <2>2, <3>1 DEF CanGrow, FlightInv, InFlight
  <2>3. CASE chain' = chain /\ ~cand'[b].accepted
    BY <2>1, <2>3 DEF FlightInv, InFlight
  <2>4. (chain' = Append(chain, b) /\ job = Len(chain) + 1 /\ CanGrow)
        \/ (chain' = chain /\ ~cand'[b].accepted)
    BY <1>3 DEF SubmitBlock, TypeOK
  <2>. QED
    BY <2>2, <2>3, <2>4
<1>4. ASSUME NEW b \in Ours, RecordShare(b) \/ StageFractions(b) \/ RecordBlock(b)
      PROVE  FlightInv'
  <2>1. UNCHANGED chain
    BY <1>4 DEF RecordShare, StageFractions, RecordBlock, nodeVars
  <2>2. \A c \in Ours : /\ cand'[c].height = cand[c].height
                        /\ cand'[c].accepted = cand[c].accepted
                        /\ cand'[c].pc = cand[c].pc \/ c = b
                        /\ cand[b].pc \in {"submitted", "shared", "staged"}
    BY <1>4, ThreadKeeps
  <2>3. UNCHANGED queue \/ Enqueue(<<"share", b>>) \/ Enqueue(<<"block", b>>)
    BY <1>4 DEF RecordShare, StageFractions, RecordBlock
  <2>4. queue' = queue \/ queue' = Append(queue, <<"share", b>>) \/ queue' = Append(queue, <<"block", b>>)
    BY <2>3 DEF Enqueue
  <2>5. ASSUME NEW c \in Ours, c # b, NEW i \in DOMAIN queue', queue'[i] = <<"block", c>>
        PROVE  i \in DOMAIN queue /\ queue[i] = <<"block", c>>
    <3>1. CASE queue' = queue
      BY <2>5, <3>1
    <3>2. ASSUME NEW ev \in Event, ev # <<"block", c>>, queue' = Append(queue, ev)
          PROVE  i \in DOMAIN queue /\ queue[i] = <<"block", c>>
      <4>1. /\ Len(queue') = Len(queue) + 1 /\ Len(queue) \in Nat
            /\ queue'[Len(queue) + 1] = ev
            /\ \A j \in 1..Len(queue) : queue'[j] = queue[j]
        BY <1>n, <3>2, QueueAppend
      <4>2. DOMAIN queue = 1..Len(queue) /\ DOMAIN queue' = 1..Len(queue')
        BY <1>n, <3>2
      <4>3. i # Len(queue) + 1
        BY <2>5, <3>2, <4>1
      <4>4. i \in 1..Len(queue)
        BY <4>1, <4>2, <4>3
      <4>. QED
        BY <2>5, <4>1, <4>2, <4>4
    <3>3. /\ <<"share", b>> \in Event /\ <<"block", b>> \in Event
          /\ <<"share", b>> # <<"block", c>> /\ <<"block", b>> # <<"block", c>>
      BY <2>5 DEF Event
    <3>. QED
      BY <2>4, <3>1, <3>2, <3>3
  <2>6. ASSUME NEW c \in Ours, (InFlight(c))' PROVE InFlight(c)
    <3>1. CASE c = b
      BY <2>2, <3>1 DEF InFlight
    <3>2. CASE c # b
      BY <2>2, <2>5, <2>6, <3>2 DEF InFlight
    <3>. QED
      BY <3>1, <3>2
  <2>. QED
    BY <2>1, <2>2, <2>6 DEF FlightInv
<1>5. CASE Writer
  <2>1. queue # <<>> /\ queue' = Tail(queue) /\ UNCHANGED <<cand, chain>>
    BY <1>5 DEF Writer, Commit, LoseBatch, nodeVars
  <2>2. \A i \in DOMAIN queue' : i + 1 \in DOMAIN queue /\ queue'[i] = queue[i + 1]
    BY <1>n, <2>1, HeadTailProperties
  <2>3. ASSUME NEW c \in Ours, (InFlight(c))' PROVE InFlight(c)
    BY <2>1, <2>2, <2>3 DEF InFlight
  <2>. QED
    BY <2>1, <2>3 DEF FlightInv
<1>6. CASE Watcher \/ Start \/ Quiet \/ UNCHANGED vars
  <2>1. UNCHANGED <<cand, queue, chain>>
    BY <1>6 DEF Watcher, Poll, List, CheckOne, CheckUnsupported,
       CheckFails, CheckDone, TemplatesPass, Settle, DistributeOne, DistributeDone,
       Build, BuildFails, Start, Quiet, vars, nodeVars, poolVars
  <2>. QED
    BY <1>1, <2>1
<1>7. ~Crash
  BY DEF Crash, TypeOK
<1>. QED
  BY <1>2, <1>3, <1>4, <1>5, <1>6, <1>7 DEF Next, Submit

\* Templates serve until getblockhash has answered once, and no row is on
\* record before the process first starts.
LEMMA ServedStep ==
    ASSUME MaxCrashes = 0, ServesGetBlockHash,
           TypeOK, HeightInv, ServedInv, [Next]_vars
    PROVE  ServedInv'
<1>1. CASE UNCHANGED <<gbh, pc, rows, templates, last>>
  BY <1>1 DEF ServedInv
<1>2. CASE Commit
  BY <1>2 DEF Commit, Up, tipVars, ServedInv
<1>3. CASE Poll \/ List \/ CheckFails \/ CheckDone \/ Settle \/ DistributeDone \/ BuildFails
  <2>1. UNCHANGED <<gbh, templates, last>> /\ pc' # "down" /\ (pc' = "templates" => gbh <= 0)
    BY <1>3 DEF Poll, List, CheckFails, CheckDone, Settle, DistributeDone, BuildFails,
                dbVars, ServedInv
  <2>. QED
    BY <2>1 DEF ServedInv
<1>4. CASE CheckOne
  BY <1>4 DEF CheckOne, ServedInv
<1>5. CASE TemplatesPass
  BY <1>5 DEF TemplatesPass, ServedInv
<1>6. CASE DistributeOne
  BY <1>6 DEF DistributeOne, tipVars, ServedInv
<1>7. CASE Build \/ Start
  <2>1. /\ last' = tmpl' /\ UNCHANGED gbh /\ pc' = "poll"
        /\ templates' = [h \in Heights |-> IF h = tmpl'.height THEN tmpl'.prev
                                           ELSE IF h + Keep < tmpl'.height THEN None
                                           ELSE templates[h]]
    BY <1>7 DEF Build, Start, RecordTemplate
  <2>2. last.height <= tmpl'.height /\ tmpl'.height \in Nat /\ last.height \in Nat
    <3>1. CASE Build
      BY <3>1, HeightNats DEF Build, HeightInv, InPass
    <3>2. CASE Start
      <4>1. tmpl'.height = Len(chain) + 1
        BY <3>2 DEF Start
      <4>. QED
        BY <4>1, HeightNats DEF HeightInv, Current
    <3>. QED
      BY <1>7, <3>1, <3>2
  <2>3. \A h \in Heights : h \in Nat
    BY ConstantsAssumption DEF Heights
  <2>4. ASSUME NEW h \in Heights, templates'[h] # None PROVE h <= last'.height
    BY <2>1, <2>2, <2>3, <2>4 DEF ServedInv
  <2>. QED
    BY <2>1, <2>4 DEF ServedInv
<1>8. ~CheckUnsupported /\ ~Crash
  BY DEF CheckUnsupported, Crash, TypeOK
<1>9. CASE Node
  BY <1>1, <1>9 DEF Node, Extend, Reorg, ReorgBack, dbVars, tipVars
<1>10. CASE \E b \in Ours : Submit(b)
  BY <1>1, <1>10 DEF Submit, SubmitBlock, RecordShare, StageFractions,
                     RecordBlock, dbVars, tipVars
<1>11. CASE LoseBatch \/ Quiet \/ UNCHANGED vars
  BY <1>1, <1>11 DEF LoseBatch, Quiet, vars, dbVars, tipVars
<1>. QED
  BY <1>2, <1>3, <1>4, <1>5, <1>6, <1>7, <1>8, <1>9, <1>10, <1>11
     DEF Next, Writer, Watcher
\* Steps that change no verdict and stay in the same part of a pass.
LEMMA YoungFrame ==
    ASSUME YoungInv, UNCHANGED <<tmpl, pc, gbh, todo, templates, last, rows>>
    PROVE  YoungInv'
BY DEF YoungInv, TipHeight

\* Steps out of the pass's checks, or that leave everything to be checked.
LEMMA YoungFrameOut ==
    ASSUME YoungInv, UNCHANGED <<gbh, templates, last>>,
           pc' # "templates", pc' = "check" => todo' # {},
           \A b \in Ours : /\ rows'[b].status = rows[b].status
                           /\ rows'[b].confs = rows[b].confs
                           /\ rows'[b].height = rows[b].height
    PROVE  YoungInv'
BY DEF YoungInv

\* Every step keeps what the templates may judge young.
LEMMA YoungStep ==
    ASSUME MaxCrashes = 0, ServesGetBlockHash, MaxLag + 1 < FinalDepth,
           TypeOK, TodoInv, HeightInv, FlightInv, ServedInv, YoungInv, [Next]_vars
    PROVE  YoungInv'
<1>n. /\ Len(chain) \in Nat /\ MaxLag \in Nat /\ FinalDepth \in Nat
      /\ tmpl.height \in Nat /\ last.height \in Nat
      /\ \A b \in Ours : cand[b].height \in Nat /\ rows[b].height \in Nat /\ rows[b].confs \in Nat
  BY HeightNats, ConstantsAssumption
<1>t. TipHeight \in Int /\ TipHeight <= Len(chain)
  BY <1>n DEF TipHeight, HeightInv, Current
<1>h. ASSUME NEW b \in Ours, rows[b].status # "none", InPass PROVE rows[b].height <= TipHeight
  <2>1. rows[b].height = cand[b].height /\ cand[b].height <= last.height /\ last.height < tmpl.height
    BY <1>h DEF HeightInv, InPass
  <2>. QED
    BY <1>n, <2>1 DEF TipHeight
<1>1. CASE Commit
  <2>1. /\ UNCHANGED <<tmpl, pc, gbh, todo, templates, last, cand>> /\ queue # <<>>
    BY <1>1 DEF Commit, tipVars
  <2>2. \/ UNCHANGED rows
        \/ /\ Head(queue)[1] = "block"
           /\ rows' = [rows EXCEPT ![Head(queue)[2]] =
                         IF @.status = "none" THEN NewRow(Head(queue)[2]) ELSE @]
    BY <1>1 DEF Commit
  <2>3. CASE UNCHANGED rows
    BY <2>1, <2>3, YoungFrame
  <2>4. CASE /\ Head(queue)[1] = "block"
             /\ rows' = [rows EXCEPT ![Head(queue)[2]] =
                           IF @.status = "none" THEN NewRow(Head(queue)[2]) ELSE @]
    <3>. DEFINE b == Head(queue)[2]
    <3>1. /\ Head(queue) = queue[1] /\ queue[1] \in Event /\ 1 \in DOMAIN queue
      BY <2>1 DEF TypeOK
    <3>2. b \in Ours /\ queue[1] = <<"block", b>>
      BY <2>4, <3>1 DEF Event
    <3>3. InFlight(b)
      BY <3>1, <3>2 DEF InFlight
    <3>4. /\ NewRow(b).status \in {"pending", "rejected"} /\ NewRow(b).confs = 0
          /\ NewRow(b).height = cand[b].height
          /\ NewRow(b).status = "pending" => cand[b].accepted
      BY DEF NewRow
    <3>5. NewRow(b).status = "pending" => TipHeight <= NewRow(b).height + MaxLag
      BY <1>n, <1>t, <3>2, <3>3, <3>4 DEF FlightInv
    <3>6. /\ rows'[b] = rows[b] \/ rows'[b] = NewRow(b)
          /\ \A c \in Ours \ {b} : rows'[c] = rows[c]
      BY <2>4, <3>2 DEF TypeOK
    <3>7. ASSUME NEW c \in Ours
          PROVE  rows'[c] = rows[c] \/ rows'[c] = NewRow(b)
      BY <3>6
    <3>. HIDE DEF b
    <3>8. TipHeight' = TipHeight
      BY <2>1 DEF TipHeight
    <3>. QED
      BY <2>1, <3>4, <3>5, <3>7, <3>8 DEF YoungInv
  <2>. QED
    BY <2>2, <2>3, <2>4
<1>2. CASE Poll \/ Settle \/ DistributeDone \/ BuildFails \/ CheckFails
  <2>1. UNCHANGED <<gbh, templates, last, rows>> /\ pc' \notin {"templates", "check"}
    BY <1>2 DEF Poll, Settle, DistributeDone, BuildFails, CheckFails, dbVars, ServedInv
  <2>. QED
    BY <2>1, YoungFrameOut
<1>3. CASE List
  <2>1. /\ UNCHANGED <<tmpl, gbh, templates, last, rows>> /\ pc = "list" /\ pc' = "check"
        /\ todo' = Listed
    BY <1>3 DEF List, dbVars
  <2>2. CASE Listed # {}
    BY <2>1, <2>2, YoungFrameOut
  <2>3. CASE Listed = {}
    <3>1. Shallow = {}
      BY <2>3, SomethingListed
    <3>2. ASSUME gbh = 0, NEW b \in Ours, rows[b].status \in {"pending", "confirmed"}
          PROVE  FALSE
      <4>1. rows[b].confs < FinalDepth
        BY <1>n, <3>2 DEF YoungInv
      <4>2. rows[b].height <= TipHeight
        BY <1>h, <2>1, <3>2 DEF InPass
      <4>. QED
        BY <3>1, <3>2, <4>1, <4>2 DEF Shallow
    <3>. QED
      BY <2>1, <3>2 DEF YoungInv
  <2>. QED
    BY <2>2, <2>3
<1>4. CASE CheckOne
  <2>1. PICK b \in todo : rows' = [rows EXCEPT ![b] = NodeVerdict(b)] \/ UNCHANGED rows
    BY <1>4 DEF CheckOne
  <2>2. gbh' = 1
    BY <1>4 DEF CheckOne
  <2>3. rows[b] \in Row /\ rows[b].height <= TipHeight /\ b \in Ours
    BY <2>1 DEF TodoInv, TypeOK
  <2>4. TipHeight - rows[b].height + 1 \in Nat
    BY <1>n, <1>t, <2>3
  <2>5. NodeVerdict(b).status # "pending"
    BY <2>3, <2>4, VerdictFields DEF NodeVerdict, Statuses
  <2>6. \A c \in Ours : rows'[c] = rows[c] \/ rows'[c] = NodeVerdict(b)
    BY <2>1, <2>3 DEF TypeOK
  <2>. QED
    BY <2>2, <2>5, <2>6 DEF YoungInv
<1>5. CASE CheckDone
  <2>1. /\ UNCHANGED <<tmpl, gbh, templates, last, rows>> /\ pc = "check" /\ todo = {}
        /\ pc' \in {"settle", "templates"}
    BY <1>5 DEF CheckDone, dbVars
  <2>. QED
    BY <2>1 DEF YoungInv, TipHeight
<1>6. CASE TemplatesPass
  <2>1. /\ UNCHANGED <<tmpl, gbh, templates, last>> /\ pc = "templates" /\ pc' = "settle"
        /\ gbh = 0
        /\ \A b \in Ours : rows'[b] = rows[b] \/ rows'[b] = FromTemplates(b, TipHeight)
    BY <1>6 DEF TemplatesPass, ServedInv
  <2>2. ASSUME NEW b \in Ours
        PROVE  /\ rows'[b].status = "pending" => rows'[b].confs = 0
               /\ rows'[b].status = "confirmed" => rows'[b].confs <= MaxLag + 1
               /\ rows'[b].status = "orphaned" => /\ templates[rows'[b].height + 1] # b
                                                  /\ rows'[b].height + 1 <= last.height
    <3>1. CASE rows'[b] = rows[b]
      BY <2>1, <3>1 DEF YoungInv
    <3>2. CASE rows'[b] # rows[b]
      <4>0. /\ rows[b].status \in Statuses
            /\ rows'[b].height = rows[b].height
        BY <1>t, <2>1, <3>2, FromTemplatesCases DEF TypeOK, Row
      <4>1. /\ rows[b].status \notin {"none", "rejected"}
            /\ \/ /\ rows'[b].status = "orphaned"
                  /\ rows[b].height > TipHeight \/ templates[rows[b].height + 1] \notin {None, b}
               \/ /\ rows'[b].status = "confirmed"
                  /\ templates[rows[b].height + 1] = b
                  /\ rows'[b].confs = TipHeight - rows[b].height + 1
        BY <1>t, <2>1, <3>2, FromTemplatesCases
      <4>2. rows[b].height <= TipHeight /\ ~(rows[b].height > TipHeight)
        BY <1>h, <1>n, <1>t, <2>1, <4>1 DEF InPass
      <4>3. CASE rows'[b].status = "confirmed"
        <5>1. rows[b].status # "orphaned"
          BY <2>1, <4>1, <4>3 DEF YoungInv
        <5>2. rows[b].status \in {"pending", "confirmed"}
          BY <4>0, <4>1, <5>1 DEF Statuses
        <5>3. TipHeight <= rows[b].height + MaxLag
          BY <2>1, <5>2 DEF YoungInv
        <5>. QED
          BY <1>n, <1>t, <4>1, <4>3, <5>3
      <4>4. CASE rows'[b].status = "orphaned"
        <5>1. templates[rows[b].height + 1] \notin {None, b}
          BY <4>1, <4>2, <4>4
        <5>2. rows[b].height + 1 \in Heights
          <6>1. tmpl.height <= MaxHeight + 1 /\ MaxHeight \in Nat
            BY ConstantsAssumption DEF TypeOK, Template, Heights
          <6>. QED
            BY <1>n, <4>2, <6>1 DEF TipHeight, Heights
        <5>3. rows[b].height + 1 <= last.height
          BY <5>1, <5>2 DEF ServedInv
        <5>. QED
          BY <4>0, <4>4, <5>1, <5>3
      <4>. QED
        BY <4>1, <4>3, <4>4
    <3>. QED
      BY <3>1, <3>2
  <2>. QED
    BY <2>1, <2>2 DEF YoungInv
<1>7. CASE DistributeOne
  <2>1. /\ UNCHANGED <<tmpl, pc, gbh, todo, templates, last>> /\ pc = "distribute"
        /\ \E b \in Ours : rows' = [rows EXCEPT ![b].dist = TRUE]
    BY <1>7 DEF DistributeOne, Due, tipVars
  <2>2. rows \in [Ours -> Row]
    BY DEF TypeOK
  <2>3. \A c \in Ours : /\ rows'[c].status = rows[c].status
                        /\ rows'[c].height = rows[c].height
                        /\ rows'[c].confs = rows[c].confs
    BY <2>1, <2>2, LatchKeeps
  <2>. QED
    BY <2>1, <2>3, YoungFrameOut
<1>8. CASE Build
  <2>1. /\ last' = tmpl /\ UNCHANGED <<tmpl, gbh, rows>> /\ pc' = "poll" /\ pc = "build"
        /\ templates' = [h \in Heights |-> IF h = tmpl.height THEN tmpl.prev
                                           ELSE IF h + Keep < tmpl.height THEN None
                                           ELSE templates[h]]
    BY <1>8 DEF Build, RecordTemplate
  <2>2. last.height < tmpl.height
    BY <2>1 DEF HeightInv, InPass
  <2>3. ASSUME gbh = 0, NEW b \in Ours, rows[b].status = "orphaned"
        PROVE  /\ templates'[rows[b].height + 1] # b
               /\ rows[b].height + 1 <= tmpl.height
    <3>1. templates[rows[b].height + 1] # b /\ rows[b].height + 1 <= last.height
      BY <2>3 DEF YoungInv
    <3>2. rows[b].height + 1 \in Heights /\ rows[b].height + 1 # tmpl.height
      <4>1. last.height <= MaxHeight + 1 /\ MaxHeight \in Nat
        BY ConstantsAssumption DEF TypeOK, Template, Heights
      <4>. QED
        BY <1>n, <2>2, <3>1, <4>1 DEF Heights
    <3>3. b # None
      BY ConstantsAssumption
    <3>. QED
      BY <1>n, <2>1, <2>2, <3>1, <3>2, <3>3
  <2>. QED
    BY <2>1, <2>3 DEF YoungInv
<1>9. CASE Start
  <2>1. pc = "down" /\ \A b \in Ours : rows[b].status = "none"
    BY <1>9 DEF Start, ServedInv
  <2>2. \A b \in Ours : rows'[b] = rows[b]
    BY <1>9, <2>1 DEF Start, FromTemplates
  <2>. QED
    BY <2>1, <2>2 DEF YoungInv
<1>10. ~CheckUnsupported /\ ~Crash
  BY DEF CheckUnsupported, Crash, TypeOK
<1>11. CASE Node
  BY <1>11, YoungFrame DEF Node, Extend, Reorg, ReorgBack, dbVars, tipVars
<1>12. CASE \E b \in Ours : Submit(b)
  BY <1>12, YoungFrame DEF Submit, SubmitBlock, RecordShare, StageFractions,
                     RecordBlock, dbVars, tipVars
<1>13. CASE LoseBatch \/ Quiet \/ UNCHANGED vars
  BY <1>13, YoungFrame DEF LoseBatch, Quiet, vars, dbVars, tipVars
<1>. QED
  BY <1>1, <1>2, <1>3, <1>4, <1>5, <1>6, <1>7, <1>8, <1>9, <1>10, <1>11, <1>12, <1>13
     DEF Next, Writer, Watcher

\* Every step credits and counts as mature only what is buried.
LEMMA BuriedStep ==
    ASSUME MaxCrashes = 0, ServesGetBlockHash, MaxReorg < Maturity, MaxLag + 1 < Maturity,
           TypeOK, TodoInv, HeightInv, ServedInv, YoungInv, BuriedInv, [Next]_vars
    PROVE  BuriedInv'
<1>n. /\ Len(chain) \in Nat /\ MaxLag \in Nat /\ Maturity \in Nat /\ MaxReorg \in Nat
      /\ tmpl.height \in Nat
      /\ \A b \in Ours : cand[b].height \in Nat /\ rows[b].height \in Nat /\ rows[b].confs \in Nat
  BY HeightNats, ConstantsAssumption
<1>t. TipHeight \in Int /\ TipHeight <= Len(chain)
  BY <1>n DEF TipHeight, HeightInv, Current
<1>k. ASSUME NEW b \in Ours, Buried(b), cand[b].pc # "idle"
      PROVE  (Buried(b))' /\ cand'[b].pc # "idle"
  BY <1>k, CandStable, BuriedStable
<1>s. ASSUME NEW b \in Ours, rows[b].status # "none" PROVE cand[b].pc # "idle"
  BY <1>s DEF HeightInv
<1>p. ASSUME UNCHANGED paid, NEW b \in Ours, paid'[b] > 0
      PROVE  (Buried(b))' /\ cand'[b].pc # "idle"
  BY <1>k, <1>p DEF BuriedInv
<1>r. ASSUME NEW b \in Ours, rows'[b].status = "confirmed", rows'[b].confs >= Maturity,
             rows'[b].status = rows[b].status, rows'[b].confs = rows[b].confs
      PROVE  (Buried(b))'
  BY <1>k, <1>r, <1>s DEF BuriedInv
<1>1. CASE UNCHANGED <<rows, paid>>
  BY <1>1, <1>p, <1>r DEF BuriedInv
<1>2. CASE Commit
  <2>1. \A b \in Ours : rows'[b] = rows[b] \/ rows'[b] = NewRow(b)
    BY <1>2 DEF Commit, TypeOK
  <2>2. \A b \in Ours : NewRow(b).status # "confirmed"
    BY DEF NewRow
  <2>3. UNCHANGED paid
    BY <1>2 DEF Commit
  <2>4. \A b \in Ours : rows'[b].status = "confirmed" => rows'[b] = rows[b]
    BY <2>1, <2>2
  <2>. QED
    BY <1>p, <1>r, <2>3, <2>4 DEF BuriedInv
<1>3. CASE CheckOne
  <2>1. PICK b \in todo : rows' = [rows EXCEPT ![b] = NodeVerdict(b)] \/ UNCHANGED rows
    BY <1>3 DEF CheckOne
  <2>2. UNCHANGED <<paid, chain, cand>>
    BY <1>3 DEF CheckOne, poolVars, nodeVars
  <2>3. rows[b] \in Row /\ rows[b].height <= TipHeight /\ b \in Ours
        /\ rows[b].status # "none"
    BY <2>1 DEF TodoInv, TypeOK
  <2>4. TipHeight - rows[b].height + 1 \in Nat
    BY <1>n, <1>t, <2>3
  <2>5. \/ chain[rows[b].height] = b /\ NodeVerdict(b).confs = TipHeight - rows[b].height + 1
        \/ NodeVerdict(b).status = "orphaned"
    BY <2>3, <2>4, VerdictFields DEF NodeVerdict, Statuses
  <2>6. rows[b].height = cand[b].height /\ cand[b].height >= 1
    BY <2>3 DEF HeightInv
  <2>7. ASSUME NodeVerdict(b).status = "confirmed", NodeVerdict(b).confs >= Maturity
        PROVE  (Buried(b))'
    <3>1. chain[cand[b].height] = b /\ TipHeight - cand[b].height + 1 >= Maturity
      BY <2>5, <2>6, <2>7
    <3>2. cand[b].height + MaxReorg <= Len(chain)
      BY <1>n, <1>t, <2>3, <3>1
    <3>. QED
      BY <2>2, <2>6, <3>1, <3>2 DEF Buried
  <2>8. /\ rows'[b] = rows[b] \/ rows'[b] = NodeVerdict(b)
        /\ \A c \in Ours \ {b} : rows'[c] = rows[c]
    BY <2>1, <2>3 DEF TypeOK
  <2>9. ASSUME NEW c \in Ours, rows'[c].status = "confirmed", rows'[c].confs >= Maturity
        PROVE  (Buried(c))'
    BY <1>r, <2>7, <2>8, <2>9
  <2>. QED
    BY <1>p, <2>2, <2>9 DEF BuriedInv
<1>4. CASE TemplatesPass
  <2>1. /\ UNCHANGED paid /\ gbh = 0 /\ pc = "templates"
        /\ \A b \in Ours : rows'[b] = rows[b] \/ rows'[b] = FromTemplates(b, TipHeight)
    BY <1>4 DEF TemplatesPass, ServedInv
  <2>2. ASSUME NEW b \in Ours, rows'[b].status = "confirmed", rows'[b] # rows[b]
        PROVE  ~(rows'[b].confs >= Maturity)
    <3>1. /\ rows[b].status \notin {"none", "rejected"} /\ rows[b].status \in Statuses
          /\ templates[rows[b].height + 1] = b
          /\ rows'[b].confs = TipHeight - rows[b].height + 1
      BY <1>t, <2>1, <2>2, FromTemplatesCases DEF TypeOK, Row
    <3>2. rows[b].status # "orphaned"
      BY <2>1, <3>1 DEF YoungInv
    <3>3. rows[b].status \in {"pending", "confirmed"}
      BY <3>1, <3>2 DEF Statuses
    <3>4. TipHeight <= rows[b].height + MaxLag
      BY <2>1, <3>3 DEF YoungInv
    <3>. QED
      BY <1>n, <1>t, <3>1, <3>4
  <2>. QED
    BY <1>p, <1>r, <2>1, <2>2 DEF BuriedInv
<1>5. CASE DistributeOne
  <2>1. PICK b \in Due :
           /\ paid' = [paid EXCEPT ![b] = IF b \in anchored THEN @ + 1 ELSE @]
           /\ rows' = [rows EXCEPT ![b].dist = TRUE]
    BY <1>5 DEF DistributeOne
  <2>2. b \in Ours /\ rows[b].status = "confirmed" /\ rows[b].confs >= Maturity
    BY <2>1 DEF Due
  <2>3. (Buried(b))' /\ cand'[b].pc # "idle"
    BY <1>k, <1>s, <2>2 DEF BuriedInv
  <2>4. \A c \in Ours \ {b} : paid'[c] = paid[c]
    BY <2>1 DEF TypeOK
  <2>5. ASSUME NEW c \in Ours, paid'[c] > 0 PROVE (Buried(c))' /\ cand'[c].pc # "idle"
    BY <1>k, <2>3, <2>4, <2>5 DEF BuriedInv
  <2>6. rows \in [Ours -> Row]
    BY DEF TypeOK
  <2>7. \A c \in Ours : /\ rows'[c].status = rows[c].status
                        /\ rows'[c].confs = rows[c].confs
    BY <2>1, <2>2, <2>6, LatchKeeps
  <2>. QED
    BY <1>r, <2>5, <2>7 DEF BuriedInv
<1>6. CASE Start
  <2>1. pc = "down" /\ \A b \in Ours : rows[b].status = "none"
    BY <1>6 DEF Start, ServedInv
  <2>2. UNCHANGED paid /\ \A b \in Ours : rows'[b] = rows[b]
    BY <1>6, <2>1 DEF Start, FromTemplates
  <2>. QED
    BY <1>p, <1>r, <2>2 DEF BuriedInv
<1>7. CASE Poll \/ List \/ CheckUnsupported \/ CheckFails \/ CheckDone \/ Settle
           \/ DistributeDone \/ Build \/ BuildFails \/ Crash
  BY <1>1, <1>7 DEF Poll, List, CheckUnsupported, CheckFails, CheckDone, Settle,
                    DistributeDone, Build, BuildFails, Crash, dbVars
<1>8. CASE Node
  BY <1>1, <1>8 DEF Node, Extend, Reorg, ReorgBack, dbVars
<1>9. CASE \E b \in Ours : Submit(b)
  BY <1>1, <1>9 DEF Submit, SubmitBlock, RecordShare, StageFractions, RecordBlock, dbVars
<1>10. CASE LoseBatch \/ Quiet \/ UNCHANGED vars
  BY <1>1, <1>10 DEF LoseBatch, Quiet, vars, dbVars
<1>. QED
  BY <1>2, <1>3, <1>4, <1>5, <1>6, <1>7, <1>8, <1>9, <1>10
     DEF Next, Writer, Watcher

\* "There is nothing to undo" (store.h): with a node that answers getblockhash,
\* a maturity deeper than any reorganisation, and blocks on record before
\* their depth could matter, a block somebody was credited for is in the
\* node's chain forever - for any number of candidates and reorganisations,
\* failing RPCs and failing transactions, as long as the process does not
\* restart (main judges by templates alone when it does).
THEOREM PaidStaysInChain ==
    ASSUME ServesGetBlockHash, MaxCrashes = 0, MaxReorg < Maturity,
           MaxLag + 1 < Maturity, MaxLag + 1 < FinalDepth
    PROVE  Spec => []PaidBlockInChain
<1>1. Init => FlightInv /\ ServedInv /\ YoungInv /\ BuriedInv
  <2>1. ASSUME Init PROVE FlightInv /\ ServedInv /\ YoungInv /\ BuriedInv
    BY <2>1 DEF Init, FlightInv, ServedInv, YoungInv, BuriedInv, NoRow
  <2>. QED
    BY <2>1
<1>2. /\ TypeOK /\ TodoInv /\ HeightInv /\ FlightInv /\ ServedInv /\ YoungInv /\ BuriedInv
      /\ [Next]_vars
      => FlightInv' /\ ServedInv' /\ YoungInv' /\ BuriedInv'
  BY FlightStep, ServedStep, YoungStep, BuriedStep
<1>3. TypeOK /\ BuriedInv => PaidBlockInChain
  <2>1. ASSUME TypeOK, BuriedInv, NEW b \in Ours, paid[b] > 0 PROVE InChain(b)
    <3>1. Buried(b) /\ Len(chain) \in Nat /\ cand[b].height \in Nat /\ MaxReorg \in Nat
      BY <2>1, HeightNats, ConstantsAssumption DEF BuriedInv
    <3>. QED
      BY <3>1 DEF Buried, InChain
  <2>. QED
    BY <2>1 DEF PaidBlockInChain
<1>. QED
  BY <1>1, <1>2, <1>3, HeightInvariant, PTL DEF Spec
=============================================================================
