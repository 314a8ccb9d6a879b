--------------------------- MODULE StratumProofs ---------------------------
(***************************************************************************)
(* The Stratum server, for any number of jobs, connections, listeners,     *)
(* addresses and inputs: six invariants of the walk, the connections and   *)
(* the submits.                                                            *)
(*                                                                         *)
(* Base holds the facts of each part by itself: the inputs that are left   *)
(* (JobBudget), who has been accepted and not registered (AcceptInv), the  *)
(* list of connections and the walk over it (ListInv), what was rendered   *)
(* and cached (RenderInv), what is on the wire (WireInv) and where a       *)
(* handler stands (HandlerInv).  On it rest                                *)
(*                                                                         *)
(*   WalkIsSafe          by ListInv: who is on the walk's list is open;    *)
(*   JobsAreCounted      by RefInv: the ring and the swap hold jobs that   *)
(*                       were published, and only a swap holds one more;   *)
(*   StaleIsGone         by StaleInv: what a lookup has seen so far;       *)
(*   NoDoubleCredit      by CreditInv: a credit left its hash behind, and  *)
(*                       a share before the judge holds one without;       *)
(*   HonestShares        by TalkInv: what a miner was told, what it was    *)
(*                       given, the record of job difficulties and the     *)
(*                       cached coinbase agree, connection by connection;  *)
(*   NobodyIsLeftBehind  by CurrentInv: a connection not on the current    *)
(*                       job is still to be visited, or its own thread is  *)
(*                       about to serve it.                                *)
(***************************************************************************)
EXTENDS Stratum, TLAPS, FiniteSetTheorems, WellFoundedInduction

USE DEF None

-----------------------------------------------------------------------------
(* The inputs that are left. *)

\* Spending takes one input from its own budget.
LEMMA Spent ==
    ASSUME budget \in [Inputs -> Nat], NEW input \in Inputs, Spend(input)
    PROVE  /\ budget' \in [Inputs -> Nat]
           /\ budget[input] > 0
           /\ budget'[input] = budget[input] - 1
           /\ \A i \in Inputs : i # input => budget'[i] = budget[i]
<1>1. budget[input] \in Nat /\ budget[input] > 0
      /\ budget' = [budget EXCEPT ![input] = budget[input] - 1]
  BY DEF Spend
<1>2. budget[input] - 1 \in Nat
  BY <1>1
<1>. QED  BY <1>1, <1>2

JobBudget ==
    /\ budget \in [Inputs -> Nat]
    /\ current \in Nat
    /\ current + budget["jobs"] <= MaxJobs

\* A step that does not publish a job leaves the budget of jobs alone.
LEMMA JobBudgetFrame ==
    ASSUME JobBudget, current' = current,
           \/ budget' = budget
           \/ \E i \in Inputs : i # "jobs" /\ Spend(i)
    PROVE  JobBudget'
<1>1. "jobs" \in Inputs
  BY DEF Inputs
<1>2. budget' \in [Inputs -> Nat] /\ budget'["jobs"] = budget["jobs"]
  BY <1>1, Spent DEF JobBudget
<1>. QED  BY <1>2 DEF JobBudget

LEMMA RetargetSpends ==
    ASSUME NEW c, NEW d, Retarget(c, d)
    PROVE  budget' = budget \/ Spend("retargets")
BY DEF Retarget

LEMMA JobBudgetInit == Init => JobBudget
<1> SUFFICES ASSUME Init PROVE JobBudget
  OBVIOUS
<1>1. budget \in [Inputs -> Nat] /\ budget["jobs"] <= MaxJobs
  BY StratumAssumption DEF Init
<1>2. "jobs" \in Inputs /\ current = 0
  BY DEF Inputs, Init
<1>. QED  BY <1>1, <1>2 DEF JobBudget

LEMMA JobBudgetStep ==
    ASSUME JobBudget, [Next]_vars
    PROVE  JobBudget'
<1>. USE DEF jobVars, walkVars, lifeVars, sessVars, shareVars, wireVars, OtherThanLife, NotShares
<1>0. {"jobs", "ages", "accepts", "auths", "submits", "suggests",
       "retargets", "stalls", "closes"} = Inputs
  BY DEF Inputs
<1>1. CASE SetJob
  <2>1. /\ "jobs" \in Inputs /\ Spend("jobs") /\ current' = current + 1
    BY <1>0, <1>1 DEF SetJob
  <2>2. budget' \in [Inputs -> Nat] /\ budget'["jobs"] = budget["jobs"] - 1
        /\ budget["jobs"] \in Nat
    BY <2>1, Spent DEF JobBudget
  <2>. QED  BY <2>1, <2>2 DEF JobBudget
<1>2. CASE Walk
  BY <1>2, JobBudgetFrame DEF Walk, RetireJob, LockConns, SkipConn, RenderNotify, WriteNotify
<1>3. CASE Age
  BY <1>0, <1>3, JobBudgetFrame DEF Age
<1>4. ASSUME NEW l \in Listeners, Accept(l) \/ Count(l) \/ Register(l) PROVE JobBudget'
  BY <1>0, <1>4, JobBudgetFrame DEF Accept, Count, Register
<1>5. ASSUME NEW c \in Conns, Unregister(c) PROVE JobBudget'
  BY <1>0, <1>5, JobBudgetFrame DEF Unregister
<1>6. ASSUME NEW c \in Conns, Miner(c) PROVE JobBudget'
  <2>1. ASSUME NEW a, Authorize(c, a) PROVE JobBudget'
    BY <1>0, <2>1, JobBudgetFrame DEF Authorize
  <2>2. ASSUME NEW s, Submit(c, s) PROVE JobBudget'
    BY <1>0, <2>2, JobBudgetFrame DEF Submit
  <2>3. CASE Subscribe(c)
    BY <2>3, JobBudgetFrame DEF Subscribe
  <2>4. CASE AuthorizeFails(c)
    BY <1>0, <2>4, JobBudgetFrame DEF AuthorizeFails
  <2>5. CASE SuggestDifficulty(c)
    BY <1>0, <2>5, JobBudgetFrame DEF SuggestDifficulty
  <2>6. CASE Stall(c)
    BY <1>0, <2>6, JobBudgetFrame DEF Stall
  <2>. QED  BY <1>6, <2>1, <2>2, <2>3, <2>4, <2>5, <2>6 DEF Miner
<1>7. ASSUME NEW c \in Conns, ConnThread(c) PROVE JobBudget'
  <2>1. CASE AssignDifficulty(c)
    BY <1>0, <2>1, RetargetSpends, JobBudgetFrame DEF AssignDifficulty
  <2>2. CASE NotifyAuthorized(c) \/ WriteOut(c) \/ FindCurrent(c) \/ FindRecent(c)
    BY <2>2, JobBudgetFrame DEF NotifyAuthorized, WriteOut, FindCurrent, FindRecent
  <2>3. CASE Dedupe(c)
    BY <2>3, JobBudgetFrame DEF Dedupe
  <2>4. CASE CloseFd(c) \/ FreeConn(c)
    BY <2>4, JobBudgetFrame DEF CloseFd, FreeConn
  <2>5. CASE Judge(c)
    <3>1. current' = current /\ (budget' = budget \/ Spend("retargets"))
      BY <2>5, RetargetSpends DEF Judge
    <3>. QED  BY <1>0, <3>1, JobBudgetFrame
  <2>. QED  BY <1>7, <2>1, <2>2, <2>3, <2>4, <2>5 DEF ConnThread
<1>8. CASE UNCHANGED vars
  BY <1>8, JobBudgetFrame DEF vars
<1>. QED  BY <1>1, <1>2, <1>3, <1>4, <1>5, <1>6, <1>7, <1>8 DEF Next
-----------------------------------------------------------------------------
(* The connections that will be registered are those the model has names for. *)

Pending == {l \in Listeners : lpc[l] # "poll"}

AcceptInv ==
    /\ budget \in [Inputs -> Nat]
    /\ lpc \in [Listeners -> {"poll", "admitted", "counted"}]
    /\ accepted \in Nat
    /\ accepted + Cardinality(Pending) + budget["accepts"] <= MaxAccepts

LEMMA PendingFinite == IsFiniteSet(Pending) /\ Cardinality(Pending) \in Nat
<1>1. IsFiniteSet(Pending)
  BY StratumAssumption, FS_Subset DEF Pending
<1>. QED  BY <1>1, FS_CardinalityType

LEMMA AcceptFrame ==
    ASSUME AcceptInv, lpc' = lpc, accepted' = accepted,
           \/ budget' = budget
           \/ \E i \in Inputs : i # "accepts" /\ Spend(i)
    PROVE  AcceptInv'
<1>1. "accepts" \in Inputs
  BY DEF Inputs
<1>2. budget' \in [Inputs -> Nat] /\ budget'["accepts"] = budget["accepts"]
  BY <1>1, Spent DEF AcceptInv
<1>3. Pending' = Pending
  BY DEF Pending
<1>. QED  BY <1>2, <1>3 DEF AcceptInv

LEMMA AcceptInit == Init => AcceptInv
<1> SUFFICES ASSUME Init PROVE AcceptInv
  OBVIOUS
<1>1. budget \in [Inputs -> Nat] /\ budget["accepts"] <= MaxAccepts
  BY StratumAssumption DEF Init
<1>2. "accepts" \in Inputs /\ accepted = 0
  BY DEF Inputs, Init
<1>3. lpc = [l \in Listeners |-> "poll"]
  BY DEF Init
<1>4. Pending = {}
  BY <1>3 DEF Pending
<1>5. Cardinality(Pending) = 0
  BY <1>4, FS_EmptySet
<1>. QED  BY <1>1, <1>2, <1>3, <1>5 DEF AcceptInv

LEMMA ListenersKeepCount ==
    ASSUME AcceptInv, NEW l \in Listeners, Accept(l) \/ Count(l) \/ Register(l)
    PROVE  AcceptInv' /\ (Register(l) => accepted + 1 \in Conns)
<1>0. "accepts" \in Inputs
  BY DEF Inputs
<1>1. /\ lpc \in [Listeners -> {"poll", "admitted", "counted"}]
      /\ accepted \in Nat /\ budget["accepts"] \in Nat
      /\ Cardinality(Pending) \in Nat
      /\ accepted + Cardinality(Pending) + budget["accepts"] <= MaxAccepts
      /\ MaxAccepts \in Nat
  BY <1>0, PendingFinite, StratumAssumption DEF AcceptInv
<1>2. CASE Accept(l)
  <2>1. /\ l \notin Pending /\ Spend("accepts")
        /\ lpc' = [lpc EXCEPT ![l] = "admitted"] /\ accepted' = accepted
    BY <1>2 DEF Accept, Pending
  <2>2. budget' \in [Inputs -> Nat] /\ budget'["accepts"] = budget["accepts"] - 1
    BY <1>0, <2>1, Spent DEF AcceptInv
  <2>3. Pending' = Pending \cup {l}
    BY <1>1, <2>1 DEF Pending
  <2>4. Cardinality(Pending') = Cardinality(Pending) + 1
    BY <2>1, <2>3, PendingFinite, FS_AddElement
  <2>5. lpc' \in [Listeners -> {"poll", "admitted", "counted"}]
    BY <1>1, <2>1
  <2>6. accepted' + Cardinality(Pending') + budget'["accepts"] <= MaxAccepts
    BY <1>1, <2>1, <2>2, <2>4
  <2>7. ~Register(l)
    BY <1>2 DEF Accept, Register
  <2>. QED  BY <1>1, <2>1, <2>2, <2>5, <2>6, <2>7 DEF AcceptInv
<1>3. CASE Count(l)
  <2>1. /\ lpc[l] = "admitted" /\ lpc' = [lpc EXCEPT ![l] = "counted"]
        /\ accepted' = accepted /\ budget' = budget
    BY <1>3 DEF Count
  <2>2. Pending' = Pending
    BY <1>1, <2>1 DEF Pending
  <2>3. lpc' \in [Listeners -> {"poll", "admitted", "counted"}]
    BY <1>1, <2>1
  <2>4. ~Register(l)
    BY <1>3 DEF Count, Register
  <2>. QED  BY <1>1, <2>1, <2>2, <2>3, <2>4 DEF AcceptInv
<1>4. CASE Register(l)
  <2>1. /\ l \in Pending
        /\ lpc' = [lpc EXCEPT ![l] = "poll"] /\ accepted' = accepted + 1
        /\ budget' = budget
    BY <1>4 DEF Register, Pending
  <2>2. Pending' = Pending \ {l}
    BY <1>1, <2>1 DEF Pending
  <2>3. /\ Cardinality(Pending') = Cardinality(Pending) - 1
        /\ Cardinality(Pending') \in Nat
    BY <2>1, <2>2, PendingFinite, FS_RemoveElement, FS_CardinalityType
  <2>4. lpc' \in [Listeners -> {"poll", "admitted", "counted"}]
    BY <1>1, <2>1
  <2>5. accepted + 1 \in 1..MaxAccepts
    BY <1>1, <2>3
  <2>6. accepted' + Cardinality(Pending') + budget'["accepts"] <= MaxAccepts
    BY <1>1, <2>1, <2>3
  <2>. QED  BY <1>1, <2>1, <2>4, <2>5, <2>6 DEF AcceptInv, Conns
<1>. QED  BY <1>2, <1>3, <1>4

LEMMA AcceptStep ==
    ASSUME AcceptInv, [Next]_vars
    PROVE  AcceptInv'
<1>. USE DEF jobVars, walkVars, lifeVars, sessVars, shareVars, wireVars, OtherThanLife, NotShares
<1>0. {"jobs", "ages", "accepts", "auths", "submits", "suggests",
       "retargets", "stalls", "closes"} = Inputs
  BY DEF Inputs
<1>1. CASE SetJob \/ Age
  BY <1>0, <1>1, AcceptFrame DEF SetJob, Age
<1>2. CASE Walk
  BY <1>2, AcceptFrame DEF Walk, RetireJob, LockConns, SkipConn, RenderNotify, WriteNotify
<1>4. ASSUME NEW l \in Listeners, Accept(l) \/ Count(l) \/ Register(l) PROVE AcceptInv'
  BY <1>4, ListenersKeepCount
<1>5. ASSUME NEW c \in Conns, Unregister(c) PROVE AcceptInv'
  BY <1>0, <1>5, AcceptFrame DEF Unregister
<1>6. ASSUME NEW c \in Conns, Miner(c) PROVE AcceptInv'
  <2>1. ASSUME NEW a, Authorize(c, a) PROVE AcceptInv'
    BY <1>0, <2>1, AcceptFrame DEF Authorize
  <2>2. ASSUME NEW s, Submit(c, s) PROVE AcceptInv'
    BY <1>0, <2>2, AcceptFrame DEF Submit
  <2>3. CASE Subscribe(c)
    BY <2>3, AcceptFrame DEF Subscribe
  <2>4. CASE AuthorizeFails(c)
    BY <1>0, <2>4, AcceptFrame DEF AuthorizeFails
  <2>5. CASE SuggestDifficulty(c)
    BY <1>0, <2>5, AcceptFrame DEF SuggestDifficulty
  <2>6. CASE Stall(c)
    BY <1>0, <2>6, AcceptFrame DEF Stall
  <2>. QED  BY <1>6, <2>1, <2>2, <2>3, <2>4, <2>5, <2>6 DEF Miner
<1>7. ASSUME NEW c \in Conns, ConnThread(c) PROVE AcceptInv'
  <2>1. CASE AssignDifficulty(c)
    BY <1>0, <2>1, RetargetSpends, AcceptFrame DEF AssignDifficulty
  <2>2. CASE NotifyAuthorized(c) \/ WriteOut(c) \/ FindCurrent(c) \/ FindRecent(c)
    BY <2>2, AcceptFrame DEF NotifyAuthorized, WriteOut, FindCurrent, FindRecent
  <2>3. CASE Dedupe(c)
    BY <2>3, AcceptFrame DEF Dedupe
  <2>4. CASE CloseFd(c) \/ FreeConn(c)
    BY <2>4, AcceptFrame DEF CloseFd, FreeConn
  <2>5. CASE Judge(c)
    <3>1. /\ lpc' = lpc /\ accepted' = accepted
          /\ budget' = budget \/ Spend("retargets")
      BY <2>5, RetargetSpends DEF Judge
    <3>. QED  BY <1>0, <3>1, AcceptFrame
  <2>. QED  BY <1>7, <2>1, <2>2, <2>3, <2>4, <2>5 DEF ConnThread
<1>8. CASE UNCHANGED vars
  BY <1>8, AcceptFrame DEF vars
<1>. QED  BY <1>1, <1>2, <1>4, <1>5, <1>6, <1>7, <1>8 DEF Next
-----------------------------------------------------------------------------
(* The list of connections, and the walk of it. *)

Alive == {"open", "shut"}

\* The list holds the connections whose socket is open, newest first and each
\* once; so does what is left of the walk, and nothing is left of a walk that
\* is over.
ListInv ==
    /\ life \in [Conns -> {"none", "open", "shut", "unlinked", "closed", "freed"}]
    /\ conns \in Seq(Conns) /\ wlist \in Seq(Conns)
    /\ \A i, k \in DOMAIN conns : i < k => conns[i] > conns[k]
    /\ \A i \in DOMAIN conns : conns[i] <= accepted
    /\ \A i \in DOMAIN conns : life[conns[i]] \in Alive
    /\ \A i \in DOMAIN wlist : life[wlist[i]] \in Alive
    /\ wpc \in {"walk", "write"} <=> wlist # <<>>

listVars == <<life, conns, wlist, accepted>>

LEMMA ListFrame ==
    ASSUME ListInv, UNCHANGED listVars,
           wpc' \in {"walk", "write"} <=> wpc \in {"walk", "write"}
    PROVE  ListInv'
BY DEF ListInv, listVars, Alive

\* Two sequences put together.
LEMMA Joined ==
    ASSUME NEW S, NEW a \in Seq(S), NEW b \in Seq(S)
    PROVE  /\ a \o b \in Seq(S) /\ Len(a \o b) = Len(a) + Len(b)
           /\ \A k \in 1..Len(a) + Len(b) :
                 (a \o b)[k] = IF k <= Len(a) THEN a[k] ELSE b[k - Len(a)]
OBVIOUS

\* One element spliced out of a sequence.
LEMMA Spliced ==
    ASSUME NEW S, NEW s \in Seq(S), NEW i \in DOMAIN s
    PROVE  /\ Without(s, i) \in Seq(S) /\ Len(Without(s, i)) = Len(s) - 1
           /\ \A k \in DOMAIN Without(s, i) : \E m \in DOMAIN s :
                 m = (IF k < i THEN k ELSE k + 1) /\ Without(s, i)[k] = s[m]
<1>0. PICK t : t = Without(s, i)
  OBVIOUS
<1>1. /\ i \in 1..Len(s) /\ Len(s) \in Nat /\ DOMAIN s = 1..Len(s)
  OBVIOUS
<1>2. PICK a : a = SubSeq(s, 1, i - 1)
  OBVIOUS
<1>3. PICK b : b = SubSeq(s, i + 1, Len(s))
  OBVIOUS
<1>4. a \in Seq(S) /\ Len(a) = i - 1 /\ \A k \in 1..i - 1 : a[k] = s[k]
  BY <1>1, <1>2
<1>5. b \in Seq(S) /\ Len(b) = Len(s) - i /\ \A k \in 1..Len(s) - i : b[k] = s[k + i]
  BY <1>1, <1>3
<1>6. /\ t \in Seq(S) /\ Len(t) = Len(s) - 1 /\ DOMAIN t = 1..Len(s) - 1
      /\ \A k \in 1..Len(s) - 1 : t[k] = IF k <= i - 1 THEN a[k] ELSE b[k - (i - 1)]
  <2>1. t = a \o b
    BY <1>0, <1>2, <1>3 DEF Without
  <2>2. /\ t \in Seq(S) /\ Len(t) = (i - 1) + (Len(s) - i)
        /\ \A k \in 1..(i - 1) + (Len(s) - i) :
              t[k] = IF k <= i - 1 THEN a[k] ELSE b[k - (i - 1)]
    BY ONLY <2>1, <1>4, <1>5, Joined
  <2>3. (i - 1) + (Len(s) - i) = Len(s) - 1
    BY ONLY <1>1
  <2>4. DOMAIN t = 1..Len(t)
    BY ONLY <2>2
  <2>. QED  BY ONLY <2>2, <2>3, <2>4
<1>7. ASSUME NEW k \in DOMAIN t
      PROVE  \E m \in DOMAIN s : m = (IF k < i THEN k ELSE k + 1) /\ t[k] = s[m]
  <2>1. CASE k < i
    BY <1>1, <1>4, <1>6, <2>1
  <2>2. CASE ~(k < i)
    <3>0. k \in 1..Len(s) - 1 /\ ~(k <= i - 1)
      BY <1>1, <1>6, <2>2
    <3>1. k - (i - 1) \in 1..Len(s) - i
      BY ONLY <1>1, <3>0
    <3>2. t[k] = b[k - (i - 1)]
      BY ONLY <1>6, <3>0
    <3>3. b[k - (i - 1)] = s[(k - (i - 1)) + i]
      BY <1>5, <3>1
    <3>4. (k - (i - 1)) + i = k + 1
      BY ONLY <1>1, <3>0
    <3>5. k + 1 \in DOMAIN s
      BY ONLY <1>1, <3>0
    <3>. QED  BY <2>2, <3>2, <3>3, <3>4, <3>5
  <2>. QED  BY <2>1, <2>2
<1>. QED  BY <1>0, <1>6, <1>7

LEMMA ConnsNat == Conns \subseteq Nat
BY StratumAssumption DEF Conns

LEMMA ListInit == Init => ListInv
BY DEF Init, ListInv, Alive

\* conn_unregister takes the connection off the list for good.
LEMMA UnregisterKeepsList ==
    ASSUME ListInv, NEW c \in Conns, Unregister(c)
    PROVE  ListInv'
<1>1. /\ wpc \notin {"walk", "write"} /\ wpc' = wpc /\ wlist' = wlist
      /\ accepted' = accepted
      /\ life' = [life EXCEPT ![c] = "unlinked"]
  BY DEF Unregister, OtherThanLife, walkVars, ConnsLocked
<1>2. PICK i \in DOMAIN conns : conns[i] = c /\ conns' = Without(conns, i)
  BY DEF Unregister, Unlink
<1>3. conns \in Seq(Conns) /\ wlist = <<>> /\ DOMAIN conns = 1..Len(conns) /\ Len(conns) \in Nat
  BY <1>1 DEF ListInv
<1>4. /\ conns' \in Seq(Conns) /\ Len(conns') = Len(conns) - 1
      /\ \A k \in DOMAIN conns' : \E m \in DOMAIN conns :
            m = (IF k < i THEN k ELSE k + 1) /\ conns'[k] = conns[m]
  <2>1. conns \in Seq(Conns) /\ i \in DOMAIN conns
    BY <1>3
  <2>. QED  BY ONLY <1>2, <2>1, Spliced
<1>5. DOMAIN conns' \subseteq Nat
  BY ONLY <1>4
<1>6. \A k \in DOMAIN conns : k # i => conns[k] # c
  <2>1. \A k \in DOMAIN conns : conns[k] \in Nat
    <3>1. SUFFICES ASSUME NEW k \in DOMAIN conns PROVE conns[k] \in Nat
      OBVIOUS
    <3>2. conns[k] \in Conns
      BY <1>3
    <3>. QED  BY <3>2, ConnsNat
  <2>2. SUFFICES ASSUME NEW k \in DOMAIN conns, k # i PROVE conns[k] # conns[i]
    BY <1>2
  <2>3. k < i \/ i < k
    BY <1>3, <2>2
  <2>4. conns[k] > conns[i] \/ conns[i] > conns[k]
    BY <2>3 DEF ListInv
  <2>. QED  BY <2>1, <2>4
<1>7. \A k \in DOMAIN conns' : life'[conns'[k]] \in Alive /\ conns'[k] <= accepted'
  <2> SUFFICES ASSUME NEW k \in DOMAIN conns'
               PROVE  life'[conns'[k]] \in Alive /\ conns'[k] <= accepted'
    OBVIOUS
  <2>1. PICK m \in DOMAIN conns : m # i /\ conns'[k] = conns[m]
    <3>1. (IF k < i THEN k ELSE k + 1) # i
      BY <1>3, <1>5
    <3>. QED  BY <1>4, <3>1
  <2>2. conns[m] \in Conns /\ conns[m] # c
    BY <1>3, <1>6, <2>1
  <2>3. life'[conns[m]] = life[conns[m]]
    BY <1>1, <2>2 DEF ListInv
  <2>. QED  BY <1>1, <2>1, <2>3 DEF ListInv
<1>8. \A k, m \in DOMAIN conns' : k < m => conns'[k] > conns'[m]
  <2> SUFFICES ASSUME NEW k \in DOMAIN conns', NEW m \in DOMAIN conns', k < m
               PROVE  conns'[k] > conns'[m]
    OBVIOUS
  <2>1. PICK p \in DOMAIN conns : p = (IF k < i THEN k ELSE k + 1) /\ conns'[k] = conns[p]
    BY <1>4
  <2>2. PICK q \in DOMAIN conns : q = (IF m < i THEN m ELSE m + 1) /\ conns'[m] = conns[q]
    BY <1>4
  <2>3. p < q
    BY <1>3, <1>5, <2>1, <2>2
  <2>4. conns[p] > conns[q]
    BY <2>3 DEF ListInv
  <2>. QED  BY <2>1, <2>2, <2>4
<1>9. life' \in [Conns -> {"none", "open", "shut", "unlinked", "closed", "freed"}]
  BY <1>1 DEF ListInv
<1>. QED  BY <1>1, <1>3, <1>4, <1>7, <1>8, <1>9 DEF ListInv

\* A change in the life of a connection that is not on the list.
LEMMA OffListFrame ==
    ASSUME ListInv, NEW c \in Conns, life[c] \notin Alive,
           NEW x \in {"none", "open", "shut", "unlinked", "closed", "freed"},
           life' = [life EXCEPT ![c] = x],
           UNCHANGED <<conns, wlist, accepted, wpc>>
    PROVE  ListInv'
<1>1. life' \in [Conns -> {"none", "open", "shut", "unlinked", "closed", "freed"}]
  BY DEF ListInv
<1>2. \A d \in Conns : life[d] \in Alive => life'[d] = life[d]
  BY DEF ListInv
<1>3. \A i \in DOMAIN conns : life'[conns[i]] \in Alive
  BY <1>2 DEF ListInv
<1>4. \A i \in DOMAIN wlist : life'[wlist[i]] \in Alive
  BY <1>2 DEF ListInv
<1>. QED  BY <1>1, <1>3, <1>4 DEF ListInv

\* conn_register puts a new connection first.
LEMMA RegisterKeepsList ==
    ASSUME ListInv, AcceptInv, NEW l \in Listeners, Register(l)
    PROVE  ListInv'
<1>1. PICK n : n = accepted + 1
  OBVIOUS
<1>2. /\ n \in Conns /\ accepted' = n
      /\ conns' = <<n>> \o conns
      /\ life' = [life EXCEPT ![n] = "open"]
      /\ wpc' = wpc /\ wlist' = wlist
  BY <1>1, ListenersKeepCount DEF Register, OtherThanLife, walkVars
<1>3. conns \in Seq(Conns) /\ Len(conns) \in Nat /\ DOMAIN conns = 1..Len(conns)
      /\ accepted \in Nat
  BY DEF ListInv, AcceptInv
<1>4. /\ conns' \in Seq(Conns) /\ DOMAIN conns' = 1..Len(conns) + 1
      /\ conns'[1] = n
      /\ \A k \in DOMAIN conns' : k # 1 => k - 1 \in DOMAIN conns /\ conns'[k] = conns[k - 1]
  <2>1. PICK a : a = <<n>>
    OBVIOUS
  <2>2. a \in Seq(Conns) /\ Len(a) = 1 /\ a[1] = n
    BY <1>2, <2>1
  <2>3. conns' = a \o conns
    BY <1>2, <2>1
  <2>4. /\ conns' \in Seq(Conns) /\ Len(conns') = 1 + Len(conns)
        /\ \A k \in 1..1 + Len(conns) :
             conns'[k] = IF k <= 1 THEN a[k] ELSE conns[k - 1]
    <3>1. a \in Seq(Conns) /\ conns \in Seq(Conns)
      BY <1>3, <2>2
    <3>2. /\ a \o conns \in Seq(Conns) /\ Len(a \o conns) = Len(a) + Len(conns)
          /\ \A k \in 1..Len(a) + Len(conns) :
               (a \o conns)[k] = IF k <= Len(a) THEN a[k] ELSE conns[k - Len(a)]
      BY ONLY <3>1, Joined
    <3>. QED  BY ONLY <2>2, <2>3, <3>2
  <2>5. DOMAIN conns' = 1..Len(conns) + 1
    BY ONLY <1>3, <2>4
  <2>. QED  BY ONLY <1>3, <2>2, <2>4, <2>5
<1>5. \A k \in DOMAIN conns : conns[k] \in Nat /\ conns[k] < n
  <2>1. SUFFICES ASSUME NEW k \in DOMAIN conns PROVE conns[k] \in Nat /\ conns[k] < n
    OBVIOUS
  <2>2. conns[k] \in Conns
    BY <1>3
  <2>3. conns[k] \in Nat
    BY <2>2, ConnsNat
  <2>4. conns[k] <= accepted
    BY DEF ListInv
  <2>. QED  BY ONLY <1>1, <1>3, <2>3, <2>4
<1>6. \A k, m \in DOMAIN conns' : k < m => conns'[k] > conns'[m]
  <2> SUFFICES ASSUME NEW k \in DOMAIN conns', NEW m \in DOMAIN conns', k < m
               PROVE  conns'[k] > conns'[m]
    OBVIOUS
  <2>1. m # 1 /\ m - 1 \in DOMAIN conns /\ conns'[m] = conns[m - 1]
    BY <1>3, <1>4
  <2>2. CASE k = 1
    BY <1>2, <1>4, <1>5, <2>1, <2>2 DEF Conns
  <2>3. CASE k # 1
    <3>1. k - 1 \in DOMAIN conns /\ conns'[k] = conns[k - 1]
      BY <1>4, <2>3
    <3>2. k - 1 < m - 1
      BY <1>3, <1>4
    <3>3. conns[k - 1] > conns[m - 1]
      BY <2>1, <3>1, <3>2 DEF ListInv
    <3>. QED  BY <2>1, <3>1, <3>3
  <2>. QED  BY <2>2, <2>3
<1>7. \A d \in Conns : life[d] \in Alive => life'[d] \in Alive
  BY <1>2 DEF ListInv, Alive
<1>8. life'[n] \in Alive
  BY <1>2 DEF ListInv, Alive
<1>9. \A k \in DOMAIN conns' : life'[conns'[k]] \in Alive /\ conns'[k] <= accepted'
  <2> SUFFICES ASSUME NEW k \in DOMAIN conns'
               PROVE  life'[conns'[k]] \in Alive /\ conns'[k] <= accepted'
    OBVIOUS
  <2>1. CASE k = 1
    BY <1>2, <1>4, <1>8, <2>1 DEF Conns
  <2>2. CASE k # 1
    <3>1. k - 1 \in DOMAIN conns /\ conns'[k] = conns[k - 1] /\ conns[k - 1] \in Conns
      BY <1>3, <1>4, <2>2
    <3>2. life[conns[k - 1]] \in Alive
      BY <3>1 DEF ListInv
    <3>3. conns[k - 1] <= n
      BY <1>2, <1>5, <3>1 DEF Conns
    <3>. QED  BY <1>2, <1>7, <3>1, <3>2, <3>3
  <2>. QED  BY <2>1, <2>2
<1>10. \A i \in DOMAIN wlist : life'[wlist[i]] \in Alive
  BY <1>7 DEF ListInv
<1>11. life' \in [Conns -> {"none", "open", "shut", "unlinked", "closed", "freed"}]
  BY <1>2 DEF ListInv
<1>. QED  BY <1>2, <1>4, <1>6, <1>9, <1>10, <1>11 DEF ListInv
\* What is left of a walk: a tail of what it had, or the whole list.
LEMMA WalkKeepsList ==
    ASSUME ListInv, NEW left \in Seq(Conns), WalkOn(left),
           \A i \in DOMAIN left : life[left[i]] \in Alive,
           UNCHANGED <<life, conns, accepted>>
    PROVE  ListInv'
<1>1. wlist' = left /\ wpc' = IF left = <<>> THEN "idle" ELSE "walk"
  BY DEF WalkOn
<1>2. wpc' \in {"walk", "write"} <=> wlist' # <<>>
  BY <1>1
<1>. QED  BY <1>1, <1>2 DEF ListInv

\* The rest of a walk is made of connections the walk already had.
LEMMA TailAlive ==
    ASSUME ListInv, wlist # <<>>
    PROVE  /\ Tail(wlist) \in Seq(Conns) /\ Head(wlist) \in Conns
           /\ life[Head(wlist)] \in Alive
           /\ \A i \in DOMAIN Tail(wlist) : life[Tail(wlist)[i]] \in Alive
<1>1. wlist \in Seq(Conns)
  BY DEF ListInv
<1>2. /\ Tail(wlist) \in Seq(Conns) /\ Head(wlist) \in Conns
      /\ Head(wlist) = wlist[1] /\ 1 \in DOMAIN wlist
      /\ \A i \in DOMAIN Tail(wlist) : i + 1 \in DOMAIN wlist /\ Tail(wlist)[i] = wlist[i + 1]
  BY <1>1
<1>. QED  BY <1>2 DEF ListInv

\* A failed notify shuts the socket of the connection it was for.
LEMMA WriteNotifyKeepsList ==
    ASSUME ListInv, WriteNotify
    PROVE  ListInv'
<1>1. wlist # <<>>
  BY DEF ListInv, WriteNotify
<1>2. PICK c : c = Head(wlist)
  OBVIOUS
<1>3. /\ c \in Conns /\ life[c] \in Alive
      /\ Tail(wlist) \in Seq(Conns)
      /\ \A i \in DOMAIN Tail(wlist) : life[Tail(wlist)[i]] \in Alive
  BY <1>1, <1>2, TailAlive
<1>4. /\ life' = life \/ life' = [life EXCEPT ![c] = "shut"]
      /\ conns' = conns /\ accepted' = accepted
      /\ wlist' = Tail(wlist)
      /\ wpc' = IF Tail(wlist) = <<>> THEN "idle" ELSE "walk"
  BY <1>2 DEF WriteNotify, WalkOn
<1>5. /\ life' \in [Conns -> {"none", "open", "shut", "unlinked", "closed", "freed"}]
      /\ \A d \in Conns : life[d] \in Alive => life'[d] \in Alive
  BY <1>3, <1>4 DEF ListInv, Alive
<1>6. \A i \in DOMAIN conns : life'[conns[i]] \in Alive
  BY <1>5 DEF ListInv
<1>7. \A i \in DOMAIN wlist' : life'[wlist'[i]] \in Alive
  BY <1>3, <1>4, <1>5
<1>8. wpc' \in {"walk", "write"} <=> wlist' # <<>>
  BY <1>4
<1>. QED  BY <1>3, <1>4, <1>5, <1>6, <1>7, <1>8 DEF ListInv

LEMMA ListStep ==
    ASSUME ListInv, AcceptInv, [Next]_vars
    PROVE  ListInv'
<1>. USE DEF jobVars, walkVars, lifeVars, sessVars, shareVars, wireVars, OtherThanLife,
             NotShares, listVars
<1>1. CASE SetJob
  BY <1>1, ListFrame DEF SetJob
<1>2. CASE Age
  BY <1>2, ListFrame DEF Age
<1>3. CASE Walk
  <2>1. CASE RetireJob \/ RenderNotify
    BY <2>1, ListFrame DEF RetireJob, RenderNotify
  <2>2. CASE LockConns
    <3>1. conns \in Seq(Conns) /\ \A i \in DOMAIN conns : life[conns[i]] \in Alive
      BY DEF ListInv
    <3>. QED  BY <2>2, <3>1, WalkKeepsList DEF LockConns
  <2>3. CASE SkipConn
    <3>1. wlist # <<>>
      BY <2>3 DEF SkipConn, ListInv
    <3>2. /\ Tail(wlist) \in Seq(Conns)
          /\ \A i \in DOMAIN Tail(wlist) : life[Tail(wlist)[i]] \in Alive
      BY <3>1, TailAlive
    <3>3. WalkOn(Tail(wlist)) /\ UNCHANGED <<life, conns, accepted>>
      BY <2>3 DEF SkipConn
    <3>. QED  BY <3>2, <3>3, WalkKeepsList
  <2>4. CASE WriteNotify
    BY <2>4, WriteNotifyKeepsList
  <2>. QED  BY <1>3, <2>1, <2>2, <2>3, <2>4 DEF Walk
<1>4. ASSUME NEW l \in Listeners, Accept(l) \/ Count(l) \/ Register(l) PROVE ListInv'
  <2>1. CASE Accept(l) \/ Count(l)
    BY <2>1, ListFrame DEF Accept, Count
  <2>2. CASE Register(l)
    BY <2>2, RegisterKeepsList
  <2>. QED  BY <1>4, <2>1, <2>2
<1>5. ASSUME NEW c \in Conns, Unregister(c) PROVE ListInv'
  BY <1>5, UnregisterKeepsList
<1>6. ASSUME NEW c \in Conns, Miner(c) PROVE ListInv'
  <2>1. ASSUME NEW a, Authorize(c, a) PROVE ListInv'
    BY <2>1, ListFrame DEF Authorize
  <2>2. ASSUME NEW s, Submit(c, s) PROVE ListInv'
    BY <2>2, ListFrame DEF Submit
  <2>3. CASE Subscribe(c) \/ AuthorizeFails(c)
    BY <2>3, ListFrame DEF Subscribe, AuthorizeFails
  <2>4. CASE SuggestDifficulty(c) \/ Stall(c)
    BY <2>4, ListFrame DEF SuggestDifficulty, Stall
  <2>. QED  BY <1>6, <2>1, <2>2, <2>3, <2>4 DEF Miner
<1>7. ASSUME NEW c \in Conns, ConnThread(c) PROVE ListInv'
  <2>1. CASE AssignDifficulty(c) \/ NotifyAuthorized(c) \/ WriteOut(c)
    BY <2>1, ListFrame DEF AssignDifficulty, NotifyAuthorized, WriteOut
  <2>2. CASE FindCurrent(c) \/ FindRecent(c)
    BY <2>2, ListFrame DEF FindCurrent, FindRecent
  <2>3. CASE Dedupe(c) \/ Judge(c)
    BY <2>3, ListFrame DEF Dedupe, Judge
  <2>4. CASE CloseFd(c)
    BY <2>4, OffListFrame DEF CloseFd, Alive
  <2>5. CASE FreeConn(c)
    BY <2>5, OffListFrame DEF FreeConn, Alive
  <2>. QED  BY <1>7, <2>1, <2>2, <2>3, <2>4, <2>5 DEF ConnThread
<1>8. CASE UNCHANGED vars
  BY <1>8, ListFrame DEF vars
<1>. QED  BY <1>1, <1>2, <1>3, <1>4, <1>5, <1>6, <1>7, <1>8 DEF Next

LEMMA ListInvariant == Spec => []ListInv
BY AcceptInit, AcceptStep, ListInit, ListStep, PTL DEF Spec

\* Whoever connects, closes, stalls or is cut off while stratum_server_set_job
\* walks the list, the walk never holds a connection whose descriptor has been
\* closed: conns_lock, and unlinking before closing, are enough.
THEOREM WalkIsSafe == Spec => []NotifyReachesItsConn
<1>1. ListInv => NotifyReachesItsConn
  BY DEF ListInv, NotifyReachesItsConn, Alive
<1>. QED  BY <1>1, ListInvariant, PTL
-----------------------------------------------------------------------------
(* What a connection renders from. *)

Address    == Addresses \cup {None}
AnyDiff    == Diffs \cup {None}
Coinbase   == [job : Nat, addr : Address]
JobDiff    == [job : Nat, diff : Diffs]

RenderInv ==
    /\ addr \in [Conns -> Address]
    /\ cb \in [Conns -> Coinbase]
    /\ diff \in [Conns -> Diffs]
    /\ jobDiffs \in [Conns -> Seq(JobDiff)]

renderVars == <<addr, cb, diff, jobDiffs>>

LEMMA RenderFrame ==
    ASSUME RenderInv, UNCHANGED renderVars
    PROVE  RenderInv'
BY DEF RenderInv, renderVars

\* Whatever difficulties there are, one is the least.
LEMMA LeastDifficulty ==
    \E d \in Diffs : \A e \in Diffs : d <= e
<1>1. Diffs \subseteq Nat /\ Diffs # {}
  BY StratumAssumption
<1>2. IsWellFoundedOn(OpToRel(<, Nat), Nat)
  BY NatLessThanWellFounded
<1>3. \E d \in Diffs : \A e \in Diffs : ~(<<e, d>> \in OpToRel(<, Nat))
  BY <1>1, <1>2, WFMin
<1>4. PICK d \in Diffs : \A e \in Diffs : ~(<<e, d>> \in OpToRel(<, Nat))
  BY <1>3
<1>5. ASSUME NEW e \in Diffs PROVE d <= e
  <2>1. d \in Nat /\ e \in Nat
    BY <1>1
  <2>2. e < d => <<e, d>> \in OpToRel(<, Nat)
    BY <2>1 DEF OpToRel
  <2>3. ~(<<e, d>> \in OpToRel(<, Nat))
    BY <1>4
  <2>4. ~(e < d)
    BY ONLY <2>2, <2>3
  <2>. QED  BY ONLY <2>1, <2>4
<1>. QED  BY <1>5

LEMMA RenderInit == Init => RenderInv
<1> SUFFICES ASSUME Init PROVE RenderInv
  OBVIOUS
<1>1. PICK d : d = CHOOSE x \in Diffs : \A e \in Diffs : x <= e
  OBVIOUS
<1>2. d \in Diffs
  BY <1>1, LeastDifficulty
<1>3. diff = [c \in Conns |-> d]
  BY <1>1 DEF Init
<1>4. diff \in [Conns -> Diffs]
  BY <1>2, <1>3
<1>5. jobDiffs \in [Conns -> Seq(JobDiff)]
  BY DEF Init
<1>6. NoCoinbase \in Coinbase
  BY DEF NoCoinbase, Coinbase, Address
<1>7. cb \in [Conns -> Coinbase]
  BY <1>6 DEF Init
<1>8. addr \in [Conns -> Address]
  BY DEF Init, Address
<1>. QED  BY <1>4, <1>5, <1>7, <1>8 DEF RenderInv

LEMMA PushType ==
    ASSUME NEW S, NEW s \in Seq(S), NEW e \in S, NEW n \in Nat \ {0}
    PROVE  Push(s, e, n) \in Seq(S)
<1>1. CASE Len(s) < n
  BY <1>1 DEF Push
<1>2. CASE ~(Len(s) < n)
  <2>1. s # <<>>
    BY <1>2
  <2>2. Tail(s) \in Seq(S)
    BY <2>1
  <2>. QED  BY <1>2, <2>2 DEF Push
<1>. QED  BY <1>1, <1>2

LEMMA JobDiffRingType == JobDiffRing \in Nat \ {0}
BY StratumAssumption DEF JobDiffRing

\* conn_record_job_difficulty keeps a list of jobs and difficulties.
LEMMA RecordType ==
    ASSUME NEW s \in Seq(JobDiff), NEW j \in Nat, NEW d \in Diffs
    PROVE  RecordJobDifficulty(s, j, d) \in Seq(JobDiff)
<1>1. CASE \E i \in DOMAIN s : s[i].job = j
  <2>1. DOMAIN s = 1..Len(s) /\ Len(s) \in Nat
    OBVIOUS
  <2>2. ASSUME NEW i \in 1..Len(s)
        PROVE  (IF s[i].job = j THEN [s[i] EXCEPT !.diff = d] ELSE s[i]) \in JobDiff
    <3>1. s[i] \in JobDiff
      BY <2>1
    <3>2. [s[i] EXCEPT !.diff = d] \in JobDiff
      BY <3>1 DEF JobDiff
    <3>. QED  BY <3>1, <3>2
  <2>3. RecordJobDifficulty(s, j, d) =
          [i \in 1..Len(s) |-> IF s[i].job = j THEN [s[i] EXCEPT !.diff = d] ELSE s[i]]
    BY <1>1, <2>1 DEF RecordJobDifficulty
  <2>. QED  BY <2>1, <2>2, <2>3
<1>2. CASE ~\E i \in DOMAIN s : s[i].job = j
  <2>1. [job |-> j, diff |-> d] \in JobDiff
    BY DEF JobDiff
  <2>. QED  BY <1>2, <2>1, PushType, JobDiffRingType DEF RecordJobDifficulty
<1>. QED  BY <1>1, <1>2

LEMMA RenderType ==
    ASSUME RenderInv, NEW c \in Conns, NEW j \in Nat
    PROVE  Render(c, j) \in Coinbase
BY DEF RenderInv, Render, Coinbase

\* What conn_job_difficulty answers is a difficulty or nothing.
LEMMA JobDifficultyType ==
    ASSUME NEW s \in Seq(JobDiff), NEW j
    PROVE  JobDifficulty(s, j) \in AnyDiff
<1>1. CASE \E i \in DOMAIN s : s[i].job = j
  <2>1. PICK i : i = CHOOSE k \in DOMAIN s : s[k].job = j
    OBVIOUS
  <2>2. i \in DOMAIN s
    BY <1>1, <2>1
  <2>3. s[i] \in JobDiff
    BY <2>2
  <2>4. JobDifficulty(s, j) = s[i].diff
    BY <1>1, <2>1 DEF JobDifficulty
  <2>. QED  BY <2>3, <2>4 DEF JobDiff, AnyDiff
<1>2. CASE ~\E i \in DOMAIN s : s[i].job = j
  BY <1>2 DEF JobDifficulty, AnyDiff
<1>. QED  BY <1>1, <1>2
LEMMA RecordedType ==
    ASSUME RenderInv, NEW c \in Conns, NEW j \in Nat
    PROVE  [jobDiffs EXCEPT ![c] = RecordJobDifficulty(@, j, diff[c])]
             \in [Conns -> Seq(JobDiff)]
<1>1. jobDiffs \in [Conns -> Seq(JobDiff)] /\ jobDiffs[c] \in Seq(JobDiff) /\ diff[c] \in Diffs
  BY DEF RenderInv
<1>2. RecordJobDifficulty(jobDiffs[c], j, diff[c]) \in Seq(JobDiff)
  BY <1>1, RecordType
<1>. QED  BY <1>1, <1>2

LEMMA RenderedType ==
    ASSUME RenderInv, NEW c \in Conns, NEW j \in Nat
    PROVE  [cb EXCEPT ![c] = Render(c, j)] \in [Conns -> Coinbase]
<1>1. cb \in [Conns -> Coinbase]
  BY DEF RenderInv
<1>. QED  BY <1>1, RenderType

\* A new difficulty, or none, is a difficulty.
LEMMA RetargetType ==
    ASSUME RenderInv, NEW c \in Conns, NEW d \in Diffs, Retarget(c, d)
    PROVE  diff' \in [Conns -> Diffs]
<1>1. diff \in [Conns -> Diffs]
  BY DEF RenderInv
<1>2. diff' = diff \/ diff' = [diff EXCEPT ![c] = d]
  BY DEF Retarget
<1>. QED  BY <1>1, <1>2

\* The job a submit names is one the miner was given.
HandlerInv ==
    /\ pc \in [Conns -> {"recv", "assign", "notify", "write",
                         "find", "ring", "dedupe", "judge"}]
    /\ msg \in [Conns -> {<<>>} \cup (Share \X Address)]
    /\ \A c \in Conns : pc[c] \in {"find", "ring", "dedupe", "judge"} =>
          msg[c] \in Share \X Address /\ Job(c) \in 1..current
    /\ \A c \in Conns : pc[c] \in {"recv", "assign", "notify"} => msg[c] = <<>>

LEMMA HandlerJob ==
    ASSUME HandlerInv, JobBudget, NEW c \in Conns,
           pc[c] \in {"find", "ring", "dedupe", "judge"}
    PROVE  Job(c) \in Jobs /\ Job(c) \in Nat /\ Job(c) <= current
<1>1. Job(c) \in 1..current
  BY DEF HandlerInv
<1>2. current \in Nat /\ budget["jobs"] \in Nat /\ current + budget["jobs"] <= MaxJobs
  BY DEF JobBudget, Inputs
<1>3. MaxJobs \in Nat
  BY StratumAssumption
<1>. QED  BY <1>1, <1>2, <1>3 DEF Jobs

LEMMA RenderStep ==
    ASSUME RenderInv, JobBudget, HandlerInv, ListInv, [Next]_vars
    PROVE  RenderInv'
<1>. USE DEF jobVars, walkVars, lifeVars, sessVars, shareVars, wireVars, OtherThanLife,
             NotShares, renderVars
<1>0. current \in Nat
  BY DEF JobBudget
<1>1. CASE SetJob \/ Age
  BY <1>1, RenderFrame DEF SetJob, Age
<1>3. ASSUME Walk PROVE RenderInv'
  <2>1. CASE RetireJob \/ LockConns \/ SkipConn
    BY <2>1, RenderFrame DEF RetireJob, LockConns, SkipConn
  <2>2. CASE RenderNotify
    <3>1. PICK c : c = Head(wlist)
      OBVIOUS
    <3>2. c \in Conns
      BY <1>3, <2>2, <3>1, TailAlive DEF RenderNotify, ListInv
    <3>3. /\ cb' = [cb EXCEPT ![c] = Render(c, current)]
          /\ jobDiffs' = [jobDiffs EXCEPT ![c] = RecordJobDifficulty(@, current, diff[c])]
          /\ addr' = addr /\ diff' = diff
      BY <2>2, <3>1 DEF RenderNotify
    <3>. QED  BY <1>0, <3>2, <3>3, RecordedType, RenderedType DEF RenderInv
  <2>3. CASE WriteNotify
    BY <2>3, RenderFrame DEF WriteNotify
  <2>. QED  BY <1>3, <2>1, <2>2, <2>3 DEF Walk
<1>4. ASSUME NEW l \in Listeners, Accept(l) \/ Count(l) \/ Register(l) PROVE RenderInv'
  BY <1>4, RenderFrame DEF Accept, Count, Register
<1>5. ASSUME NEW c \in Conns, Unregister(c) PROVE RenderInv'
  BY <1>5, RenderFrame DEF Unregister
<1>6. ASSUME NEW c \in Conns, Miner(c) PROVE RenderInv'
  <2>1. ASSUME NEW a \in Addresses, Authorize(c, a) PROVE RenderInv'
    <3>1. addr' = [addr EXCEPT ![c] = a] /\ UNCHANGED <<cb, diff, jobDiffs>>
      BY <2>1 DEF Authorize
    <3>2. addr' \in [Conns -> Address]
      BY <3>1 DEF RenderInv, Address
    <3>. QED  BY <3>1, <3>2 DEF RenderInv
  <2>2. ASSUME NEW s, Submit(c, s) PROVE RenderInv'
    BY <2>2, RenderFrame DEF Submit
  <2>3. CASE Subscribe(c) \/ Stall(c)
    BY <2>3, RenderFrame DEF Subscribe, Stall
  <2>4. CASE AuthorizeFails(c)
    <3>1. addr' = [addr EXCEPT ![c] = None] /\ UNCHANGED <<cb, diff, jobDiffs>>
      BY <2>4 DEF AuthorizeFails
    <3>2. addr' \in [Conns -> Address]
      BY <3>1 DEF RenderInv, Address
    <3>. QED  BY <3>1, <3>2 DEF RenderInv
  <2>5. CASE SuggestDifficulty(c)
    <3>1. PICK d \in Diffs : diff' = [diff EXCEPT ![c] = d]
      BY <2>5 DEF SuggestDifficulty
    <3>2. diff' \in [Conns -> Diffs]
      BY <3>1 DEF RenderInv
    <3>3. UNCHANGED <<addr, cb, jobDiffs>>
      BY <2>5 DEF SuggestDifficulty
    <3>. QED  BY <3>2, <3>3 DEF RenderInv
  <2>. QED  BY <1>6, <2>1, <2>2, <2>3, <2>4, <2>5 DEF Miner
<1>7. ASSUME NEW c \in Conns, ConnThread(c) PROVE RenderInv'
  <2>1. CASE AssignDifficulty(c)
    <3>1. PICK d \in Diffs : Retarget(c, d)
      BY <2>1 DEF AssignDifficulty
    <3>2. diff' \in [Conns -> Diffs]
      BY <3>1, RetargetType
    <3>3. UNCHANGED <<addr, cb, jobDiffs>>
      BY <2>1 DEF AssignDifficulty
    <3>. QED  BY <3>2, <3>3 DEF RenderInv
  <2>2. CASE NotifyAuthorized(c)
    <3>1. /\ \/ cb' = cb /\ jobDiffs' = jobDiffs
             \/ /\ cb' = [cb EXCEPT ![c] = Render(c, current)]
                /\ jobDiffs' = [jobDiffs EXCEPT ![c] = RecordJobDifficulty(@, current, diff[c])]
          /\ addr' = addr /\ diff' = diff
      BY <2>2 DEF NotifyAuthorized
    <3>2. CASE cb' = cb /\ jobDiffs' = jobDiffs
      BY <3>1, <3>2, RenderFrame
    <3>3. CASE /\ cb' = [cb EXCEPT ![c] = Render(c, current)]
               /\ jobDiffs' = [jobDiffs EXCEPT ![c] = RecordJobDifficulty(@, current, diff[c])]
      BY <1>0, <3>1, <3>3, RecordedType, RenderedType DEF RenderInv
    <3>. QED  BY <3>1, <3>2, <3>3
  <2>3. CASE WriteOut(c) \/ FindCurrent(c) \/ FindRecent(c)
    BY <2>3, RenderFrame DEF WriteOut, FindCurrent, FindRecent
  <2>4. CASE Dedupe(c)
    <3>1. /\ cb' = cb \/ cb' = [cb EXCEPT ![c] = Render(c, Job(c))]
          /\ UNCHANGED <<addr, diff, jobDiffs>> /\ pc[c] = "dedupe"
      BY <2>4 DEF Dedupe
    <3>2. Job(c) \in Nat
      BY <3>1, HandlerJob
    <3>3. cb' \in [Conns -> Coinbase]
      BY <3>1, <3>2, RenderedType DEF RenderInv
    <3>. QED  BY <3>1, <3>3 DEF RenderInv
  <2>5. CASE Judge(c)
    <3>1. diff' = diff \/ \E d \in Diffs : Retarget(c, d)
      BY <2>5 DEF Judge
    <3>2. diff' \in [Conns -> Diffs]
      BY <3>1, RetargetType DEF RenderInv
    <3>3. UNCHANGED <<addr, cb, jobDiffs>>
      BY <2>5 DEF Judge
    <3>. QED  BY <3>2, <3>3 DEF RenderInv
  <2>6. CASE CloseFd(c) \/ FreeConn(c)
    BY <2>6, RenderFrame DEF CloseFd, FreeConn
  <2>. QED  BY <1>7, <2>1, <2>2, <2>3, <2>4, <2>5, <2>6 DEF ConnThread
<1>8. CASE UNCHANGED vars
  BY <1>8, RenderFrame DEF vars
<1>. QED  BY <1>1, <1>3, <1>4, <1>5, <1>6, <1>7, <1>8 DEF Next
-----------------------------------------------------------------------------
(* What is written to a miner, and what the miner then knows. *)

Output(n) == [diff : AnyDiff, job : 0..n, addr : Address]

\* Nobody is given a job that is not built yet.
WireInv ==
    /\ out \in [Conns -> Output(current)]
    /\ wout \in Output(current)
    /\ told \in [Conns -> AnyDiff]
    /\ agreed \in [Conns -> [Jobs -> AnyDiff]]
    /\ sent \in [Conns -> [Jobs -> Address]]
    /\ \A c \in Conns : \A j \in Jobs : agreed[c][j] # None => j <= current

knownVars == <<told, agreed, sent>>

LEMMA WireFrame ==
    ASSUME WireInv, current' = current, UNCHANGED <<out, wout>>, UNCHANGED knownVars
    PROVE  WireInv'
BY DEF WireInv, knownVars, Output

LEMMA NoOutputType == ASSUME NEW n \in Nat PROVE NoOutput \in Output(n)
BY DEF NoOutput, Output, AnyDiff, Address

LEMMA WireInit == Init => WireInv
<1> SUFFICES ASSUME Init PROVE WireInv
  OBVIOUS
<1>1. NoOutput \in Output(current)
  BY NoOutputType DEF Init
<1>2. out \in [Conns -> Output(current)] /\ wout \in Output(current)
  BY <1>1 DEF Init
<1>3. /\ told \in [Conns -> AnyDiff]
      /\ agreed \in [Conns -> [Jobs -> AnyDiff]]
      /\ sent \in [Conns -> [Jobs -> Address]]
  BY DEF Init, AnyDiff, Address
<1>4. \A c \in Conns : \A j \in Jobs : agreed[c][j] = None
  BY DEF Init
<1>. QED  BY <1>2, <1>3, <1>4 DEF WireInv

\* One field of one connection's buffer.
LEMMA OutDiff ==
    ASSUME NEW O, NEW f \in [Conns -> O], NEW c \in Conns, NEW n \in Nat, O = Output(n),
           NEW d \in AnyDiff
    PROVE  [f EXCEPT ![c].diff = d] \in [Conns -> Output(n)]
<1>1. f[c] \in Output(n)
  OBVIOUS
<1>2. [f[c] EXCEPT !.diff = d] \in Output(n)
  BY <1>1 DEF Output
<1>. QED  BY <1>2

LEMMA OutJob ==
    ASSUME NEW O, NEW f \in [Conns -> O], NEW c \in Conns, NEW n \in Nat, O = Output(n),
           NEW a \in Address
    PROVE  [f EXCEPT ![c].job = n, ![c].addr = a] \in [Conns -> Output(n)]
<1>1. f[c] \in Output(n)
  OBVIOUS
<1>2. [f[c] EXCEPT !.job = n] \in Output(n)
  BY <1>1 DEF Output
<1>3. [[f[c] EXCEPT !.job = n] EXCEPT !.addr = a] \in Output(n)
  BY <1>2 DEF Output
<1>4. [f EXCEPT ![c].job = n, ![c].addr = a] =
        [f EXCEPT ![c] = [[f[c] EXCEPT !.job = n] EXCEPT !.addr = a]]
  OBVIOUS
<1>. QED  BY <1>3, <1>4

\* A matrix with one entry replaced.
LEMMA Entry ==
    ASSUME NEW A, NEW B, NEW V, NEW f \in [A -> [B -> V]], NEW a \in A, NEW b \in B, NEW v \in V
    PROVE  /\ [f EXCEPT ![a][b] = v] \in [A -> [B -> V]]
           /\ \A x \in A : \A y \in B :
                [f EXCEPT ![a][b] = v][x][y] = IF x = a /\ y = b THEN v ELSE f[x][y]
OBVIOUS

\* The current job is one of the model's.
LEMMA JobIsNamed ==
    ASSUME JobBudget, NEW j \in 0..current, j # None
    PROVE  j \in Jobs
<1>1. current \in Nat /\ budget["jobs"] \in Nat /\ current + budget["jobs"] <= MaxJobs
  BY DEF JobBudget, Inputs
<1>2. MaxJobs \in Nat
  BY StratumAssumption
<1>. QED  BY <1>1, <1>2 DEF Jobs

\* A write tells the miner of a job that is built.
LEMMA DeliverType ==
    ASSUME WireInv, JobBudget, NEW c \in Conns, NEW o \in Output(current), Deliver(c, o)
    PROVE  /\ told' \in [Conns -> AnyDiff]
           /\ agreed' \in [Conns -> [Jobs -> AnyDiff]]
           /\ sent' \in [Conns -> [Jobs -> Address]]
           /\ \A d \in Conns : \A j \in Jobs : agreed'[d][j] # None => j <= current
<1>1. o.diff \in AnyDiff /\ o.job \in 0..current /\ o.addr \in Address
  BY DEF Output
<1>2. told' \in [Conns -> AnyDiff] /\ told'[c] \in AnyDiff
  BY <1>1 DEF Deliver, WireInv
<1>3. CASE o.job = None
  BY <1>2, <1>3 DEF Deliver, WireInv
<1>4. CASE o.job # None
  <2>1. PICK j \in Jobs : j = o.job
    BY <1>1, <1>4, JobIsNamed
  <2>2. PICK v \in AnyDiff : v = told'[c]
    BY <1>2
  <2>3. /\ agreed' = [agreed EXCEPT ![c][j] = v]
        /\ sent' = [sent EXCEPT ![c][j] = o.addr]
    BY <1>4, <2>1, <2>2 DEF Deliver
  <2>4. /\ agreed \in [Conns -> [Jobs -> AnyDiff]]
        /\ sent \in [Conns -> [Jobs -> Address]]
    BY DEF WireInv
  <2>5. /\ agreed' \in [Conns -> [Jobs -> AnyDiff]]
        /\ sent' \in [Conns -> [Jobs -> Address]]
        /\ \A x \in Conns : \A y \in Jobs :
             agreed'[x][y] = IF x = c /\ y = j THEN v ELSE agreed[x][y]
    BY <1>1, <2>3, <2>4, Entry
  <2>6. j <= current
    BY <1>1, <2>1 DEF JobBudget
  <2>7. \A d \in Conns : \A k \in Jobs : agreed'[d][k] # None => k <= current
    BY <2>5, <2>6 DEF WireInv
  <2>. QED  BY <1>2, <2>5, <2>7
<1>. QED  BY <1>3, <1>4
\* A handler's buffer with another difficulty in it.
LEMMA WireDiff ==
    ASSUME WireInv, JobBudget, NEW c \in Conns, NEW d \in Diffs,
           out' = out \/ out' = [out EXCEPT ![c].diff = d],
           current' = current, wout' = wout, UNCHANGED knownVars
    PROVE  WireInv'
<1>1. out \in [Conns -> Output(current)] /\ current \in Nat /\ d \in AnyDiff
  BY DEF WireInv, JobBudget, AnyDiff
<1>2. out' \in [Conns -> Output(current)]
  BY <1>1, OutDiff
<1>. QED  BY <1>2 DEF WireInv, knownVars, Output

LEMMA WireStep ==
    ASSUME WireInv, RenderInv, JobBudget, HandlerInv, ListInv, [Next]_vars
    PROVE  WireInv'
<1>. USE DEF jobVars, walkVars, lifeVars, sessVars, shareVars, wireVars, OtherThanLife,
             NotShares, knownVars
<1>0. current \in Nat
  BY DEF JobBudget
<1>1. CASE SetJob
  <2>1. current' = current + 1 /\ UNCHANGED <<out, wout, told, agreed, sent>>
    BY <1>1 DEF SetJob
  <2>2. Output(current) \subseteq Output(current + 1)
    BY <1>0 DEF Output
  <2>3. out' \in [Conns -> Output(current)'] /\ wout' \in Output(current)'
    BY <2>1, <2>2 DEF WireInv, Output
  <2>4. \A c \in Conns : \A j \in Jobs : agreed'[c][j] # None => j <= current'
    BY <1>0, <2>1 DEF WireInv, Jobs
  <2>. QED  BY <2>1, <2>3, <2>4 DEF WireInv
<1>2. CASE Age
  BY <1>2, WireFrame DEF Age
<1>3. CASE Walk
  <2>1. CASE RetireJob \/ LockConns \/ SkipConn
    BY <2>1, WireFrame DEF RetireJob, LockConns, SkipConn
  <2>2. CASE RenderNotify
    <3>1. PICK c : c = Head(wlist)
      OBVIOUS
    <3>2. c \in Conns
      BY <2>2, <3>1, TailAlive DEF RenderNotify, ListInv
    <3>3. /\ cb' = [cb EXCEPT ![c] = Render(c, current)]
          /\ wout' = [diff |-> None, job |-> current, addr |-> cb'[c].addr]
          /\ UNCHANGED <<current, out, told, agreed, sent>>
      BY <2>2, <3>1 DEF RenderNotify
    <3>4. cb' \in [Conns -> Coinbase]
      BY <1>0, <3>2, <3>3, RenderedType
    <3>5. cb'[c].addr \in Address
      BY <3>2, <3>4 DEF Coinbase
    <3>6. wout' \in Output(current)
      BY <1>0, <3>3, <3>5 DEF Output, AnyDiff
    <3>. QED  BY <3>3, <3>6 DEF WireInv, Output
  <2>3. CASE WriteNotify
    <3>1. PICK c : c = Head(wlist)
      OBVIOUS
    <3>2. c \in Conns
      BY <2>3, <3>1, TailAlive DEF WriteNotify, ListInv
    <3>3. /\ wout' = NoOutput /\ UNCHANGED <<current, out>>
          /\ UNCHANGED <<told, agreed, sent>> \/ Deliver(c, wout)
      BY <2>3, <3>1 DEF WriteNotify
    <3>4. wout' \in Output(current)
      BY <1>0, <3>3, NoOutputType
    <3>5. /\ told' \in [Conns -> AnyDiff]
          /\ agreed' \in [Conns -> [Jobs -> AnyDiff]]
          /\ sent' \in [Conns -> [Jobs -> Address]]
          /\ \A d \in Conns : \A j \in Jobs : agreed'[d][j] # None => j <= current
      <4>1. CASE UNCHANGED <<told, agreed, sent>>
        BY <4>1 DEF WireInv
      <4>2. CASE Deliver(c, wout)
        <5>1. wout \in Output(current)
          BY DEF WireInv
        <5>. QED  BY <3>2, <4>2, <5>1, DeliverType
      <4>. QED  BY <3>3, <4>1, <4>2
    <3>. QED  BY <3>3, <3>4, <3>5 DEF WireInv, Output
  <2>. QED  BY <1>3, <2>1, <2>2, <2>3 DEF Walk
<1>4. ASSUME NEW l \in Listeners, Accept(l) \/ Count(l) \/ Register(l) PROVE WireInv'
  BY <1>4, WireFrame DEF Accept, Count, Register
<1>5. ASSUME NEW c \in Conns, Unregister(c) PROVE WireInv'
  BY <1>5, WireFrame DEF Unregister
<1>6. ASSUME NEW c \in Conns, Miner(c) PROVE WireInv'
  <2>1. ASSUME NEW a \in Addresses, Authorize(c, a) PROVE WireInv'
    BY <2>1, WireFrame DEF Authorize
  <2>2. ASSUME NEW s, Submit(c, s) PROVE WireInv'
    BY <2>2, WireFrame DEF Submit
  <2>3. CASE Subscribe(c) \/ Stall(c) \/ AuthorizeFails(c)
    BY <2>3, WireFrame DEF Subscribe, Stall, AuthorizeFails
  <2>5. CASE SuggestDifficulty(c)
    <3>1. PICK d \in Diffs : out' = IF authorized[c] THEN [out EXCEPT ![c].diff = d] ELSE out
      BY <2>5 DEF SuggestDifficulty
    <3>2. UNCHANGED <<current, wout, told, agreed, sent>>
      BY <2>5 DEF SuggestDifficulty
    <3>. QED  BY <3>1, <3>2, WireDiff
  <2>. QED  BY <1>6, <2>1, <2>2, <2>3, <2>5 DEF Miner
<1>7. ASSUME NEW c \in Conns, ConnThread(c) PROVE WireInv'
  <2>1. CASE AssignDifficulty(c)
    <3>1. PICK d \in Diffs : out' = [out EXCEPT ![c].diff = d]
      BY <2>1 DEF AssignDifficulty
    <3>2. UNCHANGED <<current, wout, told, agreed, sent>>
      BY <2>1 DEF AssignDifficulty
    <3>. QED  BY <3>1, <3>2, WireDiff
  <2>2. CASE NotifyAuthorized(c)
    <3>1. UNCHANGED <<current, wout, told, agreed, sent>>
      BY <2>2 DEF NotifyAuthorized
    <3>2. CASE current = None
      BY <2>2, <3>1, <3>2, WireFrame DEF NotifyAuthorized
    <3>3. CASE current # None
      <4>1. PICK f : f = cb'
        OBVIOUS
      <4>2. /\ f = [cb EXCEPT ![c] = Render(c, current)]
            /\ out' = [out EXCEPT ![c].job = current, ![c].addr = f[c].addr]
        BY <2>2, <3>3, <4>1 DEF NotifyAuthorized
      <4>3. f \in [Conns -> Coinbase]
        BY <1>0, <4>2, RenderedType
      <4>4. PICK a \in Address : a = f[c].addr
        BY <4>3 DEF Coinbase
      <4>5. out \in [Conns -> Output(current)]
        BY DEF WireInv
      <4>6. out' \in [Conns -> Output(current)]
        BY <1>0, <4>2, <4>4, <4>5, OutJob
      <4>. QED  BY <3>1, <4>6 DEF WireInv, Output
    <3>. QED  BY <3>2, <3>3
  <2>3. CASE WriteOut(c)
    <3>1. /\ out' = [out EXCEPT ![c] = NoOutput] /\ UNCHANGED <<current, wout>>
          /\ UNCHANGED <<told, agreed, sent>> \/ Deliver(c, out[c])
      BY <2>3 DEF WriteOut
    <3>2. out' \in [Conns -> Output(current)]
      BY <1>0, <3>1, NoOutputType DEF WireInv
    <3>3. /\ told' \in [Conns -> AnyDiff]
          /\ agreed' \in [Conns -> [Jobs -> AnyDiff]]
          /\ sent' \in [Conns -> [Jobs -> Address]]
          /\ \A d \in Conns : \A j \in Jobs : agreed'[d][j] # None => j <= current
      <4>1. CASE UNCHANGED <<told, agreed, sent>>
        BY <4>1 DEF WireInv
      <4>2. CASE Deliver(c, out[c])
        <5>1. out[c] \in Output(current)
          BY DEF WireInv
        <5>. QED  BY <4>2, <5>1, DeliverType
      <4>. QED  BY <3>1, <4>1, <4>2
    <3>. QED  BY <3>1, <3>2, <3>3 DEF WireInv, Output
  <2>4. CASE FindCurrent(c) \/ FindRecent(c)
    BY <2>4, WireFrame DEF FindCurrent, FindRecent
  <2>5. CASE Dedupe(c)
    BY <2>5, WireFrame DEF Dedupe
  <2>6. CASE Judge(c)
    <3>1. PICK d \in Diffs : out' = out \/ out' = [out EXCEPT ![c].diff = d]
      <4>1. CASE out' = out
        BY <4>1, LeastDifficulty
      <4>2. CASE out' # out
        BY <2>6, <4>2 DEF Judge
      <4>. QED  BY <4>1, <4>2
    <3>2. UNCHANGED <<current, wout, told, agreed, sent>>
      BY <2>6 DEF Judge
    <3>. QED  BY <3>1, <3>2, WireDiff
  <2>7. CASE CloseFd(c) \/ FreeConn(c)
    BY <2>7, WireFrame DEF CloseFd, FreeConn
  <2>. QED  BY <1>7, <2>1, <2>2, <2>3, <2>4, <2>5, <2>6, <2>7 DEF ConnThread
<1>8. CASE UNCHANGED vars
  BY <1>8, WireFrame DEF vars
<1>. QED  BY <1>1, <1>2, <1>3, <1>4, <1>5, <1>6, <1>7, <1>8 DEF Next
-----------------------------------------------------------------------------
(* The submit a connection's thread is handling. *)

LEMMA HandlerFrame ==
    ASSUME HandlerInv, JobBudget, UNCHANGED <<pc, msg>>,
           current' = current \/ current' = current + 1
    PROVE  HandlerInv'
<1>1. current \in Nat /\ 1..current \subseteq 1..current'
  BY DEF JobBudget
<1>. QED  BY <1>1 DEF HandlerInv, Job

Submits == {<<>>} \cup (Share \X Address)

\* One thread moves on.
LEMMA HandlerMove ==
    ASSUME HandlerInv, NEW c \in Conns,
           NEW x \in {"recv", "assign", "notify", "write", "find", "ring", "dedupe", "judge"},
           NEW m \in Submits,
           pc' = [pc EXCEPT ![c] = x], msg' = [msg EXCEPT ![c] = m], current' = current,
           x \in {"find", "ring", "dedupe", "judge"} =>
               m \in Share \X Address /\ m[1].job \in 1..current,
           x \in {"recv", "assign", "notify"} => m = <<>>
    PROVE  HandlerInv'
<1>1. pc \in [Conns -> {"recv", "assign", "notify", "write", "find", "ring", "dedupe", "judge"}]
      /\ msg \in [Conns -> Submits]
  BY DEF HandlerInv, Submits
<1>2. /\ pc' \in [Conns -> {"recv", "assign", "notify", "write",
                            "find", "ring", "dedupe", "judge"}]
      /\ msg' \in [Conns -> Submits]
      /\ pc'[c] = x /\ msg'[c] = m
      /\ \A d \in Conns : d # c => pc'[d] = pc[d] /\ msg'[d] = msg[d]
  BY <1>1
<1>3. ASSUME NEW d \in Conns, pc'[d] \in {"find", "ring", "dedupe", "judge"}
      PROVE  msg'[d] \in Share \X Address /\ msg'[d][1].job \in 1..current'
  BY <1>2, <1>3 DEF HandlerInv, Job
<1>4. ASSUME NEW d \in Conns, pc'[d] \in {"recv", "assign", "notify"}
      PROVE  msg'[d] = <<>>
  BY <1>2, <1>4 DEF HandlerInv
<1>. QED  BY <1>2, <1>3, <1>4 DEF HandlerInv, Job, Submits

\* One thread moves on with the same submit.
LEMMA HandlerGoto ==
    ASSUME HandlerInv, NEW c \in Conns,
           NEW x \in {"recv", "assign", "notify", "write", "find", "ring", "dedupe", "judge"},
           Goto(c, x), msg' = msg, current' = current,
           \/ x = "write"
           \/ /\ x \in {"find", "ring", "dedupe", "judge"}
              /\ pc[c] \in {"find", "ring", "dedupe", "judge"}
           \/ /\ x \in {"recv", "assign", "notify"}
              /\ pc[c] \in {"recv", "assign", "notify"}
    PROVE  HandlerInv'
<1>1. msg \in [Conns -> Submits]
  BY DEF HandlerInv, Submits
<1>2. PICK m \in Submits : m = msg[c]
  BY <1>1
<1>3. msg' = [msg EXCEPT ![c] = m]
  BY <1>1, <1>2
<1>4. x \in {"find", "ring", "dedupe", "judge"} =>
         m \in Share \X Address /\ m[1].job \in 1..current
  BY <1>2 DEF HandlerInv, Job
<1>5. x \in {"recv", "assign", "notify"} => m = <<>>
  BY <1>2 DEF HandlerInv
<1>. QED  BY <1>3, <1>4, <1>5, HandlerMove DEF Goto

LEMMA HandlerInit == Init => HandlerInv
BY DEF Init, HandlerInv

LEMMA HandlerStep ==
    ASSUME HandlerInv, WireInv, JobBudget, [Next]_vars
    PROVE  HandlerInv'
<1>. USE DEF jobVars, walkVars, lifeVars, sessVars, shareVars, wireVars, OtherThanLife,
             NotShares
<1>1. CASE SetJob \/ Age
  BY <1>1, HandlerFrame DEF SetJob, Age
<1>3. CASE Walk
  BY <1>3, HandlerFrame DEF Walk, RetireJob, LockConns, SkipConn, RenderNotify, WriteNotify
<1>4. ASSUME NEW l \in Listeners, Accept(l) \/ Count(l) \/ Register(l) PROVE HandlerInv'
  BY <1>4, HandlerFrame DEF Accept, Count, Register
<1>5. ASSUME NEW c \in Conns, Unregister(c) PROVE HandlerInv'
  BY <1>5, HandlerFrame DEF Unregister
<1>6. ASSUME NEW c \in Conns, Miner(c) PROVE HandlerInv'
  <2>1. ASSUME NEW a \in Addresses, Authorize(c, a) PROVE HandlerInv'
    BY <2>1, HandlerGoto DEF Authorize, Receives
  <2>2. ASSUME NEW s \in Share, Submit(c, s) PROVE HandlerInv'
    <3>1. PICK m : m = <<s, sent[c][s.job]>>
      OBVIOUS
    <3>2. /\ pc' = [pc EXCEPT ![c] = "find"] /\ current' = current
          /\ msg' = [msg EXCEPT ![c] = m] /\ agreed[c][s.job] # None
      BY <2>2, <3>1 DEF Submit, Goto
    <3>3. s.job \in Jobs
      BY DEF Share
    <3>4. m \in Share \X Address /\ m[1] = s
      BY <3>1, <3>3 DEF WireInv
    <3>5. s.job \in 1..current
      <4>1. s.job <= current /\ current \in Nat
        BY <3>2, <3>3 DEF WireInv, JobBudget
      <4>. QED  BY <3>3, <4>1 DEF Jobs
    <3>. QED  BY <3>2, <3>4, <3>5, HandlerMove DEF Submits
  <2>3. CASE Subscribe(c) \/ Stall(c) \/ AuthorizeFails(c)
    BY <2>3, HandlerFrame DEF Subscribe, Stall, AuthorizeFails
  <2>5. CASE SuggestDifficulty(c)
    BY <2>5, HandlerGoto DEF SuggestDifficulty
  <2>. QED  BY <1>6, <2>1, <2>2, <2>3, <2>5 DEF Miner
<1>7. ASSUME NEW c \in Conns, ConnThread(c) PROVE HandlerInv'
  <2>1. CASE AssignDifficulty(c)
    BY <2>1, HandlerGoto DEF AssignDifficulty
  <2>2. CASE NotifyAuthorized(c)
    BY <2>2, HandlerGoto DEF NotifyAuthorized
  <2>3. CASE WriteOut(c)
    BY <2>3, HandlerMove DEF WriteOut, Goto, Submits
  <2>4. CASE FindCurrent(c)
    BY <2>4, HandlerGoto DEF FindCurrent
  <2>5. CASE FindRecent(c)
    BY <2>5, HandlerGoto DEF FindRecent
  <2>6. CASE Dedupe(c)
    <3>1. /\ pc[c] = "dedupe" /\ UNCHANGED <<msg, current>>
          /\ Goto(c, "write") \/ Goto(c, "judge")
      BY <2>6 DEF Dedupe, Refuse
    <3>. QED  BY <3>1, HandlerGoto
  <2>7. CASE Judge(c)
    <3>1. Goto(c, "write") /\ UNCHANGED <<msg, current>>
      BY <2>7 DEF Judge
    <3>. QED  BY <3>1, HandlerGoto
  <2>8. CASE CloseFd(c) \/ FreeConn(c)
    BY <2>8, HandlerFrame DEF CloseFd, FreeConn
  <2>. QED  BY <1>7, <2>1, <2>2, <2>3, <2>4, <2>5, <2>6, <2>7, <2>8 DEF ConnThread
<1>8. CASE UNCHANGED vars
  BY <1>8, HandlerFrame DEF vars
<1>. QED  BY <1>1, <1>3, <1>4, <1>5, <1>6, <1>7, <1>8 DEF Next

Base == JobBudget /\ AcceptInv /\ ListInv /\ RenderInv /\ WireInv /\ HandlerInv

LEMMA BaseInvariant == Spec => []Base
<1>1. Init => Base
  BY JobBudgetInit, AcceptInit, ListInit, RenderInit, WireInit, HandlerInit DEF Base
<1>2. Base /\ [Next]_vars => Base'
  BY JobBudgetStep, AcceptStep, ListStep, RenderStep, WireStep, HandlerStep DEF Base
<1>. QED  BY <1>1, <1>2, PTL DEF Spec
-----------------------------------------------------------------------------
(* The references to a job. *)

InRing(j)  == {i \in DOMAIN recent : recent[i] = j}
Readers(j) == {c \in Conns : Holds(c, j)}
Reading    == {"dedupe", "judge"}

RingInv ==
    /\ recent \in [0..RecentJobs - 1 -> 0..current]
    /\ head \in 0..RecentJobs - 1
    /\ wold \in 0..current
    /\ wpc # "retire" => wold = None

RefInv == RingInv /\ refs \in [Jobs -> Nat] /\ RefsExact

LEMMA RingFrame ==
    ASSUME RingInv, UNCHANGED <<recent, head, wold, current>>,
           wpc' = "retire" <=> wpc = "retire"
    PROVE  RingInv'
BY DEF RingInv

LEMMA RefFrame ==
    ASSUME RefInv, UNCHANGED <<recent, head, wold, refs, current>>,
           wpc' = "retire" <=> wpc = "retire",
           \A c \in Conns : \A j \in Jobs : Holds(c, j)' <=> Holds(c, j)
    PROVE  RefInv'
<1>1. RingInv'
  BY RingFrame DEF RefInv
<1>2. ASSUME NEW j \in Jobs
      PROVE  refs'[j] = One(current' = j) + One(wold' = j)
                        + Cardinality({i \in DOMAIN recent' : recent'[i] = j})
                        + Cardinality({c \in Conns : Holds(c, j)'})
  <2>1. {c \in Conns : Holds(c, j)'} = {c \in Conns : Holds(c, j)}
    OBVIOUS
  <2>. QED  BY <2>1 DEF RefInv, RefsExact
<1>3. RefsExact'
  BY <1>2 DEF RefsExact
<1>. QED  BY <1>1, <1>3 DEF RefInv

LEMMA RefHoldFrame ==
    ASSUME RefInv, UNCHANGED <<recent, head, wold, refs, current, pc, msg>>,
           wpc' = "retire" <=> wpc = "retire"
    PROVE  RefInv'
<1>1. \A c \in Conns : \A j \in Jobs : Holds(c, j)' <=> Holds(c, j)
  BY DEF Holds, Job
<1>. QED  BY <1>1, RefFrame

\* A thread that reads no job, before or after.
LEMMA RefGoto ==
    ASSUME RefInv, HandlerInv, UNCHANGED <<recent, head, wold, refs, current, wpc>>,
           NEW c \in Conns, NEW x, Goto(c, x), x \notin Reading, pc[c] \notin Reading,
           NEW m, msg' = msg \/ msg' = [msg EXCEPT ![c] = m]
    PROVE  RefInv'
<1>1. /\ pc'[c] \notin Reading
      /\ \A d \in Conns : d # c => pc'[d] = pc[d] /\ msg'[d] = msg[d]
  BY DEF Goto, HandlerInv
<1>2. \A d \in Conns : \A j \in Jobs : Holds(d, j)' <=> Holds(d, j)
  BY <1>1 DEF Holds, Job, Reading
<1>. QED  BY <1>2, RefFrame

\* The sets that are counted are finite.
LEMMA Counts ==
    ASSUME RingInv, NEW j
    PROVE  /\ IsFiniteSet(InRing(j)) /\ Cardinality(InRing(j)) \in Nat
           /\ IsFiniteSet(Readers(j)) /\ Cardinality(Readers(j)) \in Nat
           /\ One(current = j) \in Nat /\ One(wold = j) \in Nat
<1>1. IsFiniteSet(Conns) /\ IsFiniteSet(0..RecentJobs - 1)
  <2>1. RecentJobs - 1 \in Int /\ MaxAccepts \in Int
    BY StratumAssumption
  <2>. QED  BY <2>1, FS_Interval DEF Conns
<1>2. DOMAIN recent = 0..RecentJobs - 1
  BY DEF RingInv
<1>3. IsFiniteSet(InRing(j)) /\ IsFiniteSet(Readers(j))
  BY <1>1, <1>2, FS_Subset DEF InRing, Readers
<1>. QED  BY <1>3, FS_CardinalityType DEF One

\* A reference taken.
LEMMA RefTaken ==
    ASSUME RefInv, HandlerInv, JobBudget, NEW c \in Conns,
           pc[c] \in {"find", "ring"}, Goto(c, "dedupe"), msg' = msg,
           refs' = [refs EXCEPT ![Job(c)] = @ + 1],
           UNCHANGED <<recent, head, wold, current, wpc>>
    PROVE  RefInv'
<1>1. Job(c) \in Jobs /\ RingInv /\ refs \in [Jobs -> Nat]
  BY HandlerJob DEF RefInv
<1>2. RingInv'
  BY <1>1, RingFrame
<1>3. refs' \in [Jobs -> Nat]
  BY <1>1
<1>4. /\ pc'[c] = "dedupe" /\ \A d \in Conns : d # c => pc'[d] = pc[d]
  BY DEF Goto, HandlerInv
<1>5. ASSUME NEW j \in Jobs
      PROVE  /\ c \notin Readers(j)
             /\ Readers(j)' = IF j = Job(c) THEN Readers(j) \cup {c} ELSE Readers(j)
  <2>1. c \notin Readers(j)
    BY DEF Readers, Holds
  <2>2. \A d \in Conns : Holds(d, j)' <=> Holds(d, j) \/ (d = c /\ j = Job(c))
    BY <1>4 DEF Holds, Job
  <2>. QED  BY <2>1, <2>2 DEF Readers
<1>6. ASSUME NEW j \in Jobs
      PROVE  refs'[j] = One(current' = j) + One(wold' = j)
                        + Cardinality(InRing(j)') + Cardinality(Readers(j)')
  <2>1. refs[j] = One(current = j) + One(wold = j) + Cardinality(InRing(j))
                  + Cardinality(Readers(j))
    BY DEF RefInv, RefsExact, InRing, Readers
  <2>2. InRing(j)' = InRing(j)
    BY DEF InRing
  <2>3. /\ Cardinality(InRing(j)) \in Nat /\ Cardinality(Readers(j)) \in Nat
        /\ IsFiniteSet(Readers(j)) /\ One(current = j) \in Nat /\ One(wold = j) \in Nat
    BY <1>1, Counts
  <2>4. Cardinality(Readers(j)') = Cardinality(Readers(j)) + (IF j = Job(c) THEN 1 ELSE 0)
    BY <1>5, <2>3, FS_AddElement
  <2>5. refs'[j] = refs[j] + (IF j = Job(c) THEN 1 ELSE 0)
    BY <1>1
  <2>6. One(current' = j) = One(current = j) /\ One(wold' = j) = One(wold = j)
    OBVIOUS
  <2>. QED  BY <2>1, <2>2, <2>3, <2>4, <2>5, <2>6
<1>7. RefsExact'
  BY <1>6 DEF RefsExact, InRing, Readers
<1>. QED  BY <1>2, <1>3, <1>7 DEF RefInv

\* A reference given back.
LEMMA RefReleased ==
    ASSUME RefInv, HandlerInv, JobBudget, NEW c \in Conns,
           pc[c] \in Reading, Goto(c, "write"), msg' = msg, Release(c),
           UNCHANGED <<recent, head, wold, current, wpc>>
    PROVE  RefInv'
<1>1. Job(c) \in Jobs /\ RingInv /\ refs \in [Jobs -> Nat]
  BY HandlerJob DEF RefInv, Reading
<1>2. RingInv'
  BY <1>1, RingFrame
<1>4. /\ pc'[c] = "write" /\ \A d \in Conns : d # c => pc'[d] = pc[d]
  BY DEF Goto, HandlerInv
<1>5. ASSUME NEW j \in Jobs
      PROVE  /\ j = Job(c) => c \in Readers(j)
             /\ Readers(j)' = IF j = Job(c) THEN Readers(j) \ {c} ELSE Readers(j)
  <2>1. c \in Readers(j) <=> j = Job(c)
    BY DEF Readers, Holds, Reading
  <2>2. \A d \in Conns : Holds(d, j)' <=> Holds(d, j) /\ d # c
    BY <1>4 DEF Holds, Job
  <2>. QED  BY <2>1, <2>2 DEF Readers
<1>6. ASSUME NEW j \in Jobs
      PROVE  /\ refs'[j] = One(current' = j) + One(wold' = j)
                           + Cardinality(InRing(j)') + Cardinality(Readers(j)')
             /\ refs'[j] \in Nat
  <2>1. refs[j] = One(current = j) + One(wold = j) + Cardinality(InRing(j))
                  + Cardinality(Readers(j))
    BY DEF RefInv, RefsExact, InRing, Readers
  <2>2. InRing(j)' = InRing(j)
    BY DEF InRing
  <2>3. /\ Cardinality(InRing(j)) \in Nat /\ Cardinality(Readers(j)) \in Nat
        /\ IsFiniteSet(Readers(j)) /\ One(current = j) \in Nat /\ One(wold = j) \in Nat
    BY <1>1, Counts
  <2>4. /\ Cardinality(Readers(j)') = Cardinality(Readers(j)) - (IF j = Job(c) THEN 1 ELSE 0)
        /\ Cardinality(Readers(j)') \in Nat
    <3>1. CASE j = Job(c)
      <4>1. c \in Readers(j) /\ Readers(j)' = Readers(j) \ {c}
        BY <1>5, <3>1
      <4>2. /\ IsFiniteSet(Readers(j) \ {c})
            /\ Cardinality(Readers(j) \ {c}) = Cardinality(Readers(j)) - 1
        BY <2>3, <4>1, FS_RemoveElement
      <4>3. Cardinality(Readers(j) \ {c}) \in Nat
        BY <4>2, FS_CardinalityType
      <4>. QED  BY <3>1, <4>1, <4>2, <4>3
    <3>2. CASE j # Job(c)
      BY <1>5, <2>3, <3>2
    <3>. QED  BY <3>1, <3>2
  <2>5. refs'[j] = refs[j] - (IF j = Job(c) THEN 1 ELSE 0)
    BY <1>1 DEF Release
  <2>6. One(current' = j) = One(current = j) /\ One(wold' = j) = One(wold = j)
    OBVIOUS
  <2>. QED  BY <2>1, <2>2, <2>3, <2>4, <2>5, <2>6
<1>7. RefsExact'
  BY <1>6 DEF RefsExact, InRing, Readers
<1>8. refs' \in [Jobs -> Nat]
  <2>1. DOMAIN refs' = Jobs /\ refs' = [j \in Jobs |-> refs'[j]]
    BY <1>1 DEF Release
  <2>. QED  BY <1>6, <2>1
<1>. QED  BY <1>2, <1>7, <1>8 DEF RefInv
\* A job published: the server's own reference, and the one it had on the job
\* before, now in the watcher's hands.
LEMMA RefSetJob ==
    ASSUME RefInv, HandlerInv, JobBudget, SetJob
    PROVE  RefInv'
<1>1. /\ wpc = "idle" /\ current' = current + 1 /\ wold' = current
      /\ refs' = [refs EXCEPT ![current + 1] = 1]
      /\ wpc' = (IF current = None THEN "lock" ELSE "retire")
      /\ UNCHANGED <<recent, head, pc, msg>>
  BY DEF SetJob, shareVars
<1>2. current \in Nat /\ RingInv /\ refs \in [Jobs -> Nat] /\ wold = None
  BY <1>1 DEF JobBudget, RefInv, RingInv
<1>3. current + 1 \in Jobs
  <2>1. "jobs" \in Inputs /\ Spend("jobs") /\ budget \in [Inputs -> Nat]
    BY DEF SetJob, JobBudget, Inputs
  <2>2. budget["jobs"] \in Nat /\ budget["jobs"] > 0 /\ current + budget["jobs"] <= MaxJobs
    BY <2>1 DEF JobBudget, Spend
  <2>3. MaxJobs \in Nat
    BY StratumAssumption
  <2>. QED  BY <1>2, <2>2, <2>3 DEF Jobs
<1>4. RingInv'
  <2>1. 0..current \subseteq 0..current'
    BY <1>1, <1>2
  <2>2. recent \in [0..RecentJobs - 1 -> 0..current']
    BY <1>2, <2>1 DEF RingInv
  <2>3. wold' \in 0..current'
    BY <1>1, <1>2
  <2>4. wpc' # "retire" => wold' = None
    BY <1>1
  <2>. QED  BY <1>1, <1>2, <2>2, <2>3, <2>4 DEF RingInv
<1>5. refs' \in [Jobs -> Nat]
  BY <1>1, <1>2
<1>6. ASSUME NEW j \in Jobs
      PROVE  refs'[j] = One(current' = j) + One(wold' = j)
                        + Cardinality(InRing(j)') + Cardinality(Readers(j)')
  <2>1. refs[j] = One(current = j) + One(wold = j) + Cardinality(InRing(j))
                  + Cardinality(Readers(j))
    BY DEF RefInv, RefsExact, InRing, Readers
  <2>2. InRing(j)' = InRing(j) /\ Readers(j)' = Readers(j)
    BY <1>1 DEF InRing, Readers, Holds, Job
  <2>3. /\ Cardinality(InRing(j)) \in Nat /\ Cardinality(Readers(j)) \in Nat
    BY <1>2, Counts
  <2>4. j \in Nat \ {0}
    BY StratumAssumption DEF Jobs
  <2>5. CASE j = current + 1
    <3>1. InRing(j) = {}
      BY <1>2, <2>5 DEF InRing, RingInv
    <3>2. Readers(j) = {}
      <4>1. ASSUME NEW c \in Conns, Holds(c, j) PROVE FALSE
        BY <1>2, <2>5, <4>1, HandlerJob DEF Holds
      <4>. QED  BY <4>1 DEF Readers
    <3>3. Cardinality(InRing(j)) = 0 /\ Cardinality(Readers(j)) = 0
      BY <3>1, <3>2, FS_EmptySet
    <3>4. refs'[j] = 1
      BY <1>1, <1>2, <2>5
    <3>5. One(current' = j) = 1 /\ One(wold' = j) = 0
      BY <1>1, <1>2, <2>5 DEF One
    <3>. QED  BY <2>2, <3>3, <3>4, <3>5
  <2>6. CASE j # current + 1
    <3>1. refs'[j] = refs[j]
      BY <1>1, <1>2, <2>6
    <3>2. One(current' = j) = 0 /\ One(wold' = j) = One(current = j) /\ One(wold = j) = 0
      BY <1>1, <1>2, <2>4, <2>6 DEF One
    <3>3. One(current = j) \in Nat
      BY DEF One
    <3>. QED  BY <2>1, <2>2, <2>3, <3>1, <3>2, <3>3
  <2>. QED  BY <2>5, <2>6
<1>7. RefsExact'
  BY <1>6 DEF RefsExact, InRing, Readers
<1>. QED  BY <1>4, <1>5, <1>7 DEF RefInv

\* retire_job: what leaves the ring gives its references back, and the job in
\* the watcher's hands brings its own into the slot.
LEMMA RefRetire ==
    ASSUME RefInv, HandlerInv, JobBudget, RetireJob
    PROVE  RefInv'
<1>. DEFINE S == Expired \cup {head}
            Gone(j) == {i \in S : recent[i] = j}
<1>1. /\ wpc = "retire" /\ wpc' = "lock" /\ wold' = None
      /\ refs' = [j \in Jobs |-> refs[j] - Cardinality(Gone(j))]
      /\ recent' = [i \in DOMAIN recent |->
                      IF i = head THEN wold
                      ELSE IF i \in Expired THEN None ELSE recent[i]]
      /\ head' = (head + 1) % RecentJobs
      /\ UNCHANGED <<current, pc, msg>>
  BY DEF RetireJob, Released, shareVars
<1>2. /\ current \in Nat /\ RingInv /\ refs \in [Jobs -> Nat]
      /\ recent \in [0..RecentJobs - 1 -> 0..current]
      /\ head \in 0..RecentJobs - 1 /\ wold \in 0..current
      /\ RecentJobs \in Nat \ {0}
  BY StratumAssumption DEF JobBudget, RefInv, RingInv
<1>3. S \subseteq DOMAIN recent
  BY <1>2 DEF Expired
<1>4. RingInv'
  <2>1. head' \in 0..RecentJobs - 1
    BY <1>1, <1>2
  <2>2. recent' \in [0..RecentJobs - 1 -> 0..current]
    BY <1>1, <1>2
  <2>. QED  BY <1>1, <1>2, <2>1, <2>2 DEF RingInv
<1>5. ASSUME NEW j \in Jobs
      PROVE  /\ refs'[j] = One(current' = j) + One(wold' = j)
                           + Cardinality(InRing(j)') + Cardinality(Readers(j)')
             /\ refs'[j] \in Nat
  <2>0. j \in Nat \ {0}
    BY StratumAssumption DEF Jobs
  <2>1. refs[j] = One(current = j) + One(wold = j) + Cardinality(InRing(j))
                  + Cardinality(Readers(j))
    BY DEF RefInv, RefsExact, InRing, Readers
  <2>2. Readers(j)' = Readers(j)
    BY <1>1 DEF Readers, Holds, Job
  <2>3. /\ Cardinality(InRing(j)) \in Nat /\ Cardinality(Readers(j)) \in Nat
        /\ IsFiniteSet(InRing(j)) /\ One(current = j) \in Nat /\ One(wold = j) \in Nat
    BY <1>2, Counts
  <2>4. Gone(j) \subseteq InRing(j)
    BY <1>3 DEF InRing
  <2>5. InRing(j)' = (InRing(j) \ Gone(j)) \cup (IF wold = j THEN {head} ELSE {})
    BY <1>1, <1>2, <1>3, <2>0 DEF InRing
  <2>6. head \notin InRing(j) \ Gone(j)
    BY DEF InRing
  <2>. HIDE DEF Gone
  <2>7. PICK K : K = InRing(j) \ Gone(j)
    OBVIOUS
  <2>8. IsFiniteSet(K) /\ IsFiniteSet(Gone(j))
    BY <2>3, <2>4, <2>7, FS_Subset
  <2>9. InRing(j) = K \cup Gone(j) /\ K \cap Gone(j) = {}
    BY <2>4, <2>7
  <2>10. /\ Cardinality(K) \in Nat /\ Cardinality(Gone(j)) \in Nat
         /\ Cardinality(InRing(j)) = Cardinality(K) + Cardinality(Gone(j))
    <3>1. Cardinality(K) \in Nat /\ Cardinality(Gone(j)) \in Nat /\ Cardinality({}) = 0
      BY <2>8, FS_CardinalityType, FS_EmptySet
    <3>2. Cardinality(K \cup Gone(j)) = Cardinality(K) + Cardinality(Gone(j)) - Cardinality({})
      BY <2>8, <2>9, FS_Union
    <3>. QED  BY <2>9, <3>1, <3>2
  <2>11. Cardinality(InRing(j)') = Cardinality(K) + One(wold = j)
    <3>1. CASE wold = j
      <4>1. InRing(j)' = K \cup {head} /\ head \notin K
        BY <2>5, <2>6, <2>7, <3>1
      <4>2. Cardinality(K \cup {head}) = Cardinality(K) + 1
        BY <2>8, <4>1, FS_AddElement
      <4>. QED  BY <3>1, <4>1, <4>2 DEF One
    <3>2. CASE wold # j
      <4>1. InRing(j)' = K
        BY <2>5, <2>7, <3>2
      <4>. QED  BY <2>10, <3>2, <4>1 DEF One
    <3>. QED  BY <3>1, <3>2
  <2>12. refs'[j] = refs[j] - Cardinality(Gone(j))
    BY <1>1
  <2>13. One(current' = j) = One(current = j) /\ One(wold' = j) = 0
    BY <1>1, <2>0 DEF One
  <2>. QED  BY <2>1, <2>2, <2>3, <2>10, <2>11, <2>12, <2>13
<1>6. RefsExact'
  BY <1>5 DEF RefsExact, InRing, Readers
<1>7. refs' \in [Jobs -> Nat]
  <2>1. refs' = [j \in Jobs |-> refs'[j]]
    BY <1>1
  <2>. QED  BY <1>5, <2>1
<1>. QED  BY <1>4, <1>6, <1>7 DEF RefInv
LEMMA RefInit == Init => RefInv
<1> SUFFICES ASSUME Init PROVE RefInv
  OBVIOUS
<1>1. /\ current = 0 /\ head = 0 /\ wold = 0 /\ wpc = "idle"
      /\ recent = [i \in 0..RecentJobs - 1 |-> 0] /\ refs = [j \in Jobs |-> 0]
      /\ pc = [c \in Conns |-> "recv"]
  BY DEF Init
<1>2. RecentJobs \in Nat \ {0} /\ \A j \in Jobs : j \in Nat \ {0}
  BY StratumAssumption DEF Jobs
<1>3. RingInv
  BY <1>1, <1>2 DEF RingInv
<1>4. ASSUME NEW j \in Jobs
      PROVE  refs[j] = One(current = j) + One(wold = j)
                       + Cardinality(InRing(j)) + Cardinality(Readers(j))
  <2>1. InRing(j) = {} /\ Readers(j) = {}
    BY <1>1, <1>2 DEF InRing, Readers, Holds
  <2>2. Cardinality(InRing(j)) = 0 /\ Cardinality(Readers(j)) = 0
    BY <2>1, FS_EmptySet
  <2>3. One(current = j) = 0 /\ One(wold = j) = 0
    BY <1>1, <1>2 DEF One
  <2>. QED  BY <1>1, <2>2, <2>3
<1>5. RefsExact
  BY <1>4 DEF RefsExact, InRing, Readers
<1>. QED  BY <1>1, <1>3, <1>5 DEF RefInv

LEMMA RefStep ==
    ASSUME RefInv, HandlerInv, JobBudget, [Next]_vars
    PROVE  RefInv'
<1>. USE DEF jobVars, walkVars, lifeVars, sessVars, shareVars, wireVars, OtherThanLife,
             NotShares
<1>1. CASE SetJob
  BY <1>1, RefSetJob
<1>2. CASE Age
  BY <1>2, RefHoldFrame DEF Age
<1>3. CASE Walk
  <2>1. CASE RetireJob
    BY <2>1, RefRetire
  <2>2. CASE LockConns \/ SkipConn \/ RenderNotify \/ WriteNotify
    <3>1. /\ UNCHANGED <<recent, head, wold, refs, current, pc, msg>>
          /\ wpc # "retire" /\ wpc' # "retire"
      BY <2>2 DEF LockConns, SkipConn, RenderNotify, WriteNotify, WalkOn
    <3>. QED  BY <3>1, RefHoldFrame
  <2>. QED  BY <1>3, <2>1, <2>2 DEF Walk
<1>4. ASSUME NEW l \in Listeners, Accept(l) \/ Count(l) \/ Register(l) PROVE RefInv'
  BY <1>4, RefHoldFrame DEF Accept, Count, Register
<1>5. ASSUME NEW c \in Conns, Unregister(c) PROVE RefInv'
  BY <1>5, RefHoldFrame DEF Unregister
<1>6. ASSUME NEW c \in Conns, Miner(c) PROVE RefInv'
  <2>1. ASSUME NEW a \in Addresses, Authorize(c, a) PROVE RefInv'
    BY <2>1, RefGoto DEF Authorize, Receives, Reading
  <2>2. ASSUME NEW s \in Share, Submit(c, s) PROVE RefInv'
    BY <2>2, RefGoto DEF Submit, Receives, Reading
  <2>3. CASE Subscribe(c) \/ Stall(c) \/ AuthorizeFails(c)
    BY <2>3, RefHoldFrame DEF Subscribe, Stall, AuthorizeFails
  <2>5. CASE SuggestDifficulty(c)
    BY <2>5, RefGoto DEF SuggestDifficulty, Receives, Reading
  <2>. QED  BY <1>6, <2>1, <2>2, <2>3, <2>5 DEF Miner
<1>7. ASSUME NEW c \in Conns, ConnThread(c) PROVE RefInv'
  <2>1. CASE AssignDifficulty(c)
    BY <2>1, RefGoto DEF AssignDifficulty, Reading
  <2>2. CASE NotifyAuthorized(c)
    BY <2>2, RefGoto DEF NotifyAuthorized, Reading
  <2>3. CASE WriteOut(c)
    BY <2>3, RefGoto DEF WriteOut, Reading
  <2>4. CASE FindCurrent(c)
    <3>1. CASE current = Job(c)
      BY <2>4, <3>1, RefTaken DEF FindCurrent
    <3>2. CASE current # Job(c)
      BY <2>4, <3>2, RefGoto DEF FindCurrent, Reading
    <3>. QED  BY <3>1, <3>2
  <2>5. CASE FindRecent(c)
    <3>1. CASE \E i \in DOMAIN recent : recent[i] = Job(c)
      BY <2>5, <3>1, RefTaken DEF FindRecent
    <3>2. CASE ~\E i \in DOMAIN recent : recent[i] = Job(c)
      BY <2>5, <3>2, RefGoto DEF FindRecent, Reading
    <3>. QED  BY <3>1, <3>2
  <2>6. CASE Dedupe(c)
    <3>1. /\ pc[c] \in Reading /\ UNCHANGED <<recent, head, wold, current, wpc, msg>>
          /\ \/ Release(c) /\ Goto(c, "write")
             \/ Goto(c, "judge") /\ pc[c] = "dedupe" /\ UNCHANGED refs
      BY <2>6 DEF Dedupe, Refuse, Reading
    <3>2. CASE Release(c) /\ Goto(c, "write")
      BY <3>1, <3>2, RefReleased
    <3>3. CASE Goto(c, "judge") /\ pc[c] = "dedupe" /\ UNCHANGED refs
      <4>1. \A d \in Conns : pc'[d] \in Reading <=> pc[d] \in Reading
        BY <3>3 DEF Goto, HandlerInv, Reading
      <4>2. \A d \in Conns : \A j \in Jobs : Holds(d, j)' <=> Holds(d, j)
        BY <3>1, <4>1 DEF Holds, Job, Reading
      <4>. QED  BY <3>1, <3>3, <4>2, RefFrame
    <3>. QED  BY <3>1, <3>2, <3>3
  <2>7. CASE Judge(c)
    <3>1. /\ pc[c] \in Reading /\ UNCHANGED <<recent, head, wold, current, wpc, msg>>
          /\ Release(c) /\ Goto(c, "write")
      BY <2>7 DEF Judge, Reading
    <3>. QED  BY <3>1, RefReleased
  <2>8. CASE CloseFd(c) \/ FreeConn(c)
    BY <2>8, RefHoldFrame DEF CloseFd, FreeConn
  <2>. QED  BY <1>7, <2>1, <2>2, <2>3, <2>4, <2>5, <2>6, <2>7, <2>8 DEF ConnThread
<1>8. CASE UNCHANGED vars
  BY <1>8, RefHoldFrame DEF vars
<1>. QED  BY <1>1, <1>2, <1>3, <1>4, <1>5, <1>6, <1>7, <1>8 DEF Next

LEMMA RefInvariant == Spec => []RefInv
<1>1. Base => HandlerInv /\ JobBudget
  BY DEF Base
<1>. QED  BY <1>1, BaseInvariant, RefInit, RefStep, PTL DEF Spec

\* However publishing, retiring, expiry and submits interleave, refs counts
\* exactly the hands a job is in: none is freed while a submit reads it, and
\* none is leaked.
THEOREM JobsAreCounted == Spec => []RefsExact
<1>1. RefInv => RefsExact
  BY DEF RefInv
<1>. QED  BY <1>1, RefInvariant, PTL

-----------------------------------------------------------------------------
(* Stale shares. *)

Verdict == [meets : AnyDiff,
            verdict : {"none", "dup", "bad", "render", "stale", "low", "ok"},
            credit : AnyDiff, inHand : BOOLEAN]

\* A thread past find_job's first look has a job older than the current one;
\* a verdict stands only while it is written, and a stale one is about a job
\* that neither the ring nor the watcher has.
StaleInv ==
    /\ res \in [Conns -> Verdict]
    /\ \A c \in Conns : pc[c] # "write" => res[c].verdict = "none"
    /\ \A c \in Conns : pc[c] = "ring" => Job(c) < current
    /\ \A c \in Conns : pc[c] = "write" /\ res[c].verdict = "stale" =>
          /\ Job(c) \in Nat \ {0} /\ Job(c) < current
          /\ res[c].inHand \/ (Job(c) # wold /\ \A i \in DOMAIN recent : recent[i] # Job(c))
LEMMA StaleFrame ==
    ASSUME StaleInv, UNCHANGED <<pc, msg, res, current, wold, recent>>
    PROVE  StaleInv'
BY DEF StaleInv, Job

\* One thread moves on.
LEMMA StaleMove ==
    ASSUME StaleInv, HandlerInv, NEW c \in Conns, NEW x, NEW v \in Verdict, NEW m,
           pc' = [pc EXCEPT ![c] = x], res' = [res EXCEPT ![c] = v],
           msg' = [msg EXCEPT ![c] = m],
           UNCHANGED <<current, wold, recent>>,
           x # "write" => v.verdict = "none",
           x = "ring" => m[1].job < current,
           x = "write" /\ v.verdict = "stale" =>
               /\ m[1].job \in Nat \ {0} /\ m[1].job < current
               /\ v.inHand \/ (m[1].job # wold /\ \A i \in DOMAIN recent : recent[i] # m[1].job)
    PROVE  StaleInv'
<1>1. /\ pc'[c] = x /\ res'[c] = v /\ msg'[c] = m
      /\ \A d \in Conns : d # c => pc'[d] = pc[d] /\ res'[d] = res[d] /\ msg'[d] = msg[d]
      /\ res' \in [Conns -> Verdict]
  BY DEF StaleInv, HandlerInv
<1>2. ASSUME NEW d \in Conns
      PROVE  /\ pc'[d] # "write" => res'[d].verdict = "none"
             /\ pc'[d] = "ring" => msg'[d][1].job < current
             /\ pc'[d] = "write" /\ res'[d].verdict = "stale" =>
                 /\ msg'[d][1].job \in Nat \ {0} /\ msg'[d][1].job < current
                 /\ \/ res'[d].inHand
                    \/ /\ msg'[d][1].job # wold
                       /\ \A i \in DOMAIN recent : recent[i] # msg'[d][1].job
  <2>1. CASE d = c
    BY <1>1, <2>1
  <2>2. CASE d # c
    <3>1. pc'[d] = pc[d] /\ res'[d] = res[d] /\ msg'[d] = msg[d]
      BY <1>1, <2>2
    <3>. QED  BY <3>1 DEF StaleInv, Job
  <2>. QED  BY <2>1, <2>2
<1>. QED  BY <1>1, <1>2 DEF StaleInv, Job

LEMMA SameEntry ==
    ASSUME NEW A, NEW V, NEW f \in [A -> V], NEW a \in A
    PROVE  f = [f EXCEPT ![a] = f[a]]
OBVIOUS

\* One thread moves on with the same submit and another verdict.
LEMMA StaleAnswer ==
    ASSUME StaleInv, HandlerInv, NEW c \in Conns, NEW x, NEW v \in Verdict,
           Goto(c, x), res' = [res EXCEPT ![c] = v], msg' = msg,
           UNCHANGED <<current, wold, recent>>,
           x # "write" => v.verdict = "none",
           x = "ring" => Job(c) < current,
           x = "write" /\ v.verdict = "stale" =>
               /\ Job(c) \in Nat \ {0} /\ Job(c) < current
               /\ v.inHand \/ (Job(c) # wold /\ \A i \in DOMAIN recent : recent[i] # Job(c))
    PROVE  StaleInv'
<1>1. msg \in [Conns -> Submits]
  BY DEF HandlerInv, Submits
<1>2. PICK m : m = msg[c]
  OBVIOUS
<1>3. msg' = [msg EXCEPT ![c] = m]
  BY <1>1, <1>2, SameEntry
<1>4. Job(c) = m[1].job
  BY <1>2 DEF Job
<1>. QED  BY <1>3, <1>4, StaleMove DEF Goto

\* A thread with no verdict moves on without one.
LEMMA StaleGoto ==
    ASSUME StaleInv, HandlerInv, NEW c \in Conns, NEW x,
           Goto(c, x), res' = res, msg' = msg,
           UNCHANGED <<current, wold, recent>>,
           pc[c] # "write", x = "ring" => Job(c) < current
    PROVE  StaleInv'
<1>1. res \in [Conns -> Verdict] /\ res[c].verdict = "none"
  BY DEF StaleInv
<1>2. PICK v \in Verdict : v = res[c]
  BY <1>1
<1>3. res' = [res EXCEPT ![c] = v]
  BY <1>1, <1>2, SameEntry
<1>. QED  BY <1>1, <1>2, <1>3, StaleAnswer

LEMMA NoVerdictType == NoVerdict \in Verdict /\ NoVerdict.verdict = "none"
<1>1. NoVerdict.verdict = "none"
  BY DEF NoVerdict
<1>2. None \in AnyDiff /\ FALSE \in BOOLEAN
  BY DEF AnyDiff
<1>3. NoVerdict \in Verdict
  BY <1>2 DEF NoVerdict, Verdict
<1>. QED  BY <1>1, <1>3

LEMMA StaleInit == Init => StaleInv
<1> SUFFICES ASSUME Init PROVE StaleInv
  OBVIOUS
<1>1. res = [c \in Conns |-> NoVerdict] /\ pc = [c \in Conns |-> "recv"]
  BY DEF Init
<1>2. res \in [Conns -> Verdict] /\ \A c \in Conns : res[c].verdict = "none" /\ pc[c] = "recv"
  BY <1>1, NoVerdictType
<1>. QED  BY <1>2 DEF StaleInv

\* What a header meets, and what it is credited, are difficulties or nothing.
LEMMA MeetsType ==
    ASSUME HandlerInv, NEW c \in Conns, pc[c] = "dedupe"
    PROVE  Meets(c) \in AnyDiff
<1>1. msg[c] \in Share \X Address
  BY DEF HandlerInv
<1>2. msg[c][1] \in Share
  BY <1>1
<1>3. msg[c][1].meets \in AnyDiff
  BY <1>2 DEF Share, AnyDiff
<1>. QED  BY <1>3 DEF Meets, AnyDiff

LEMMA AssignedType ==
    ASSUME RenderInv, NEW c \in Conns
    PROVE  Assigned(c) \in Diffs /\ diff[c] \in Diffs
<1>1. jobDiffs[c] \in Seq(JobDiff) /\ diff[c] \in Diffs
  BY DEF RenderInv
<1>2. JobDifficulty(jobDiffs[c], Job(c)) \in AnyDiff
  BY <1>1, JobDifficultyType
<1>. QED  BY <1>1, <1>2 DEF Assigned, AnyDiff

\* A header that meets nothing is credited nothing.
LEMMA CreditType ==
    ASSUME RenderInv, HandlerInv, JobBudget, NEW c \in Conns, pc[c] = "judge",
           NEW m \in AnyDiff
    PROVE  CreditFor(c, m) \in AnyDiff /\ (m = None => CreditFor(c, m) = None)
<1>1. /\ Assigned(c) \in Diffs /\ diff[c] \in Diffs /\ Job(c) \in Jobs
  BY AssignedType, HandlerJob
<1>2. NetDiff[Job(c)] \in Diffs /\ Diffs \subseteq Nat \ {0}
  BY <1>1, StratumAssumption DEF Jobs
<1>3. CreditFor(c, m) \in AnyDiff
  BY <1>1, <1>2 DEF CreditFor, AnyDiff
<1>4. m = None => ~(m >= Assigned(c)) /\ ~(m >= diff[c]) /\ ~(m >= NetDiff[Job(c)])
  <2>1. \A x \in Diffs : ~(0 >= x)
    BY <1>2
  <2>. QED  BY <1>1, <1>2, <2>1
<1>5. m = None => CreditFor(c, m) = None
  BY <1>4 DEF CreditFor
<1>. QED  BY <1>3, <1>5

\* A job published or retired: a stale share's job stays out of reach.
LEMMA StaleJobs ==
    ASSUME StaleInv, HandlerInv, JobBudget, RefInv, SetJob \/ RetireJob
    PROVE  StaleInv'
<1>. USE DEF shareVars
<1>1. UNCHANGED <<pc, msg, res>> /\ current \in Nat
  BY DEF SetJob, RetireJob, JobBudget
<1>2. current' = current \/ current' = current + 1
  BY DEF SetJob, RetireJob
<1>3. \A c \in Conns : pc[c] = "ring" => Job(c) < current'
  BY <1>1, <1>2, HandlerJob DEF StaleInv
<1>4. ASSUME NEW c \in Conns, pc[c] = "write", res[c].verdict = "stale"
      PROVE  /\ Job(c) \in Nat \ {0} /\ Job(c) < current'
             /\ res[c].inHand \/ (Job(c) # wold' /\ \A i \in DOMAIN recent' : recent'[i] # Job(c))
  <2>1. /\ Job(c) \in Nat \ {0} /\ Job(c) < current
        /\ res[c].inHand \/ (Job(c) # wold /\ \A i \in DOMAIN recent : recent[i] # Job(c))
    BY <1>4 DEF StaleInv
  <2>2. Job(c) < current'
    BY <1>1, <1>2, <2>1
  <2>3. CASE SetJob
    <3>1. wold' = current /\ recent' = recent
      BY <2>3 DEF SetJob
    <3>. QED  BY <1>1, <2>1, <2>2, <3>1
  <2>4. CASE RetireJob
    <3>1. /\ wold' = None /\ DOMAIN recent' = DOMAIN recent
          /\ \A i \in DOMAIN recent : recent'[i] \in {wold, None, recent[i]}
      BY <2>4 DEF RetireJob
    <3>. QED  BY <2>1, <2>2, <3>1
  <2>. QED  BY <2>3, <2>4
<1>5. \A c \in Conns : Job(c)' = Job(c)
  BY <1>1 DEF Job
<1>. QED  BY <1>1, <1>3, <1>4, <1>5 DEF StaleInv

LEMMA StaleStep ==
    ASSUME StaleInv, RefInv, Base, [Next]_vars
    PROVE  StaleInv'
<1>. USE DEF jobVars, walkVars, lifeVars, sessVars, shareVars, wireVars, OtherThanLife,
             NotShares
<1>0. HandlerInv /\ JobBudget /\ RenderInv /\ res \in [Conns -> Verdict]
  BY DEF Base, StaleInv
<1>1. CASE SetJob
  BY <1>0, <1>1, StaleJobs
<1>2. CASE Age
  BY <1>2, StaleFrame DEF Age
<1>3. CASE Walk
  <2>1. CASE RetireJob
    BY <1>0, <2>1, StaleJobs
  <2>2. CASE LockConns \/ SkipConn \/ RenderNotify \/ WriteNotify
    BY <2>2, StaleFrame DEF LockConns, SkipConn, RenderNotify, WriteNotify
  <2>. QED  BY <1>3, <2>1, <2>2 DEF Walk
<1>4. ASSUME NEW l \in Listeners, Accept(l) \/ Count(l) \/ Register(l) PROVE StaleInv'
  BY <1>4, StaleFrame DEF Accept, Count, Register
<1>5. ASSUME NEW c \in Conns, Unregister(c) PROVE StaleInv'
  BY <1>5, StaleFrame DEF Unregister
<1>6. ASSUME NEW c \in Conns, Miner(c) PROVE StaleInv'
  <2>1. ASSUME NEW a \in Addresses, Authorize(c, a) PROVE StaleInv'
    BY <1>0, <2>1, StaleGoto DEF Authorize, Receives
  <2>2. ASSUME NEW s \in Share, Submit(c, s) PROVE StaleInv'
    <3>1. PICK m : m = <<s, sent[c][s.job]>>
      OBVIOUS
    <3>2. /\ pc[c] = "recv" /\ pc' = [pc EXCEPT ![c] = "find"]
          /\ msg' = [msg EXCEPT ![c] = m]
          /\ UNCHANGED <<res, current, wold, recent>>
      BY <2>2, <3>1 DEF Submit, Receives, Goto
    <3>3. PICK v \in Verdict : v = res[c] /\ v.verdict = "none"
      BY <1>0, <3>2 DEF StaleInv
    <3>4. res' = [res EXCEPT ![c] = v]
      BY <1>0, <3>2, <3>3, SameEntry
    <3>. QED  BY <1>0, <3>2, <3>3, <3>4, StaleMove
  <2>3. CASE Subscribe(c) \/ Stall(c) \/ AuthorizeFails(c)
    BY <2>3, StaleFrame DEF Subscribe, Stall, AuthorizeFails
  <2>5. CASE SuggestDifficulty(c)
    BY <1>0, <2>5, StaleGoto DEF SuggestDifficulty, Receives
  <2>. QED  BY <1>6, <2>1, <2>2, <2>3, <2>5 DEF Miner
<1>7. ASSUME NEW c \in Conns, ConnThread(c) PROVE StaleInv'
  <2>0. res[c] \in Verdict
    BY <1>0
  <2>1. CASE AssignDifficulty(c)
    BY <1>0, <2>1, StaleGoto DEF AssignDifficulty
  <2>2. CASE NotifyAuthorized(c)
    BY <1>0, <2>2, StaleGoto DEF NotifyAuthorized
  <2>3. CASE WriteOut(c)
    BY <1>0, <2>3, StaleMove, NoVerdictType DEF WriteOut, Goto
  <2>4. CASE FindCurrent(c)
    <3>1. /\ pc[c] = "find" /\ UNCHANGED <<res, msg, current, wold, recent>>
          /\ Goto(c, "dedupe") \/ (Goto(c, "ring") /\ current # Job(c))
      BY <2>4 DEF FindCurrent
    <3>2. current # Job(c) => Job(c) < current
      BY <1>0, <3>1, HandlerJob DEF JobBudget
    <3>. QED  BY <1>0, <3>1, <3>2, StaleGoto
  <2>5. CASE FindRecent(c)
    <3>1. /\ pc[c] = "ring" /\ UNCHANGED <<msg, current, wold, recent>>
      BY <2>5 DEF FindRecent
    <3>2. CASE \E i \in DOMAIN recent : recent[i] = Job(c)
      BY <1>0, <2>5, <3>1, <3>2, StaleGoto DEF FindRecent
    <3>3. CASE ~\E i \in DOMAIN recent : recent[i] = Job(c)
      <4>1. PICK b \in BOOLEAN : b = (wold = Job(c))
        OBVIOUS
      <4>2. PICK v : v = [res[c] EXCEPT !.verdict = "stale", !.inHand = b]
        OBVIOUS
      <4>3. v \in Verdict /\ v.inHand = b
        BY <2>0, <4>2 DEF Verdict
      <4>4. Goto(c, "write") /\ res' = [res EXCEPT ![c] = v]
        BY <2>5, <3>3, <4>1, <4>2 DEF FindRecent
      <4>5. Job(c) \in Jobs /\ Job(c) < current
        BY <1>0, <3>1, HandlerJob DEF StaleInv
      <4>6. Job(c) \in Nat \ {0}
        BY <4>5, StratumAssumption DEF Jobs
      <4>. QED  BY <1>0, <3>1, <3>3, <4>1, <4>3, <4>4, <4>5, <4>6, StaleAnswer
    <3>. QED  BY <3>2, <3>3
  <2>6. CASE Dedupe(c)
    <3>1. pc[c] = "dedupe" /\ UNCHANGED <<msg, current, wold, recent>>
      BY <2>6 DEF Dedupe
    <3>2. \/ \E s \in {"dup", "bad", "render"} : Refuse(c, s)
          \/ Goto(c, "judge") /\ res' = [res EXCEPT ![c].meets = Meets(c)]
      BY <2>6 DEF Dedupe
    <3>3. ASSUME NEW s \in {"dup", "bad", "render"}, Refuse(c, s) PROVE StaleInv'
      <4>1. PICK v : v = [res[c] EXCEPT !.verdict = s]
        OBVIOUS
      <4>2. v \in Verdict /\ v.verdict = s /\ s # "stale"
        BY <2>0, <4>1 DEF Verdict
      <4>3. res' = [res EXCEPT ![c] = v] /\ Goto(c, "write")
        BY <3>3, <4>1 DEF Refuse, Answer
      <4>. QED  BY <1>0, <3>1, <4>2, <4>3, StaleAnswer
    <3>4. CASE Goto(c, "judge") /\ res' = [res EXCEPT ![c].meets = Meets(c)]
      <4>1. PICK d \in AnyDiff : d = Meets(c)
        BY <1>0, <3>1, MeetsType
      <4>2. PICK v : v = [res[c] EXCEPT !.meets = d]
        OBVIOUS
      <4>3. v \in Verdict /\ v.verdict = res[c].verdict
        BY <2>0, <4>2 DEF Verdict
      <4>4. res[c].verdict = "none"
        BY <3>1 DEF StaleInv
      <4>5. res' = [res EXCEPT ![c] = v]
        BY <3>4, <4>1, <4>2
      <4>. QED  BY <1>0, <3>1, <3>4, <4>3, <4>4, <4>5, StaleAnswer
    <3>. QED  BY <3>2, <3>3, <3>4
  <2>7. CASE Judge(c)
    <3>1. /\ pc[c] = "judge" /\ UNCHANGED <<msg, current, wold, recent>> /\ Goto(c, "write")
      BY <2>7 DEF Judge
    <3>2. res[c].meets \in AnyDiff
      BY <2>0 DEF Verdict
    <3>3. PICK d \in AnyDiff : d = CreditFor(c, res[c].meets)
      BY <1>0, <3>1, <3>2, CreditType
    <3>4. \/ res' = [res EXCEPT ![c].verdict = "low"]
          \/ res' = [res EXCEPT ![c].verdict = "ok", ![c].credit = d]
      BY <2>7, <3>3 DEF Judge, Answer
    <3>5. PICK v \in Verdict : v.verdict # "stale" /\ res' = [res EXCEPT ![c] = v]
      <4>1. CASE res' = [res EXCEPT ![c].verdict = "low"]
        <5>1. /\ [res[c] EXCEPT !.verdict = "low"] \in Verdict
              /\ [res[c] EXCEPT !.verdict = "low"].verdict # "stale"
          BY <2>0 DEF Verdict
        <5>. QED  BY <4>1, <5>1
      <4>2. CASE res' = [res EXCEPT ![c].verdict = "ok", ![c].credit = d]
        <5>1. /\ [res[c] EXCEPT !.verdict = "ok", !.credit = d] \in Verdict
              /\ [res[c] EXCEPT !.verdict = "ok", !.credit = d].verdict # "stale"
          BY <2>0 DEF Verdict
        <5>. QED  BY <4>2, <5>1
      <4>. QED  BY <3>4, <4>1, <4>2
    <3>. QED  BY <1>0, <3>1, <3>5, StaleAnswer
  <2>8. CASE CloseFd(c) \/ FreeConn(c)
    BY <2>8, StaleFrame DEF CloseFd, FreeConn
  <2>. QED  BY <1>7, <2>1, <2>2, <2>3, <2>4, <2>5, <2>6, <2>7, <2>8 DEF ConnThread
<1>8. CASE UNCHANGED vars
  BY <1>8, StaleFrame DEF vars
<1>. QED  BY <1>1, <1>2, <1>3, <1>4, <1>5, <1>6, <1>7, <1>8 DEF Next

LEMMA StaleInvariant == Spec => []StaleInv
BY BaseInvariant, RefInvariant, StaleInit, StaleStep, PTL DEF Spec

\* find_job looks at the current job and the ring under two locks, while jobs
\* are published and retired in between; a share it calls stale is one whose
\* job is in neither when the answer goes out, unless the watcher held it.
THEOREM StaleIsGone == Spec => []StaleMeansGone
<1>1. Base /\ StaleInv => StaleMeansGone
  <2> SUFFICES ASSUME Base, StaleInv, NEW c \in Conns, pc[c] = "write",
                      res[c].verdict = "stale", ~res[c].inHand
               PROVE  Job(c) # current /\ \A i \in DOMAIN recent : recent[i] # Job(c)
    BY DEF StaleMeansGone
  <2>1. /\ Job(c) \in Nat \ {0} /\ Job(c) < current
        /\ \A i \in DOMAIN recent : recent[i] # Job(c)
    BY DEF StaleInv
  <2>2. current \in Nat
    BY DEF Base, JobBudget
  <2>. QED  BY <2>1, <2>2
<1>. QED  BY <1>1, BaseInvariant, StaleInvariant, PTL
-----------------------------------------------------------------------------
(* One solution, one credit. *)

\* What was credited was credited once, and its header's hash is held; a share
\* about to be judged holds a hash that no credit was given for.
CreditInv ==
    /\ \A x \in DOMAIN credited : credited[x] = 1 /\ <<x, x[4]>> \in hashes
    /\ \A c \in Conns : pc[c] = "judge" /\ res[c].meets # None =>
          /\ <<Solution(c), msg[c][2]>> \in hashes
          /\ Solution(c) \notin DOMAIN credited

\* A step that neither credits nor brings a share before the judge.
LEMMA CreditFrame ==
    ASSUME CreditInv, UNCHANGED <<credited, hashes>>,
           \A d \in Conns : pc'[d] = "judge" =>
               pc[d] = "judge" /\ msg'[d] = msg[d] /\ res'[d] = res[d]
    PROVE  CreditInv'
BY DEF CreditInv, Solution, Job

LEMMA CreditStill ==
    ASSUME CreditInv, UNCHANGED <<credited, hashes, pc, msg, res>>
    PROVE  CreditInv'
BY CreditFrame

\* One thread moves on, and not to the judge.
LEMMA CreditGoto ==
    ASSUME CreditInv, HandlerInv, UNCHANGED <<credited, hashes>>,
           NEW c \in Conns, NEW x, Goto(c, x), x # "judge",
           \A d \in Conns : d # c => msg'[d] = msg[d] /\ res'[d] = res[d]
    PROVE  CreditInv'
<1>1. pc'[c] = x /\ \A d \in Conns : d # c => pc'[d] = pc[d]
  BY DEF Goto, HandlerInv
<1>. QED  BY <1>1, CreditFrame

LEMMA CreditInit == Init => CreditInv
BY DEF Init, CreditInv

\* The server-wide hashes let one share of a solution through.
LEMMA CreditDedupe ==
    ASSUME CreditInv, HandlerInv, StaleInv, NEW c \in Conns, Dedupe(c)
    PROVE  CreditInv'
<1>. USE DEF shareVars
<1>1. /\ pc[c] = "dedupe" /\ UNCHANGED <<msg, credited>>
      /\ \/ \E s \in {"dup", "bad", "render"} : Refuse(c, s) /\ UNCHANGED hashes
         \/ /\ Goto(c, "judge") /\ Hash(c) \notin hashes
            /\ hashes' = hashes \cup {Hash(c)}
            /\ res' = [res EXCEPT ![c].meets = Meets(c)]
  BY DEF Dedupe
<1>2. ASSUME NEW s \in {"dup", "bad", "render"}, Refuse(c, s), UNCHANGED hashes
      PROVE  CreditInv'
  <2>1. Goto(c, "write") /\ \A d \in Conns : d # c => res'[d] = res[d]
    BY <1>2 DEF Refuse, Answer, StaleInv
  <2>. QED  BY <1>1, <1>2, <2>1, CreditGoto
<1>3. ASSUME Goto(c, "judge"), Hash(c) \notin hashes, hashes' = hashes \cup {Hash(c)},
             res' = [res EXCEPT ![c].meets = Meets(c)]
      PROVE  CreditInv'
  <2>1. /\ \A d \in Conns : d # c => res'[d] = res[d] /\ pc'[d] = pc[d]
        /\ res'[c].meets = Meets(c) /\ pc'[c] = "judge"
    BY <1>3 DEF StaleInv, HandlerInv, Goto, Verdict
  <2>2. \A d \in Conns : Solution(d)' = Solution(d) /\ msg'[d] = msg[d]
    BY <1>1 DEF Solution, Job
  <2>3. \A x \in DOMAIN credited' : credited'[x] = 1 /\ <<x, x[4]>> \in hashes'
    BY <1>1, <1>3 DEF CreditInv
  <2>4. ASSUME Meets(c) # None
        PROVE  <<Solution(c), msg[c][2]>> \in hashes' /\ Solution(c) \notin DOMAIN credited
    <3>1. Hash(c) = <<Solution(c), msg[c][2]>>
      BY <2>4 DEF Meets, Hash
    <3>2. Solution(c)[4] = msg[c][2]
      BY DEF Solution
    <3>3. Solution(c) \in DOMAIN credited => Hash(c) \in hashes
      BY <3>1, <3>2 DEF CreditInv
    <3>. QED  BY <1>3, <3>1, <3>3
  <2>5. ASSUME NEW d \in Conns, pc'[d] = "judge", res'[d].meets # None
        PROVE  /\ <<Solution(d)', msg'[d][2]>> \in hashes'
               /\ Solution(d)' \notin DOMAIN credited'
    <3>1. CASE d = c
      BY <1>1, <2>1, <2>2, <2>4, <2>5, <3>1
    <3>2. CASE d # c
      BY <1>1, <1>3, <2>1, <2>2, <2>5, <3>2 DEF CreditInv
    <3>. QED  BY <3>1, <3>2
  <2>. QED  BY <2>3, <2>5 DEF CreditInv
<1>. QED  BY <1>1, <1>2, <1>3

\* on_share is called for a solution that was never credited.
LEMMA CreditJudge ==
    ASSUME CreditInv, HandlerInv, StaleInv, RenderInv, JobBudget, NEW c \in Conns, Judge(c)
    PROVE  CreditInv'
<1>. USE DEF shareVars
<1>1. /\ pc[c] = "judge" /\ UNCHANGED <<msg, hashes>> /\ Goto(c, "write")
      /\ credited' = credited \/ (Credit(c) /\ CreditFor(c, res[c].meets) # None)
      /\ \A d \in Conns : d # c => res'[d] = res[d]
  BY DEF Judge, Answer, StaleInv
<1>2. pc'[c] = "write" /\ \A d \in Conns : d # c => pc'[d] = pc[d]
  BY <1>1 DEF Goto, HandlerInv
<1>3. CASE credited' = credited
  BY <1>1, <1>3, CreditGoto
<1>4. CASE Credit(c) /\ CreditFor(c, res[c].meets) # None
  <2>1. res[c].meets \in AnyDiff
    BY DEF StaleInv, Verdict
  <2>2. res[c].meets # None
    BY <1>1, <1>4, <2>1, CreditType
  <2>3. <<Solution(c), msg[c][2]>> \in hashes /\ Solution(c) \notin DOMAIN credited
    BY <1>1, <2>2 DEF CreditInv
  <2>4. DOMAIN credited' = DOMAIN credited \cup {Solution(c)}
    BY <1>4 DEF Credit
  <2>5. ASSUME NEW x \in DOMAIN credited' PROVE credited'[x] = 1 /\ <<x, x[4]>> \in hashes'
    <3>1. credited'[x] = (IF x \in DOMAIN credited THEN credited[x] ELSE 0)
                         + (IF x = Solution(c) THEN 1 ELSE 0)
      BY <1>4, <2>4, <2>5 DEF Credit
    <3>2. CASE x = Solution(c)
      <4>1. x \notin DOMAIN credited /\ x[4] = msg[c][2]
        BY <2>3, <3>2 DEF Solution
      <4>. QED  BY <1>1, <2>3, <3>1, <3>2, <4>1
    <3>3. CASE x # Solution(c)
      <4>1. x \in DOMAIN credited
        BY <2>4, <2>5, <3>3
      <4>2. credited[x] = 1 /\ <<x, x[4]>> \in hashes
        BY <4>1 DEF CreditInv
      <4>. QED  BY <1>1, <3>1, <3>3, <4>1, <4>2
    <3>. QED  BY <3>2, <3>3
  <2>6. ASSUME NEW d \in Conns, pc'[d] = "judge", res'[d].meets # None
        PROVE  /\ <<Solution(d)', msg'[d][2]>> \in hashes'
               /\ Solution(d)' \notin DOMAIN credited'
    <3>1. d # c
      BY <1>2, <2>6
    <3>2. Solution(d)' = Solution(d) /\ msg'[d] = msg[d]
      BY <1>1 DEF Solution, Job
    <3>3. <<Solution(d), msg[d][2]>> \in hashes /\ Solution(d) \notin DOMAIN credited
      BY <1>1, <1>2, <2>6, <3>1 DEF CreditInv
    <3>4. Solution(d) # Solution(c)
      <4>1. Solution(d)[1] = d /\ Solution(c)[1] = c
        BY DEF Solution
      <4>. QED  BY <3>1, <4>1
    <3>. QED  BY <1>1, <2>4, <3>2, <3>3, <3>4
  <2>. QED  BY <2>5, <2>6 DEF CreditInv
<1>. QED  BY <1>1, <1>3, <1>4
LEMMA CreditStep ==
    ASSUME CreditInv, StaleInv, Base, [Next]_vars
    PROVE  CreditInv'
<1>. USE DEF jobVars, walkVars, lifeVars, sessVars, shareVars, wireVars, OtherThanLife,
             NotShares
<1>0. HandlerInv /\ JobBudget /\ RenderInv
      /\ res \in [Conns -> Verdict] /\ msg \in [Conns -> Submits]
  BY DEF Base, StaleInv, HandlerInv, Submits
<1>1. CASE SetJob \/ Age
  BY <1>1, CreditStill DEF SetJob, Age
<1>3. CASE Walk
  BY <1>3, CreditStill DEF Walk, RetireJob, LockConns, SkipConn, RenderNotify, WriteNotify
<1>4. ASSUME NEW l \in Listeners, Accept(l) \/ Count(l) \/ Register(l) PROVE CreditInv'
  BY <1>4, CreditStill DEF Accept, Count, Register
<1>5. ASSUME NEW c \in Conns, Unregister(c) PROVE CreditInv'
  BY <1>5, CreditStill DEF Unregister
<1>6. ASSUME NEW c \in Conns, Miner(c) PROVE CreditInv'
  <2>1. ASSUME NEW a \in Addresses, Authorize(c, a) PROVE CreditInv'
    BY <1>0, <2>1, CreditGoto DEF Authorize
  <2>2. ASSUME NEW s \in Share, Submit(c, s) PROVE CreditInv'
    <3>1. /\ Goto(c, "find") /\ UNCHANGED <<res, credited, hashes>>
          /\ \A d \in Conns : d # c => msg'[d] = msg[d]
      BY <1>0, <2>2 DEF Submit
    <3>. QED  BY <1>0, <3>1, CreditGoto
  <2>3. CASE Subscribe(c) \/ Stall(c) \/ AuthorizeFails(c)
    BY <2>3, CreditStill DEF Subscribe, Stall, AuthorizeFails
  <2>5. CASE SuggestDifficulty(c)
    BY <1>0, <2>5, CreditGoto DEF SuggestDifficulty
  <2>. QED  BY <1>6, <2>1, <2>2, <2>3, <2>5 DEF Miner
<1>7. ASSUME NEW c \in Conns, ConnThread(c) PROVE CreditInv'
  <2>1. CASE AssignDifficulty(c) \/ NotifyAuthorized(c)
    BY <1>0, <2>1, CreditGoto DEF AssignDifficulty, NotifyAuthorized
  <2>3. CASE WriteOut(c)
    <3>1. /\ Goto(c, "recv") /\ UNCHANGED <<credited, hashes>>
          /\ \A d \in Conns : d # c => msg'[d] = msg[d] /\ res'[d] = res[d]
      BY <1>0, <2>3 DEF WriteOut
    <3>. QED  BY <1>0, <3>1, CreditGoto
  <2>4. CASE FindCurrent(c)
    BY <1>0, <2>4, CreditGoto DEF FindCurrent
  <2>5. CASE FindRecent(c)
    <3>1. /\ Goto(c, "dedupe") \/ Goto(c, "write")
          /\ UNCHANGED <<msg, credited, hashes>>
          /\ \A d \in Conns : d # c => res'[d] = res[d]
      BY <1>0, <2>5 DEF FindRecent
    <3>. QED  BY <1>0, <3>1, CreditGoto
  <2>6. CASE Dedupe(c)
    BY <1>0, <2>6, CreditDedupe
  <2>7. CASE Judge(c)
    BY <1>0, <2>7, CreditJudge
  <2>8. CASE CloseFd(c) \/ FreeConn(c)
    BY <2>8, CreditStill DEF CloseFd, FreeConn
  <2>. QED  BY <1>7, <2>1, <2>3, <2>4, <2>5, <2>6, <2>7, <2>8 DEF ConnThread
<1>8. CASE UNCHANGED vars
  BY <1>8, CreditStill DEF vars
<1>. QED  BY <1>1, <1>3, <1>4, <1>5, <1>6, <1>7, <1>8 DEF Next

\* However a solution is spelled, repeated and spread over retired jobs, new
\* names and full rings of the connection, on_share is called for it at most
\* once, as long as the server-wide ring still holds its hash.
THEOREM NoDoubleCredit == Spec => []CreditedOnce
<1>1. CreditInv => CreditedOnce
  <2>1. ASSUME CreditInv, NEW x \in DOMAIN credited PROVE credited[x] <= 1
    <3>1. credited[x] = 1
      BY <2>1 DEF CreditInv
    <3>. QED  BY <3>1
  <2>. QED  BY <2>1 DEF CreditedOnce
<1>. QED  BY <1>1, BaseInvariant, StaleInvariant, CreditInit, CreditStep, PTL DEF Spec
-----------------------------------------------------------------------------
(* The difficulty a connection recorded for a job. *)

\* The ring of a connection holds each job once, in the order they were
\* built, up to the n-th.
Ordered(s, n) ==
    /\ Len(s) <= JobDiffRing
    /\ \A i \in 1..Len(s) : s[i].job <= n
    /\ \A i, k \in 1..Len(s) : i <= k => s[i].job + (k - i) <= s[k].job

\* The lookup answers with the one entry there is.
LEMMA LookupFound ==
    ASSUME NEW s \in Seq(JobDiff), NEW n \in Nat, Ordered(s, n), NEW i \in 1..Len(s)
    PROVE  JobDifficulty(s, s[i].job) = s[i].diff
<1>1. DOMAIN s = 1..Len(s) /\ Len(s) \in Nat
  OBVIOUS
<1>2. PICK j : j = s[i].job
  OBVIOUS
<1>3. PICK k : k = CHOOSE x \in DOMAIN s : s[x].job = j
  OBVIOUS
<1>4. k \in 1..Len(s) /\ s[k].job = j
  BY <1>1, <1>2, <1>3
<1>5. s[i] \in JobDiff /\ s[k] \in JobDiff
  BY <1>1, <1>4
<1>6. s[i].job \in Nat /\ s[k].job \in Nat /\ s[i].job = s[k].job
  BY <1>2, <1>4, <1>5 DEF JobDiff
<1>7. /\ i <= k => s[i].job + (k - i) <= s[k].job
      /\ k <= i => s[k].job + (i - k) <= s[i].job
  BY <1>4 DEF Ordered
<1>8. i = k
  BY <1>1, <1>4, <1>6, <1>7
<1>9. JobDifficulty(s, j) = s[k].diff
  BY <1>1, <1>2, <1>3 DEF JobDifficulty
<1>. QED  BY <1>2, <1>8, <1>9

LEMMA LookupMissing ==
    ASSUME NEW s \in Seq(JobDiff), NEW j, \A i \in 1..Len(s) : s[i].job # j
    PROVE  JobDifficulty(s, j) = None
BY DEF JobDifficulty

\* Two rings that hold the same about a job answer the same.
LEMMA LookupSame ==
    ASSUME NEW s \in Seq(JobDiff), NEW t \in Seq(JobDiff), NEW n \in Nat,
           Ordered(s, n), Ordered(t, n), NEW j,
           \A i \in 1..Len(s) : s[i].job = j =>
               \E k \in 1..Len(t) : t[k] = s[i],
           \A k \in 1..Len(t) : t[k].job = j =>
               \E i \in 1..Len(s) : t[k] = s[i]
    PROVE  JobDifficulty(t, j) = JobDifficulty(s, j)
<1>1. CASE \E i \in 1..Len(s) : s[i].job = j
  <2>1. PICK i \in 1..Len(s) : s[i].job = j
    BY <1>1
  <2>2. PICK k \in 1..Len(t) : t[k] = s[i]
    BY <2>1
  <2>3. JobDifficulty(s, j) = s[i].diff
    BY <2>1, LookupFound
  <2>4. JobDifficulty(t, t[k].job) = t[k].diff
    BY <2>2, LookupFound
  <2>. QED  BY <2>1, <2>2, <2>3, <2>4
<1>2. CASE ~\E i \in 1..Len(s) : s[i].job = j
  <2>1. \A i \in 1..Len(s) : s[i].job # j
    BY <1>2
  <2>2. \A k \in 1..Len(t) : t[k].job # j
    BY <2>1
  <2>. QED  BY <2>1, <2>2, LookupMissing
<1>. QED  BY <1>1, <1>2

\* conn_record_job_difficulty: the job is recorded at the difficulty, and any
\* other job keeps its record or is a whole ring older.
LEMMA RecordLookup ==
    ASSUME NEW s \in Seq(JobDiff), NEW n \in Nat, NEW d \in Diffs, Ordered(s, n)
    PROVE  LET t == RecordJobDifficulty(s, n, d) IN
           /\ Ordered(t, n)
           /\ JobDifficulty(t, n) = d
           /\ \A j \in Nat : j # n =>
                 JobDifficulty(t, j) = JobDifficulty(s, j) \/ j + JobDiffRing <= n
<1>. DEFINE new == [job |-> n, diff |-> d]
<1>0. PICK t : t = RecordJobDifficulty(s, n, d)
  OBVIOUS
<1>a. t \in Seq(JobDiff)
  BY <1>0, RecordType
<1>b. Len(s) \in Nat /\ Len(t) \in Nat /\ JobDiffRing \in Nat /\ JobDiffRing # 0
  BY <1>a, JobDiffRingType
<1>1. t \in Seq(JobDiff) /\ DOMAIN s = 1..Len(s) /\ Len(s) \in Nat /\ Len(t) \in Nat
  BY <1>a, <1>b
<1>2. \A i \in 1..Len(s) : s[i] \in JobDiff /\ s[i].job \in Nat
  <2>1. ASSUME NEW i \in 1..Len(s) PROVE s[i] \in JobDiff
    BY <1>1
  <2>2. \A x \in JobDiff : x.job \in Nat
    BY DEF JobDiff
  <2>. QED  BY <2>1, <2>2
<1>3. new \in JobDiff /\ new.job = n /\ new.diff = d
  BY DEF JobDiff
<1>4. CASE \E i \in DOMAIN s : s[i].job = n
  <2>1. PICK m \in 1..Len(s) : s[m].job = n
    BY <1>1, <1>4
  <2>2. t = [i \in 1..Len(s) |-> IF s[i].job = n THEN [s[i] EXCEPT !.diff = d] ELSE s[i]]
    BY <1>0, <1>1, <1>4 DEF RecordJobDifficulty
  <2>3. Len(t) = Len(s)
    BY <1>1, <2>2
  <2>4. ASSUME NEW i \in 1..Len(s)
        PROVE  /\ s[i].job # n => t[i] = s[i]
               /\ s[i].job = n => t[i].job = n /\ t[i].diff = d
    <3>1. t[i] = IF s[i].job = n THEN [s[i] EXCEPT !.diff = d] ELSE s[i]
      BY <2>2
    <3>2. s[i] \in JobDiff
      BY <1>2
    <3>. QED  BY <3>1, <3>2 DEF JobDiff
  <2>5. \A i \in 1..Len(s) : t[i].job = s[i].job
    BY <2>4
  <2>6. Ordered(t, n)
    BY <2>3, <2>5 DEF Ordered
  <2>7. JobDifficulty(t, n) = d
    <3>1. t[m].job = n /\ t[m].diff = d /\ m \in 1..Len(t)
      BY <2>1, <2>3, <2>4
    <3>2. JobDifficulty(t, t[m].job) = t[m].diff
      BY <1>1, <2>6, <3>1, LookupFound
    <3>. QED  BY <3>1, <3>2
  <2>8. ASSUME NEW j \in Nat, j # n PROVE JobDifficulty(t, j) = JobDifficulty(s, j)
    <3>1. /\ \A i \in 1..Len(s) : s[i].job = j => \E k \in 1..Len(t) : t[k] = s[i]
          /\ \A k \in 1..Len(t) : t[k].job = j => \E i \in 1..Len(s) : t[k] = s[i]
      BY <2>3, <2>4, <2>5, <2>8
    <3>. QED  BY <1>1, <2>6, <3>1, LookupSame
  <2>. QED  BY <1>0, <2>6, <2>7, <2>8
<1>5. CASE ~\E i \in DOMAIN s : s[i].job = n
  <2>1. t = Push(s, new, JobDiffRing)
    BY <1>0, <1>5 DEF RecordJobDifficulty
  <2>2. ASSUME NEW i \in 1..Len(s) PROVE s[i].job < n
    <3>1. s[i].job # n /\ s[i].job \in Nat
      BY <1>1, <1>2, <1>5
    <3>2. s[i].job <= n
      BY DEF Ordered
    <3>. QED  BY ONLY <3>1, <3>2, n \in Nat
  <2>3. CASE Len(s) < JobDiffRing
    <3>1. t = Append(s, new)
      BY <2>1, <2>3 DEF Push
    <3>2. /\ Len(t) = Len(s) + 1 /\ t[Len(s) + 1] = new
          /\ \A i \in 1..Len(s) : t[i] = s[i]
      BY <1>3, <3>1
    <3>. HIDE <3>1
    <3>3. Len(t) <= JobDiffRing
      BY ONLY <1>b, <2>3, <3>2
    <3>4. \A i \in 1..Len(t) : t[i].job <= n
      BY <1>1, <1>2, <1>3, <2>2, <3>2
    <3>5. ASSUME NEW i \in 1..Len(t), NEW k \in 1..Len(t), i <= k
          PROVE  t[i].job + (k - i) <= t[k].job
      <4>1. CASE k <= Len(s)
        <5>1. i \in 1..Len(s) /\ k \in 1..Len(s)
          BY ONLY <1>b, <3>5, <4>1, i \in 1..Len(t), k \in 1..Len(t)
        <5>2. t[i] = s[i] /\ t[k] = s[k]
          BY <3>2, <5>1
        <5>. QED  BY <3>5, <5>1, <5>2 DEF Ordered
      <4>2. CASE k = Len(s) + 1 /\ i = k
        BY <1>3, <3>2, <4>2
      <4>3. CASE k = Len(s) + 1 /\ i # k
        <5>1. i \in 1..Len(s) /\ Len(s) \in 1..Len(s)
          BY <1>1, <3>2, <3>5, <4>3
        <5>2. s[i].job + (Len(s) - i) <= s[Len(s)].job /\ s[Len(s)].job < n
          BY <2>2, <5>1 DEF Ordered
        <5>3. t[i].job = s[i].job /\ t[k].job = n /\ s[i].job \in Nat /\ s[Len(s)].job \in Nat
          BY <1>2, <1>3, <3>2, <4>3, <5>1
        <5>. QED  BY <1>1, <4>3, <5>1, <5>2, <5>3
      <4>. QED  BY <1>1, <3>2, <3>5, <4>1, <4>2, <4>3
    <3>6. Ordered(t, n)
      BY <3>3, <3>4, <3>5 DEF Ordered
    <3>7. JobDifficulty(t, n) = d
      <4>1. Len(s) + 1 \in 1..Len(t)
        BY <1>1, <3>2
      <4>2. JobDifficulty(t, t[Len(s) + 1].job) = t[Len(s) + 1].diff
        BY <1>1, <3>6, <4>1, LookupFound
      <4>. QED  BY <1>3, <3>2, <4>2
    <3>8. ASSUME NEW j \in Nat, j # n PROVE JobDifficulty(t, j) = JobDifficulty(s, j)
      <4>1. \A i \in 1..Len(s) : s[i].job = j => \E k \in 1..Len(t) : t[k] = s[i]
        BY <1>1, <3>2
      <4>2. \A k \in 1..Len(t) : t[k].job = j => \E i \in 1..Len(s) : t[k] = s[i]
        <5>1. \A k \in 1..Len(t) : k \in 1..Len(s) \/ k = Len(s) + 1
          BY <1>1, <3>2
        <5>. QED  BY <1>3, <3>2, <3>8, <5>1
      <4>. QED  BY <1>1, <3>6, <4>1, <4>2, LookupSame
    <3>. QED  BY <1>0, <3>6, <3>7, <3>8
  <2>4. CASE ~(Len(s) < JobDiffRing)
    <3>0. Len(s) = JobDiffRing /\ s # <<>> /\ Len(s) >= 1
      <4>1. Len(s) = JobDiffRing /\ Len(s) >= 1
        BY <1>b, <2>4 DEF Ordered
      <4>. QED  BY <4>1
    <3>1. t = Append(Tail(s), new)
      BY <2>1, <2>4 DEF Push
    <3>2. /\ Len(t) = Len(s) /\ t[Len(s)] = new
          /\ \A i \in 1..Len(s) - 1 : t[i] = s[i + 1]
      <4>1. /\ Tail(s) \in Seq(JobDiff) /\ Len(Tail(s)) = Len(s) - 1
            /\ \A i \in 1..Len(s) - 1 : Tail(s)[i] = s[i + 1]
        BY <3>0
      <4>. QED  BY <1>1, <1>3, <3>0, <3>1, <4>1
    <3>. HIDE <3>1
    <3>4. \A i \in 1..Len(t) : t[i].job <= n
      <4>1. ASSUME NEW i \in 1..Len(t) PROVE t[i].job <= n
        <5>1. CASE i = Len(s)
          BY <1>3, <3>2, <5>1
        <5>2. CASE i # Len(s)
          <6>1. i \in 1..Len(s) - 1 /\ i + 1 \in 1..Len(s)
            BY ONLY <1>b, <3>2, <5>2, i \in 1..Len(t)
          <6>. QED  BY <1>2, <2>2, <3>2, <6>1
        <5>. QED  BY <5>1, <5>2
      <4>. QED  BY <4>1
    <3>5. ASSUME NEW i \in 1..Len(t), NEW k \in 1..Len(t), i <= k
          PROVE  t[i].job + (k - i) <= t[k].job
      <4>1. CASE k # Len(s)
        <5>1. i + 1 \in 1..Len(s) /\ k + 1 \in 1..Len(s) /\ i + 1 <= k + 1
          BY ONLY <1>b, <3>2, <3>5, <4>1, i \in 1..Len(t), k \in 1..Len(t)
        <5>2. s[i + 1].job + ((k + 1) - (i + 1)) <= s[k + 1].job
          BY <5>1 DEF Ordered
        <5>3. t[i] = s[i + 1] /\ t[k] = s[k + 1]
          <6>1. i \in 1..Len(s) - 1 /\ k \in 1..Len(s) - 1
            BY ONLY <1>b, <3>2, <3>5, <4>1, i \in 1..Len(t), k \in 1..Len(t)
          <6>. QED  BY <3>2, <6>1
        <5>4. (k + 1) - (i + 1) = k - i
          OBVIOUS
        <5>. QED  BY <5>2, <5>3, <5>4
      <4>2. CASE k = Len(s) /\ i = k
        BY <1>3, <3>2, <4>2
      <4>3. CASE k = Len(s) /\ i # k
        <5>1. i + 1 \in 1..Len(s) /\ Len(s) \in 1..Len(s) /\ i \in 1..Len(s) - 1
              /\ i + 1 <= Len(s)
          BY ONLY <1>b, <3>2, <3>5, <4>3, i \in 1..Len(t), k \in 1..Len(t)
        <5>2. s[i + 1].job + (Len(s) - (i + 1)) <= s[Len(s)].job /\ s[Len(s)].job < n
          BY <2>2, <5>1 DEF Ordered
        <5>3. t[i].job = s[i + 1].job /\ t[k].job = n /\ s[i + 1].job \in Nat /\ s[Len(s)].job \in Nat
          BY <1>2, <1>3, <3>2, <4>3, <5>1
        <5>4. i \in Nat
          BY <5>1
        <5>. QED  BY ONLY <1>b, <4>3, <5>2, <5>3, <5>4
      <4>. QED  BY <4>1, <4>2, <4>3
    <3>6. Ordered(t, n)
      BY <3>0, <3>2, <3>4, <3>5 DEF Ordered
    <3>7. JobDifficulty(t, n) = d
      <4>1. Len(s) \in 1..Len(t)
        BY <1>1, <3>0, <3>2
      <4>2. JobDifficulty(t, t[Len(s)].job) = t[Len(s)].diff
        BY <1>1, <3>6, <4>1, LookupFound
      <4>. QED  BY <1>3, <3>2, <4>2
    <3>8. ASSUME NEW j \in Nat, j # n, ~(j + JobDiffRing <= n)
          PROVE  JobDifficulty(t, j) = JobDifficulty(s, j)
      <4>0. s[1].job # j
        <5>1. 1 \in 1..Len(s) /\ Len(s) \in 1..Len(s) /\ 1 <= Len(s)
          BY <1>1, <3>0
        <5>2. s[1].job + (Len(s) - 1) <= s[Len(s)].job /\ s[Len(s)].job < n
          BY <2>2, <5>1 DEF Ordered
        <5>3. s[1].job \in Nat /\ s[Len(s)].job \in Nat
          BY <1>2, <5>1
        <5>. QED  BY <1>1, <3>0, <3>8, <5>2, <5>3
      <4>1. ASSUME NEW i \in 1..Len(s), s[i].job = j PROVE \E k \in 1..Len(t) : t[k] = s[i]
        <5>1. i # 1
          BY <4>0, <4>1
        <5>2. i - 1 \in 1..Len(s) - 1 /\ i - 1 \in 1..Len(t) /\ (i - 1) + 1 = i
          BY <1>1, <3>2, <5>1
        <5>. QED  BY <3>2, <5>2
      <4>2. ASSUME NEW k \in 1..Len(t), t[k].job = j PROVE \E i \in 1..Len(s) : t[k] = s[i]
        <5>1. k # Len(s)
          BY <1>3, <3>2, <3>8, <4>2
        <5>2. k \in 1..Len(s) - 1 /\ k + 1 \in 1..Len(s)
          BY ONLY <1>b, <3>2, <5>1, k \in 1..Len(t)
        <5>. QED  BY <3>2, <5>2
      <4>. QED  BY <1>1, <3>6, <4>1, <4>2, LookupSame
    <3>. QED  BY <1>0, <3>6, <3>7, <3>8
  <2>. QED  BY <2>3, <2>4
<1>. QED  BY <1>4, <1>5
-----------------------------------------------------------------------------
(* An honest share counts. *)

Here(c) == wpc = "write" /\ Head(wlist) = c

Recorded(c, j) == JobDifficulty(jobDiffs[c], j)

\* The walk writes the current job and nothing else.
WalkInv ==
    /\ wpc # "idle" => current # None
    /\ wpc = "write" => wout.job = current /\ wout.addr # None /\ wout.diff = None

\* A handler's buffer holds its connection's difficulty, or nothing; a miner
\* who reads knows the difficulty when the buffer is written.
TellInv(c) ==
    /\ pc[c] \notin {"notify", "write"} => out[c] = NoOutput
    /\ pc[c] = "notify" => out[c].diff # None /\ out[c].job = None /\ out[c].addr = None
    /\ out[c].diff = None \/ out[c].diff = diff[c]
    /\ out[c].diff = None => out[c] = NoOutput
    /\ out[c].job # None => out[c].addr # None
    /\ ~authorized[c] => told[c] = None /\ out[c] = NoOutput
    /\ pc[c] \in {"assign", "notify"} => authorized[c] /\ addr[c] # None
    /\ pc[c] \in {"find", "ring", "dedupe", "judge"} => authorized[c]
    /\ told[c] # None /\ ~deaf[c] /\ out[c].diff = None => told[c] = diff[c]

\* A submit is about a job that was agreed on.
GivenInv(c) ==
    /\ cb[c].job # None => cb[c].addr # None
    /\ \A j \in Jobs : agreed[c][j] # None => sent[c][j] # None /\ told[c] # None
    /\ msg[c] # <<>> => msg[c][2] # None /\ agreed[c][Job(c)] # None

\* A connection that kept its name has one address: in its coinbase, in what
\* is on its way to the miner, and in what the miner mines.
NameInv(c) ==
    ~renamed[c] =>
        /\ addr[c] = None \/ addr[c] = cb[c].addr \/ cb[c].addr = None
        /\ out[c].addr = None \/ out[c].addr = cb[c].addr
        /\ \A j \in Jobs : sent[c][j] = None \/ sent[c][j] = cb[c].addr
        /\ msg[c] # <<>> => msg[c][2] = cb[c].addr
        /\ Here(c) => wout.addr = cb[c].addr

\* A job the two sides agree on is recorded at the difficulty they agreed on.
AgreeInv(c) ==
    /\ \A j \in Jobs : j \notin crossed[c] /\ agreed[c][j] # None /\ j + JobDiffRing > current
          => Recorded(c, j) = agreed[c][j]
    /\ Here(c) /\ current \notin crossed[c] /\ ~deaf[c] /\ out[c] = NoOutput /\ told[c] # None
          => Recorded(c, current) = told[c]
    /\ out[c].job # None =>
          Recorded(c, out[c].job) = diff[c] \/ out[c].job + JobDiffRing <= current

JudgeInv(c) == pc[c] = "judge" /\ ~renamed[c] => res[c].meets = msg[c][1].meets

HonestInv(c) ==
    pc[c] = "write" /\ msg[c] # <<>> /\ ~renamed[c] =>
        LET share == msg[c][1] IN
        share.job \notin crossed[c] /\ share.job + JobDiffRing > current =>
        /\ res[c].verdict = "low" =>
               share.meets < agreed[c][share.job] /\ share.meets < NetDiff[share.job]
        /\ res[c].verdict = "ok" =>
               /\ res[c].credit <= share.meets
               /\ share.meets >= agreed[c][share.job] =>
                      res[c].credit = agreed[c][share.job]
        /\ res[c].verdict = "render" => addr[c] = None

ConnInv(c) ==
    /\ TellInv(c) /\ GivenInv(c) /\ NameInv(c) /\ Ordered(jobDiffs[c], current)
    /\ AgreeInv(c) /\ JudgeInv(c) /\ HonestInv(c)

FlagInv ==
    /\ authorized \in [Conns -> BOOLEAN]
    /\ deaf \in [Conns -> BOOLEAN]
    /\ renamed \in [Conns -> BOOLEAN]
    /\ crossed \in [Conns -> SUBSET Nat]

TalkInv == FlagInv /\ WalkInv /\ \A c \in Conns : ConnInv(c)

\* What a step may do to a connection.
SameWire(c)  == told'[c] = told[c] /\ agreed'[c] = agreed[c] /\ sent'[c] = sent[c]
SameFlags(c) ==
    /\ authorized'[c] = authorized[c] /\ deaf'[c] = deaf[c]
    /\ renamed'[c] = renamed[c] /\ crossed'[c] = crossed[c]
SameShare(c) == msg'[c] = msg[c] /\ res'[c] = res[c]
SameRender(c) ==
    /\ addr'[c] = addr[c] /\ diff'[c] = diff[c]
    /\ cb'[c] = cb[c] /\ jobDiffs'[c] = jobDiffs[c]

Same(c) ==
    /\ pc'[c] = pc[c] /\ out'[c] = out[c]
    /\ SameWire(c) /\ SameFlags(c) /\ SameShare(c) /\ SameRender(c)

\* The watcher is where it was, or does not hold a notify for the connection.
SameWalk(c) == Here(c)' => Here(c) /\ wout' = wout /\ current' = current

\* What a step leaves alone stays as it should be, whatever job is published.
LEMMA SameConn ==
    ASSUME NEW c \in Conns, ConnInv(c), Same(c), SameWalk(c), Base,
           current' = current \/ current' = current + 1
    PROVE  ConnInv(c)'
<1>. USE DEF Same, SameWire, SameFlags, SameShare, SameRender
<1>0. current \in Nat /\ JobDiffRing \in Nat
  BY JobDiffRingType DEF Base, JobBudget
<1>1. TellInv(c)'
  BY DEF ConnInv, TellInv
<1>2. GivenInv(c)'
  BY DEF ConnInv, GivenInv, Job
<1>3. NameInv(c)'
  <2>1. (Here(c) => wout.addr = cb[c].addr) => (Here(c)' => wout'.addr = cb'[c].addr)
    BY DEF SameWalk
  <2>. QED  BY <2>1 DEF ConnInv, NameInv
<1>4. Ordered(jobDiffs[c], current)'
  <2>1. jobDiffs[c] \in Seq(JobDiff)
    BY DEF Base, RenderInv
  <2>2. \A i \in 1..Len(jobDiffs[c]) : jobDiffs[c][i].job \in Nat
    <3>1. ASSUME NEW i \in 1..Len(jobDiffs[c]) PROVE jobDiffs[c][i] \in JobDiff
      BY <2>1
    <3>. QED  BY <3>1 DEF JobDiff
  <2>3. \A i \in 1..Len(jobDiffs[c]) : jobDiffs[c][i].job <= current'
    BY <1>0, <2>2 DEF ConnInv, Ordered
  <2>. QED  BY <2>3 DEF ConnInv, Ordered
<1>5. AgreeInv(c)'
  <2>1. \A j \in Jobs : j + JobDiffRing > current' => j + JobDiffRing > current
    BY <1>0 DEF Jobs
  <2>2. /\ Here(c)' => Here(c) /\ current' = current
        /\ \A j : Recorded(c, j)' = JobDifficulty(jobDiffs[c], j)
    BY DEF SameWalk, Recorded
  <2>3. out[c].job \in Nat
    BY <1>0 DEF Base, WireInv, Output
  <2>4. out[c].job + JobDiffRing <= current => out[c].job + JobDiffRing <= current'
    BY <1>0, <2>3
  <2>5. \A j \in Jobs : j \notin crossed'[c] /\ agreed'[c][j] # None /\ j + JobDiffRing > current'
          => JobDifficulty(jobDiffs[c], j) = agreed'[c][j]
    BY <2>1 DEF ConnInv, AgreeInv, Recorded
  <2>6. Here(c)' /\ current' \notin crossed'[c] /\ ~deaf'[c] /\ out'[c] = NoOutput /\ told'[c] # None
          => JobDifficulty(jobDiffs[c], current') = told'[c]
    BY <2>2 DEF ConnInv, AgreeInv, Recorded
  <2>7. out'[c].job # None =>
          JobDifficulty(jobDiffs[c], out'[c].job) = diff'[c] \/ out'[c].job + JobDiffRing <= current'
    BY <2>4 DEF ConnInv, AgreeInv, Recorded
  <2>. QED  BY <2>2, <2>5, <2>6, <2>7 DEF AgreeInv
<1>6. JudgeInv(c)'
  BY DEF ConnInv, JudgeInv
<1>7. HonestInv(c)'
  <2>1. ASSUME msg[c] # <<>>, msg[c][1].job + JobDiffRing > current'
        PROVE  msg[c][1].job + JobDiffRing > current
    <3>1. msg[c] \in Share \X Address
      BY <2>1 DEF Base, HandlerInv
    <3>2. msg[c][1] \in Share
      BY <3>1
    <3>3. msg[c][1].job \in Nat
      BY <3>2 DEF Share, Jobs
    <3>. QED  BY <1>0, <2>1, <3>3
  <2>. QED  BY <2>1 DEF ConnInv, HonestInv
<1>. QED  BY <1>1, <1>2, <1>3, <1>4, <1>5, <1>6, <1>7 DEF ConnInv
Watcher == <<current, wpc, wlist, wout>>

LEMMA SameHere ==
    ASSUME NEW c, UNCHANGED Watcher
    PROVE  (Here(c)' <=> Here(c)) /\ SameWalk(c)
BY DEF Here, SameWalk, Watcher

\* A step of one connection, with the watcher where it was.
LEMMA OneConn ==
    ASSUME TalkInv, Base, UNCHANGED Watcher, FlagInv', NEW c \in Conns, ConnInv(c)',
           \A e \in Conns : e # c => Same(e)
    PROVE  TalkInv'
<1>1. WalkInv'
  BY DEF TalkInv, WalkInv, Watcher
<1>2. ASSUME NEW e \in Conns PROVE ConnInv(e)'
  <2>1. CASE e = c
    BY <2>1
  <2>2. CASE e # c
    <3>1. Same(e) /\ SameWalk(e) /\ ConnInv(e) /\ current' = current
      BY <2>2, SameHere DEF TalkInv, Watcher
    <3>. QED  BY <3>1, SameConn
  <2>. QED  BY <2>1, <2>2
<1>. QED  BY <1>1, <1>2 DEF TalkInv

\* A step that leaves every connection alone.
LEMMA NoConn ==
    ASSUME TalkInv, Base, FlagInv', WalkInv', current' = current \/ current' = current + 1,
           \A e \in Conns : Same(e) /\ SameWalk(e)
    PROVE  TalkInv'
BY SameConn DEF TalkInv

\* The functions of the connections.
Typed ==
    /\ pc \in [Conns -> {"recv", "assign", "notify", "write", "find", "ring", "dedupe", "judge"}]
    /\ out \in [Conns -> Output(current)]
    /\ told \in [Conns -> AnyDiff] /\ agreed \in [Conns -> [Jobs -> AnyDiff]]
    /\ sent \in [Conns -> [Jobs -> Address]]
    /\ authorized \in [Conns -> BOOLEAN] /\ deaf \in [Conns -> BOOLEAN]
    /\ renamed \in [Conns -> BOOLEAN] /\ crossed \in [Conns -> SUBSET Nat]
    /\ msg \in [Conns -> Submits] /\ res \in [Conns -> Verdict]
    /\ addr \in [Conns -> Address] /\ diff \in [Conns -> Diffs]
    /\ cb \in [Conns -> Coinbase] /\ jobDiffs \in [Conns -> Seq(JobDiff)]

LEMMA TalkTyped == ASSUME TalkInv, Base, StaleInv PROVE Typed
BY DEF TalkInv, Base, StaleInv, Typed, FlagInv, WireInv, HandlerInv, RenderInv, Submits

LEMMA AddressesPositive == \A a \in Addresses : a # None
BY StratumAssumption

\* handle_authorize, before the difficulty is settled.
LEMMA TalkAuthorize ==
    ASSUME TalkInv, Base, StaleInv, NEW c \in Conns, NEW a \in Addresses, Authorize(c, a)
    PROVE  TalkInv'
<1>. USE DEF jobVars, walkVars, shareVars, wireVars
<1>0. Typed /\ ConnInv(c)
  BY TalkTyped DEF TalkInv
<1>1. /\ UNCHANGED Watcher /\ pc[c] = "recv"
      /\ UNCHANGED <<diff, jobDiffs, cb, msg, res, out, told, agreed, sent, deaf, crossed>>
      /\ pc' = [pc EXCEPT ![c] = "assign"]
      /\ addr' = [addr EXCEPT ![c] = a]
      /\ authorized' = [authorized EXCEPT ![c] = TRUE]
      /\ renamed' = [renamed EXCEPT ![c] = renamed[c] \/ cb[c].addr \notin {None, a}]
  BY DEF Authorize, Receives, Goto, Watcher
<1>2. /\ pc'[c] = "assign" /\ addr'[c] = a /\ authorized'[c]
      /\ ~renamed'[c] => ~renamed[c] /\ cb[c].addr \in {None, a}
  BY <1>0, <1>1 DEF Typed
<1>3. FlagInv'
  <2>1. (renamed[c] \/ cb[c].addr \notin {None, a}) \in BOOLEAN
    OBVIOUS
  <2>. QED  BY <1>1, <2>1 DEF TalkInv, FlagInv
<1>4. \A e \in Conns : e # c => Same(e)
  BY <1>0, <1>1 DEF Typed, Same, SameWire, SameFlags, SameShare, SameRender
<1>5. Here(c)' <=> Here(c)
  BY <1>1, SameHere
<1>6. TellInv(c)'
  BY <1>0, <1>1, <1>2, AddressesPositive DEF ConnInv, TellInv
<1>7. GivenInv(c)'
  BY <1>0, <1>1 DEF ConnInv, GivenInv, Job
<1>8. NameInv(c)'
  BY <1>0, <1>1, <1>2, <1>5 DEF ConnInv, NameInv, Watcher
<1>9. Ordered(jobDiffs[c], current)'
  BY <1>0, <1>1 DEF ConnInv, Ordered, Watcher
<1>10. AgreeInv(c)'
  BY <1>0, <1>1, <1>5 DEF ConnInv, AgreeInv, Recorded, Watcher
<1>11. JudgeInv(c)' /\ HonestInv(c)'
  BY <1>2 DEF JudgeInv, HonestInv
<1>12. ConnInv(c)'
  BY <1>6, <1>7, <1>8, <1>9, <1>10, <1>11 DEF ConnInv
<1>. QED  BY <1>1, <1>3, <1>4, <1>12, OneConn
\* What a step of the connection's thread leaves alone.
LEMMA SameRing ==
    ASSUME NEW c \in Conns, ConnInv(c), UNCHANGED Watcher, jobDiffs'[c] = jobDiffs[c]
    PROVE  Ordered(jobDiffs[c], current)'
BY DEF ConnInv, Ordered, Watcher

LEMMA SameAgree ==
    ASSUME NEW c \in Conns, ConnInv(c), UNCHANGED Watcher, SameWire(c),
           jobDiffs'[c] = jobDiffs[c], crossed'[c] = crossed[c],
           deaf[c] => deaf'[c], out'[c].job = None,
           out'[c] = NoOutput => told[c] = None \/ out[c] = NoOutput
    PROVE  AgreeInv(c)'
<1>1. Here(c)' <=> Here(c)
  BY SameHere
<1>. QED  BY <1>1 DEF ConnInv, AgreeInv, Recorded, Watcher, SameWire

LEMMA NoOutputFields == NoOutput.diff = None /\ NoOutput.job = None /\ NoOutput.addr = None
BY DEF NoOutput

LEMMA TalkAuthorizeFails ==
    ASSUME TalkInv, Base, StaleInv, NEW c \in Conns, AuthorizeFails(c)
    PROVE  TalkInv'
<1>. USE DEF jobVars, walkVars, shareVars, wireVars
<1>0. Typed /\ ConnInv(c)
  BY TalkTyped DEF TalkInv
<1>1. /\ UNCHANGED Watcher /\ pc[c] = "recv"
      /\ UNCHANGED <<pc, authorized, renamed, diff, jobDiffs, cb, msg, res, out,
                     told, agreed, sent, deaf, crossed>>
      /\ addr' = [addr EXCEPT ![c] = None]
  BY DEF AuthorizeFails, Receives, Watcher
<1>2. addr'[c] = None
  BY <1>0, <1>1 DEF Typed
<1>3. FlagInv'
  BY <1>1 DEF TalkInv, FlagInv
<1>4. \A e \in Conns : e # c => Same(e)
  BY <1>0, <1>1 DEF Typed, Same, SameWire, SameFlags, SameShare, SameRender
<1>5. Here(c)' <=> Here(c)
  BY <1>1, SameHere
<1>6. TellInv(c)'
  BY <1>0, <1>1, <1>2 DEF ConnInv, TellInv
<1>7. GivenInv(c)'
  BY <1>0, <1>1 DEF ConnInv, GivenInv, Job
<1>8. NameInv(c)'
  BY <1>0, <1>1, <1>2, <1>5 DEF ConnInv, NameInv, Watcher
<1>10. AgreeInv(c)' /\ Ordered(jobDiffs[c], current)'
  BY <1>0, <1>1, SameAgree, SameRing, NoOutputFields DEF ConnInv, TellInv, SameWire
<1>11. JudgeInv(c)' /\ HonestInv(c)'
  BY <1>1 DEF JudgeInv, HonestInv
<1>12. ConnInv(c)'
  BY <1>6, <1>7, <1>8, <1>10, <1>11 DEF ConnInv
<1>. QED  BY <1>1, <1>3, <1>4, <1>12, OneConn

LEMMA TalkStall ==
    ASSUME TalkInv, Base, StaleInv, NEW c \in Conns, Stall(c)
    PROVE  TalkInv'
<1>. USE DEF jobVars, walkVars, sessVars, shareVars, wireVars
<1>0. Typed /\ ConnInv(c)
  BY TalkTyped DEF TalkInv
<1>1. /\ UNCHANGED Watcher
      /\ UNCHANGED <<pc, authorized, renamed, addr, diff, jobDiffs, cb, msg, res, out,
                     told, agreed, sent, crossed>>
      /\ deaf' = [deaf EXCEPT ![c] = TRUE]
  BY DEF Stall, Watcher
<1>2. deaf'[c]
  BY <1>0, <1>1 DEF Typed
<1>3. FlagInv'
  BY <1>1 DEF TalkInv, FlagInv
<1>4. \A e \in Conns : e # c => Same(e)
  BY <1>0, <1>1 DEF Typed, Same, SameWire, SameFlags, SameShare, SameRender
<1>5. Here(c)' <=> Here(c)
  BY <1>1, SameHere
<1>6. TellInv(c)'
  BY <1>0, <1>1, <1>2 DEF ConnInv, TellInv
<1>7. GivenInv(c)'
  BY <1>0, <1>1 DEF ConnInv, GivenInv, Job
<1>8. NameInv(c)'
  BY <1>0, <1>1, <1>2, <1>5 DEF ConnInv, NameInv, Watcher
<1>9. Ordered(jobDiffs[c], current)'
  BY <1>0, <1>1, SameRing
<1>10. AgreeInv(c)'
  BY <1>0, <1>1, <1>2 DEF ConnInv, AgreeInv, Recorded, Watcher
<1>11. JudgeInv(c)' /\ HonestInv(c)'
  BY <1>0, <1>1 DEF ConnInv, JudgeInv, HonestInv, Watcher
<1>12. ConnInv(c)'
  BY <1>6, <1>7, <1>8, <1>9, <1>10, <1>11 DEF ConnInv
<1>. QED  BY <1>1, <1>3, <1>4, <1>12, OneConn

LEMMA TalkSubmit ==
    ASSUME TalkInv, Base, StaleInv, NEW c \in Conns, NEW s \in Share, Submit(c, s)
    PROVE  TalkInv'
<1>. USE DEF jobVars, walkVars, sessVars, wireVars
<1>0. Typed /\ ConnInv(c)
  BY TalkTyped DEF TalkInv
<1>1. PICK m : m = <<s, sent[c][s.job]>>
  OBVIOUS
<1>2. /\ UNCHANGED Watcher /\ pc[c] = "recv" /\ authorized[c]
      /\ UNCHANGED <<authorized, renamed, addr, diff, jobDiffs, cb, res, out,
                     told, agreed, sent, deaf, crossed>>
      /\ agreed[c][s.job] # None
      /\ pc' = [pc EXCEPT ![c] = "find"] /\ msg' = [msg EXCEPT ![c] = m]
  BY <1>1 DEF Submit, Receives, Goto, Watcher
<1>3. pc'[c] = "find" /\ msg'[c] = m /\ m[1] = s /\ m[2] = sent[c][s.job] /\ s.job \in Jobs
  BY <1>0, <1>1, <1>2 DEF Typed, Share
<1>4. FlagInv'
  BY <1>2 DEF TalkInv, FlagInv
<1>5. \A e \in Conns : e # c => Same(e)
  BY <1>0, <1>2 DEF Typed, Same, SameWire, SameFlags, SameShare, SameRender
<1>6. Here(c)' <=> Here(c)
  BY <1>2, SameHere
<1>7. TellInv(c)'
  BY <1>0, <1>2, <1>3 DEF ConnInv, TellInv
<1>8. m[2] # None
  BY <1>0, <1>2, <1>3 DEF ConnInv, GivenInv
<1>9. GivenInv(c)'
  <2>1. /\ cb'[c].job # None => cb'[c].addr # None
        /\ \A j \in Jobs : agreed'[c][j] # None => sent'[c][j] # None /\ told'[c] # None
    BY <1>0, <1>2 DEF ConnInv, GivenInv
  <2>2. agreed'[c][msg'[c][1].job] # None /\ msg'[c][2] # None
    BY <1>2, <1>3, <1>8
  <2>. QED  BY <2>1, <2>2 DEF GivenInv, Job
<1>10. NameInv(c)'
  <2>1. ~renamed[c] => m[2] = cb[c].addr
    BY <1>0, <1>3, <1>8 DEF ConnInv, NameInv
  <2>. QED  BY <1>0, <1>2, <1>3, <1>6, <2>1 DEF ConnInv, NameInv, Watcher
<1>11. AgreeInv(c)' /\ Ordered(jobDiffs[c], current)'
  BY <1>0, <1>2, SameAgree, SameRing, NoOutputFields DEF ConnInv, TellInv, SameWire
<1>12. JudgeInv(c)' /\ HonestInv(c)'
  BY <1>3 DEF JudgeInv, HonestInv
<1>13. ConnInv(c)'
  BY <1>7, <1>9, <1>10, <1>11, <1>12 DEF ConnInv
<1>. QED  BY <1>2, <1>4, <1>5, <1>13, OneConn
\* find_job: what the submit is about does not change.
LEMMA TalkFind ==
    ASSUME TalkInv, Base, StaleInv, NEW c \in Conns, FindCurrent(c) \/ FindRecent(c)
    PROVE  TalkInv'
<1>. USE DEF walkVars, sessVars, shareVars, wireVars, NotShares
<1>0. Typed /\ ConnInv(c)
  BY TalkTyped DEF TalkInv
<1>1. /\ UNCHANGED Watcher /\ pc[c] \in {"find", "ring"}
      /\ UNCHANGED <<authorized, renamed, addr, diff, jobDiffs, cb, msg, out,
                     told, agreed, sent, deaf, crossed>>
  BY DEF FindCurrent, FindRecent, Watcher
<1>2. \/ (Goto(c, "dedupe") \/ Goto(c, "ring")) /\ res' = res
      \/ /\ Goto(c, "write")
         /\ res' = [res EXCEPT ![c].verdict = "stale", ![c].inHand = (wold = Job(c))]
  BY DEF FindCurrent, FindRecent
<1>3. /\ \A e \in Conns : e # c => pc'[e] = pc[e] /\ res'[e] = res[e]
      /\ \/ pc'[c] \in {"dedupe", "ring"} /\ res' = res
         \/ pc'[c] = "write" /\ res'[c].verdict = "stale"
  <2>1. CASE (Goto(c, "dedupe") \/ Goto(c, "ring")) /\ res' = res
    BY <1>0, <2>1 DEF Typed, Goto
  <2>2. CASE Goto(c, "write") /\ res' = [res EXCEPT ![c].verdict = "stale",
                                                    ![c].inHand = (wold = Job(c))]
    <3>1. pc'[c] = "write" /\ \A e \in Conns : e # c => pc'[e] = pc[e] /\ res'[e] = res[e]
      BY <1>0, <2>2 DEF Typed, Goto
    <3>2. res[c] \in Verdict
      BY <1>0 DEF Typed
    <3>3. res'[c] = [[res[c] EXCEPT !.verdict = "stale"] EXCEPT !.inHand = (wold = Job(c))]
      BY <1>0, <2>2 DEF Typed
    <3>4. res'[c].verdict = "stale"
      BY <3>2, <3>3 DEF Verdict
    <3>. QED  BY <3>1, <3>4
  <2>. QED  BY <1>2, <2>1, <2>2
<1>4. FlagInv'
  BY <1>1 DEF TalkInv, FlagInv
<1>5. \A e \in Conns : e # c => Same(e)
  BY <1>1, <1>3 DEF Same, SameWire, SameFlags, SameShare, SameRender
<1>6. Here(c)' <=> Here(c)
  BY <1>1, SameHere
<1>7. TellInv(c)'
  BY <1>0, <1>1, <1>3 DEF ConnInv, TellInv
<1>8. GivenInv(c)'
  BY <1>0, <1>1 DEF ConnInv, GivenInv, Job
<1>9. NameInv(c)'
  BY <1>0, <1>1, <1>6 DEF ConnInv, NameInv, Watcher
<1>10. AgreeInv(c)' /\ Ordered(jobDiffs[c], current)'
  BY <1>0, <1>1, SameAgree, SameRing, NoOutputFields DEF ConnInv, TellInv, SameWire
<1>11. JudgeInv(c)'
  BY <1>3 DEF JudgeInv
<1>12. HonestInv(c)'
  BY <1>3 DEF HonestInv
<1>13. ConnInv(c)'
  BY <1>7, <1>8, <1>9, <1>10, <1>11, <1>12 DEF ConnInv
<1>. QED  BY <1>1, <1>4, <1>5, <1>13, OneConn

\* A new difficulty goes into the handler's buffer with the connection's.
LEMMA TalkTells ==
    ASSUME TalkInv, Base, StaleInv, NEW c \in Conns, UNCHANGED Watcher,
           NEW d \in Diffs, authorized[c], out[c] = NoOutput,
           out' = [out EXCEPT ![c].diff = d],
           diff'[c] = d, \A e \in Conns : e # c => diff'[e] = diff[e],
           NEW x \in {"notify", "write"}, pc' = [pc EXCEPT ![c] = x],
           x = "notify" => addr[c] # None,
           UNCHANGED <<authorized, renamed, addr, jobDiffs, cb, msg, told, agreed, sent,
                       deaf, crossed>>,
           \A e \in Conns : e # c => res'[e] = res[e],
           HonestInv(c)'
    PROVE  TalkInv'
<1>0. Typed /\ ConnInv(c)
  BY TalkTyped DEF TalkInv
<1>1. /\ out'[c].diff = d /\ out'[c].job = None /\ out'[c].addr = None /\ d # None
      /\ out'[c] # NoOutput
      /\ \A e \in Conns : e # c => out'[e] = out[e]
  <2>1. out \in [Conns -> Output(current)]
    BY <1>0 DEF Typed
  <2>2. out'[c] = [NoOutput EXCEPT !.diff = d] /\ \A e \in Conns : e # c => out'[e] = out[e]
    BY <2>1
  <2>3. d # None
    BY StratumAssumption
  <2>. QED  BY <2>2, <2>3 DEF NoOutput
<1>2. pc'[c] = x /\ \A e \in Conns : e # c => pc'[e] = pc[e]
  BY <1>0 DEF Typed
<1>3. FlagInv'
  BY DEF TalkInv, FlagInv
<1>4. \A e \in Conns : e # c => Same(e)
  BY <1>1, <1>2 DEF Same, SameWire, SameFlags, SameShare, SameRender
<1>5. Here(c)' <=> Here(c)
  BY SameHere
<1>6. TellInv(c)'
  BY <1>0, <1>1, <1>2 DEF ConnInv, TellInv
<1>7. GivenInv(c)'
  BY <1>0 DEF ConnInv, GivenInv, Job
<1>8. NameInv(c)'
  BY <1>0, <1>1, <1>5 DEF ConnInv, NameInv, Watcher
<1>9. AgreeInv(c)' /\ Ordered(jobDiffs[c], current)'
  BY <1>0, <1>1, SameAgree, SameRing DEF SameWire
<1>10. JudgeInv(c)'
  BY <1>2 DEF JudgeInv
<1>11. ConnInv(c)'
  BY <1>6, <1>7, <1>8, <1>9, <1>10 DEF ConnInv
<1>. QED  BY <1>3, <1>4, <1>11, OneConn

LEMMA TalkAssign ==
    ASSUME TalkInv, Base, StaleInv, NEW c \in Conns, AssignDifficulty(c)
    PROVE  TalkInv'
<1>. USE DEF jobVars, walkVars, sessVars, shareVars, wireVars
<1>0. Typed /\ ConnInv(c)
  BY TalkTyped DEF TalkInv
<1>1. PICK d \in Diffs : Retarget(c, d) /\ out' = [out EXCEPT ![c].diff = d]
  BY DEF AssignDifficulty
<1>2. /\ UNCHANGED Watcher /\ pc[c] = "assign" /\ pc' = [pc EXCEPT ![c] = "notify"]
      /\ UNCHANGED <<authorized, renamed, addr, jobDiffs, cb, msg, res, told, agreed, sent,
                     deaf, crossed>>
  BY DEF AssignDifficulty, Goto, Watcher
<1>3. diff'[c] = d /\ \A e \in Conns : e # c => diff'[e] = diff[e]
  BY <1>0, <1>1 DEF Retarget, Typed
<1>4. authorized[c] /\ addr[c] # None /\ out[c] = NoOutput
  BY <1>0, <1>2 DEF ConnInv, TellInv
<1>5. HonestInv(c)'
  BY <1>0, <1>2 DEF HonestInv, Typed
<1>. QED  BY <1>1, <1>2, <1>3, <1>4, <1>5, TalkTells

LEMMA TalkSuggest ==
    ASSUME TalkInv, Base, StaleInv, NEW c \in Conns, SuggestDifficulty(c)
    PROVE  TalkInv'
<1>. USE DEF jobVars, walkVars, sessVars, shareVars, wireVars
<1>0. Typed /\ ConnInv(c)
  BY TalkTyped DEF TalkInv
<1>1. PICK d \in Diffs : /\ diff' = [diff EXCEPT ![c] = d]
                         /\ out' = IF authorized[c] THEN [out EXCEPT ![c].diff = d] ELSE out
  BY DEF SuggestDifficulty
<1>2. /\ UNCHANGED Watcher /\ pc[c] = "recv" /\ pc' = [pc EXCEPT ![c] = "write"]
      /\ UNCHANGED <<authorized, renamed, addr, jobDiffs, cb, msg, res, told, agreed, sent,
                     deaf, crossed>>
  BY DEF SuggestDifficulty, Receives, Goto, Watcher
<1>3. diff'[c] = d /\ \A e \in Conns : e # c => diff'[e] = diff[e]
  BY <1>0, <1>1 DEF Typed
<1>4. out[c] = NoOutput /\ msg[c] = <<>>
  BY <1>0, <1>2 DEF ConnInv, TellInv, Base, HandlerInv
<1>5. HonestInv(c)'
  BY <1>2, <1>4 DEF HonestInv
<1>6. CASE authorized[c]
  BY <1>1, <1>2, <1>3, <1>4, <1>5, <1>6, TalkTells
<1>7. CASE ~authorized[c]
  <2>0. out' = out /\ told[c] = None
    BY <1>0, <1>1, <1>7 DEF ConnInv, TellInv
  <2>1. pc'[c] = "write" /\ \A e \in Conns : e # c => pc'[e] = pc[e]
    BY <1>0, <1>2 DEF Typed
  <2>2. FlagInv'
    BY <1>2 DEF TalkInv, FlagInv
  <2>3. \A e \in Conns : e # c => Same(e)
    BY <1>2, <1>3, <2>0, <2>1 DEF Same, SameWire, SameFlags, SameShare, SameRender
  <2>4. Here(c)' <=> Here(c)
    BY <1>2, SameHere
  <2>5. TellInv(c)'
    BY <1>0, <1>2, <1>4, <1>7, <2>0, <2>1, NoOutputFields DEF ConnInv, TellInv
  <2>6. GivenInv(c)'
    BY <1>0, <1>2 DEF ConnInv, GivenInv, Job
  <2>7. NameInv(c)'
    BY <1>0, <1>2, <2>0, <2>4 DEF ConnInv, NameInv, Watcher
  <2>8. AgreeInv(c)' /\ Ordered(jobDiffs[c], current)'
    BY <1>0, <1>2, <1>4, <2>0, SameAgree, SameRing, NoOutputFields DEF SameWire
  <2>9. JudgeInv(c)'
    BY <2>1 DEF JudgeInv
  <2>10. ConnInv(c)'
    BY <1>5, <2>5, <2>6, <2>7, <2>8, <2>9 DEF ConnInv
  <2>. QED  BY <1>2, <2>2, <2>3, <2>10, OneConn
<1>. QED  BY <1>6, <1>7
\* A coinbase that is rendered, or was, pays the address of its connection.
LEMMA RenderedName ==
    ASSUME NEW c \in Conns, ConnInv(c), CanRender(c), NEW j, j # None
    PROVE  /\ Render(c, j).addr # None
           /\ ~renamed[c] /\ cb[c].addr # None => Render(c, j).addr = cb[c].addr
<1>1. CASE cb[c].job = j
  BY <1>1 DEF Render, ConnInv, GivenInv
<1>2. CASE cb[c].job # j
  <2>1. Render(c, j).addr = addr[c]
    BY <1>2 DEF Render
  <2>. QED  BY <2>1 DEF CanRender, ConnInv, NameInv
<1>. QED  BY <1>1, <1>2

\* The coinbase of a submit, if it renders, is the one that was mined.
LEMMA MinedCoinbase ==
    ASSUME NEW c \in Conns, ConnInv(c), CanRender(c), msg[c] # <<>>, Job(c) # None
    PROVE  /\ Render(c, Job(c)).addr # None
           /\ ~renamed[c] => /\ Render(c, Job(c)).addr = cb[c].addr
                             /\ Render(c, Job(c)).addr = msg[c][2]
<1>1. ~renamed[c] => msg[c][2] = cb[c].addr /\ cb[c].addr # None
  BY DEF ConnInv, NameInv, GivenInv
<1>2. PICK r : r = Render(c, Job(c))
  OBVIOUS
<1>3. r.addr # None /\ (~renamed[c] /\ cb[c].addr # None => r.addr = cb[c].addr)
  BY <1>2, RenderedName
<1>. QED  BY <1>1, <1>2, <1>3

\* A submit that is being handled is not the empty one.
LEMMA PairIsSome ==
    ASSUME NEW A, NEW B, NEW p \in A \X B PROVE p # <<>>
<1>1. PICK a \in A, b \in B : p = <<a, b>>
  OBVIOUS
<1>2. Len(p) = 2 /\ Len(<<>>) = 0
  BY <1>1
<1>. QED  BY <1>2

\* The dedupe rings, the coinbase and the header.
LEMMA TalkDedupe ==
    ASSUME TalkInv, Base, StaleInv, NEW c \in Conns, Dedupe(c)
    PROVE  TalkInv'
<1>. USE DEF walkVars, sessVars, shareVars, wireVars, NotShares
<1>0. Typed /\ ConnInv(c)
  BY TalkTyped DEF TalkInv
<1>1. /\ UNCHANGED Watcher /\ pc[c] = "dedupe"
      /\ UNCHANGED <<authorized, renamed, addr, diff, jobDiffs, msg, out,
                     told, agreed, sent, deaf, crossed>>
  BY DEF Dedupe, Watcher
<1>2. PICK r : r = Render(c, Job(c))
  OBVIOUS
<1>3. /\ \/ \E v \in {"dup", "bad", "render"} :
              /\ Goto(c, "write") /\ Answer(c, v) /\ (v = "render" => ~CanRender(c))
         \/ /\ Goto(c, "judge") /\ res' = [res EXCEPT ![c].meets = Meets(c)] /\ CanRender(c)
      /\ cb' = cb \/ (cb' = [cb EXCEPT ![c] = r] /\ CanRender(c))
  BY <1>2 DEF Dedupe, Refuse
<1>4. msg[c] \in Share \X Address /\ Job(c) \in Jobs /\ msg[c] # <<>> /\ Job(c) # None
  <2>1. msg[c] \in Share \X Address /\ Job(c) \in Jobs
    BY <1>1, HandlerJob DEF Base, HandlerInv
  <2>2. msg[c] # <<>>
    BY <2>1, PairIsSome
  <2>. QED  BY <2>1, <2>2 DEF Jobs
<1>5. /\ \A e \in Conns : e # c => pc'[e] = pc[e] /\ res'[e] = res[e] /\ cb'[e] = cb[e]
      /\ pc'[c] \in {"write", "judge"}
      /\ pc'[c] = "write" => /\ res'[c].verdict \in {"dup", "bad", "render"}
                             /\ res'[c].verdict = "render" => ~CanRender(c)
      /\ pc'[c] = "judge" => res'[c].meets = Meets(c) /\ CanRender(c)
  <2>0. res[c] \in Verdict
    BY <1>0 DEF Typed
  <2>1. \A e \in Conns : e # c => cb'[e] = cb[e]
    BY <1>0, <1>3 DEF Typed
  <2>2. ASSUME NEW v \in {"dup", "bad", "render"},
               Goto(c, "write"), Answer(c, v), v = "render" => ~CanRender(c)
        PROVE  /\ \A e \in Conns : e # c => pc'[e] = pc[e] /\ res'[e] = res[e]
               /\ pc'[c] = "write" /\ res'[c].verdict = v
    <3>1. /\ \A e \in Conns : e # c => pc'[e] = pc[e] /\ res'[e] = res[e]
          /\ pc'[c] = "write" /\ res'[c] = [res[c] EXCEPT !.verdict = v]
      BY <1>0, <2>2 DEF Typed, Goto, Answer
    <3>. QED  BY <2>0, <3>1 DEF Verdict
  <2>3. ASSUME Goto(c, "judge"), res' = [res EXCEPT ![c].meets = Meets(c)], CanRender(c)
        PROVE  /\ \A e \in Conns : e # c => pc'[e] = pc[e] /\ res'[e] = res[e]
               /\ pc'[c] = "judge" /\ res'[c].meets = Meets(c)
    <3>1. /\ \A e \in Conns : e # c => pc'[e] = pc[e] /\ res'[e] = res[e]
          /\ pc'[c] = "judge" /\ res'[c] = [res[c] EXCEPT !.meets = Meets(c)]
      BY <1>0, <2>3 DEF Typed, Goto
    <3>. QED  BY <2>0, <3>1 DEF Verdict
  <2>. QED  BY <1>3, <2>1, <2>2, <2>3
<1>6. /\ cb'[c].job # None => cb'[c].addr # None
      /\ ~renamed[c] => cb'[c].addr = cb[c].addr
  <2>1. CASE cb' = cb
    BY <1>0, <2>1 DEF ConnInv, GivenInv
  <2>2. CASE cb' = [cb EXCEPT ![c] = r] /\ CanRender(c)
    <3>1. cb'[c] = r
      BY <1>0, <2>2 DEF Typed
    <3>. QED  BY <1>0, <1>2, <1>4, <2>2, <3>1, MinedCoinbase
  <2>. QED  BY <1>3, <2>1, <2>2
<1>7. FlagInv'
  BY <1>1 DEF TalkInv, FlagInv
<1>8. \A e \in Conns : e # c => Same(e)
  BY <1>1, <1>5 DEF Same, SameWire, SameFlags, SameShare, SameRender
<1>9. Here(c)' <=> Here(c)
  BY <1>1, SameHere
<1>10. authorized[c] /\ out[c] = NoOutput
  BY <1>0, <1>1 DEF ConnInv, TellInv
<1>11. TellInv(c)'
  BY <1>0, <1>1, <1>5, <1>10, NoOutputFields DEF ConnInv, TellInv
<1>12. GivenInv(c)'
  BY <1>0, <1>1, <1>6 DEF ConnInv, GivenInv, Job
<1>13. NameInv(c)'
  BY <1>0, <1>1, <1>6, <1>9 DEF ConnInv, NameInv, Watcher
<1>14. AgreeInv(c)' /\ Ordered(jobDiffs[c], current)'
  BY <1>0, <1>1, <1>10, SameAgree, SameRing, NoOutputFields DEF SameWire
<1>15. JudgeInv(c)'
  <2>1. ASSUME pc'[c] = "judge", ~renamed[c] PROVE res'[c].meets = msg[c][1].meets
    <3>1. Render(c, Job(c)).addr = msg[c][2]
      BY <1>0, <1>4, <1>5, <2>1, MinedCoinbase
    <3>. QED  BY <1>5, <2>1, <3>1 DEF Meets
  <2>. QED  BY <1>1, <2>1 DEF JudgeInv
<1>16. HonestInv(c)'
  <2>1. pc'[c] = "write" /\ res'[c].verdict = "render" => addr'[c] = None
    BY <1>1, <1>5, <1>10 DEF CanRender
  <2>2. pc'[c] = "write" => res'[c].verdict # "low" /\ res'[c].verdict # "ok"
    BY <1>5
  <2>. QED  BY <2>1, <2>2 DEF HonestInv
<1>17. ConnInv(c)'
  BY <1>11, <1>12, <1>13, <1>14, <1>15, <1>16 DEF ConnInv
<1>. QED  BY <1>1, <1>7, <1>8, <1>17, OneConn
\* A submit is answered, and nothing else changes for the miner.
LEMMA TalkAnswers ==
    ASSUME TalkInv, Base, StaleInv, NEW c \in Conns, UNCHANGED Watcher,
           out[c] = NoOutput, pc' = [pc EXCEPT ![c] = "write"],
           UNCHANGED <<authorized, renamed, addr, diff, jobDiffs, cb, msg, out, told, agreed,
                       sent, deaf, crossed>>,
           \A e \in Conns : e # c => res'[e] = res[e],
           HonestInv(c)'
    PROVE  TalkInv'
<1>0. Typed /\ ConnInv(c)
  BY TalkTyped DEF TalkInv
<1>1. pc'[c] = "write" /\ \A e \in Conns : e # c => pc'[e] = pc[e]
  BY <1>0 DEF Typed
<1>2. FlagInv'
  BY DEF TalkInv, FlagInv
<1>3. \A e \in Conns : e # c => Same(e)
  BY <1>1 DEF Same, SameWire, SameFlags, SameShare, SameRender
<1>4. Here(c)' <=> Here(c)
  BY SameHere
<1>5. TellInv(c)'
  BY <1>0, <1>1, NoOutputFields DEF ConnInv, TellInv
<1>6. GivenInv(c)'
  BY <1>0 DEF ConnInv, GivenInv, Job
<1>7. NameInv(c)'
  BY <1>0, <1>4 DEF ConnInv, NameInv, Watcher
<1>8. AgreeInv(c)' /\ Ordered(jobDiffs[c], current)'
  BY <1>0, NoOutputFields, SameAgree, SameRing DEF SameWire
<1>9. JudgeInv(c)'
  BY <1>1 DEF JudgeInv
<1>10. ConnInv(c)'
  BY <1>5, <1>6, <1>7, <1>8, <1>9 DEF ConnInv
<1>. QED  BY <1>2, <1>3, <1>10, OneConn

\* What a share that meets m is credited at, against three bars.
LEMMA CreditIsFair ==
    ASSUME NEW c, NEW m \in Nat, NEW x, x = CreditFor(c, m),
           Assigned(c) \in Nat \ {0}, diff[c] \in Nat \ {0}, NetDiff[Job(c)] \in Nat \ {0}
    PROVE  /\ x = None => m < Assigned(c) /\ m < NetDiff[Job(c)]
           /\ x # None => x <= m /\ (m >= Assigned(c) => x = Assigned(c))
BY DEF CreditFor

\* The verdict on a share whose job was agreed on.
LEMMA VerdictIsHonest ==
    ASSUME TalkInv, Base, StaleInv, NEW c \in Conns, pc[c] = "judge", ~renamed[c],
           Job(c) \notin crossed[c], Job(c) + JobDiffRing > current,
           NEW x, x = CreditFor(c, res[c].meets)
    PROVE  LET share == msg[c][1] IN
           /\ x = None => share.meets < agreed[c][share.job] /\ share.meets < NetDiff[share.job]
           /\ x # None => /\ x <= share.meets
                          /\ share.meets >= agreed[c][share.job] => x = agreed[c][share.job]
<1>0. Typed /\ ConnInv(c)
  BY TalkTyped DEF TalkInv
<1>1. msg[c] \in Share \X Address /\ Job(c) \in Jobs /\ msg[c] # <<>>
  <2>1. msg[c] \in Share \X Address /\ Job(c) \in Jobs
    BY HandlerJob DEF Base, HandlerInv
  <2>2. msg[c] # <<>>
    BY <2>1, PairIsSome
  <2>. QED  BY <2>1, <2>2
<1>2. res[c].meets = msg[c][1].meets
  BY <1>0 DEF ConnInv, JudgeInv
<1>3. Recorded(c, Job(c)) = agreed[c][Job(c)] /\ agreed[c][Job(c)] # None
  BY <1>0, <1>1 DEF ConnInv, GivenInv, AgreeInv
<1>4. Assigned(c) = agreed[c][Job(c)]
  BY <1>3 DEF Assigned, Recorded
<1>5. \A d \in Diffs : d \in Nat \ {0}
  BY StratumAssumption
<1>6. Assigned(c) \in Diffs /\ diff[c] \in Diffs /\ NetDiff[Job(c)] \in Diffs
  BY <1>1, AssignedType, StratumAssumption DEF Base, Jobs
<1>7. res[c].meets \in Nat
  <2>1. res[c].meets \in AnyDiff
    BY DEF StaleInv, Verdict
  <2>. QED  BY <1>5, <2>1 DEF AnyDiff
<1>8. /\ Assigned(c) \in Nat \ {0} /\ diff[c] \in Nat \ {0} /\ NetDiff[Job(c)] \in Nat \ {0}
  BY <1>5, <1>6
<1>9. PICK m \in Nat : m = res[c].meets
  BY <1>7
<1>10. /\ x = None => m < Assigned(c) /\ m < NetDiff[Job(c)]
       /\ x # None => x <= m /\ (m >= Assigned(c) => x = Assigned(c))
  BY <1>8, <1>9, CreditIsFair
<1>. QED  BY <1>2, <1>4, <1>9, <1>10 DEF Job

LEMMA TalkJudge ==
    ASSUME TalkInv, Base, StaleInv, NEW c \in Conns, Judge(c)
    PROVE  TalkInv'
<1>. USE DEF walkVars, sessVars, shareVars, wireVars, NotShares
<1>0. Typed /\ ConnInv(c)
  BY TalkTyped DEF TalkInv
<1>1. /\ UNCHANGED Watcher /\ pc[c] = "judge" /\ pc' = [pc EXCEPT ![c] = "write"]
      /\ UNCHANGED <<authorized, renamed, addr, jobDiffs, cb, msg, told, agreed, sent,
                     deaf, crossed>>
  BY DEF Judge, Watcher, Goto
<1>2. PICK x : x = CreditFor(c, res[c].meets)
  OBVIOUS
<1>3. \/ x = None /\ Answer(c, "low") /\ UNCHANGED <<diff, out>>
      \/ /\ x # None
         /\ res' = [res EXCEPT ![c].verdict = "ok", ![c].credit = x]
         /\ \E d \in Diffs :
              /\ Retarget(c, d)
              /\ out' = IF d = diff[c] THEN out ELSE [out EXCEPT ![c].diff = d]
  BY <1>2 DEF Judge
<1>4. /\ \A e \in Conns : e # c => res'[e] = res[e]
      /\ x = None => res'[c].verdict = "low"
      /\ x # None => res'[c].verdict = "ok" /\ res'[c].credit = x
  <2>0. res[c] \in Verdict /\ res \in [Conns -> Verdict]
    BY <1>0 DEF Typed
  <2>1. CASE x = None
    <3>1. res' = [res EXCEPT ![c].verdict = "low"]
      BY <1>3, <2>1 DEF Answer
    <3>2. /\ \A e \in Conns : e # c => res'[e] = res[e]
          /\ res'[c] = [res[c] EXCEPT !.verdict = "low"]
      BY <2>0, <3>1
    <3>. QED  BY <2>0, <2>1, <3>2 DEF Verdict
  <2>2. CASE x # None
    <3>1. res' = [res EXCEPT ![c].verdict = "ok", ![c].credit = x]
      BY <1>3, <2>2
    <3>2. /\ \A e \in Conns : e # c => res'[e] = res[e]
          /\ res'[c] = [[res[c] EXCEPT !.verdict = "ok"] EXCEPT !.credit = x]
      BY <2>0, <3>1
    <3>. QED  BY <2>0, <2>2, <3>2 DEF Verdict
  <2>. QED  BY <2>1, <2>2
<1>5. pc'[c] = "write" /\ out[c] = NoOutput /\ authorized[c]
  BY <1>0, <1>1 DEF Typed, ConnInv, TellInv
<1>6. HonestInv(c)'
  <2>1. ASSUME ~renamed[c], Job(c) \notin crossed[c], Job(c) + JobDiffRing > current
        PROVE  /\ x = None => /\ msg[c][1].meets < agreed[c][msg[c][1].job]
                              /\ msg[c][1].meets < NetDiff[msg[c][1].job]
               /\ x # None => /\ x <= msg[c][1].meets
                              /\ msg[c][1].meets >= agreed[c][msg[c][1].job]
                                    => x = agreed[c][msg[c][1].job]
    BY <1>1, <1>2, <2>1, VerdictIsHonest
  <2>2. CASE x = None
    BY <1>1, <1>4, <1>5, <2>1, <2>2 DEF HonestInv, Job, Watcher
  <2>3. CASE x # None
    BY <1>1, <1>4, <1>5, <2>1, <2>3 DEF HonestInv, Job, Watcher
  <2>. QED  BY <2>2, <2>3
<1>7. CASE UNCHANGED <<diff, out>>
  BY <1>1, <1>4, <1>5, <1>6, <1>7, TalkAnswers
<1>8. ASSUME NEW d \in Diffs, Retarget(c, d), d # diff[c], out' = [out EXCEPT ![c].diff = d]
      PROVE  TalkInv'
  <2>1. diff'[c] = d /\ \A e \in Conns : e # c => diff'[e] = diff[e]
    BY <1>0, <1>8 DEF Retarget, Typed
  <2>. QED  BY <1>1, <1>4, <1>5, <1>6, <1>8, <2>1, TalkTells
<1>9. ASSUME NEW d \in Diffs, Retarget(c, d), d = diff[c], out' = out PROVE TalkInv'
  BY <1>7, <1>9 DEF Retarget
<1>. QED  BY <1>3, <1>7, <1>8, <1>9
\* send_current_notify records the connection's difficulty for the current
\* job: what was agreed on and is not crossed is still recorded.
LEMMA Records ==
    ASSUME TalkInv, Base, StaleInv, NEW c \in Conns,
           NEW s, s = RecordJobDifficulty(jobDiffs[c], current, diff[c]),
           NEW X, X = crossed[c] \cup (IF Rerendered(c) THEN {current} ELSE {})
    PROVE  /\ Ordered(s, current) /\ JobDifficulty(s, current) = diff[c]
           /\ \A j \in Jobs : j \notin X /\ agreed[c][j] # None /\ j + JobDiffRing > current
                => JobDifficulty(s, j) = agreed[c][j]
           /\ out[c].job # None => \/ JobDifficulty(s, out[c].job) = diff[c]
                                   \/ out[c].job + JobDiffRing <= current
<1>0. Typed /\ ConnInv(c)
  BY TalkTyped DEF TalkInv
<1>1. /\ jobDiffs[c] \in Seq(JobDiff) /\ diff[c] \in Diffs /\ current \in Nat
      /\ JobDiffRing \in Nat /\ JobDiffRing > 0
  BY <1>0, JobDiffRingType DEF Typed, Base, JobBudget
<1>2. /\ Ordered(s, current) /\ JobDifficulty(s, current) = diff[c]
      /\ \A j \in Nat : j # current =>
            JobDifficulty(s, j) = Recorded(c, j) \/ j + JobDiffRing <= current
  BY <1>0, <1>1, RecordLookup DEF ConnInv, Recorded
<1>3. ASSUME NEW j \in Jobs, j \notin X, agreed[c][j] # None, j + JobDiffRing > current
      PROVE  JobDifficulty(s, j) = agreed[c][j]
  <2>1. Recorded(c, j) = agreed[c][j]
    BY <1>0, <1>3 DEF ConnInv, AgreeInv
  <2>2. j \in Nat /\ ~(j + JobDiffRing <= current)
    BY <1>1, <1>3 DEF Jobs
  <2>3. CASE j # current
    BY <1>2, <2>1, <2>2, <2>3
  <2>4. CASE j = current
    <3>1. ~Rerendered(c)
      BY <1>3, <2>4
    <3>2. Recorded(c, current) \in {None, diff[c]}
      BY <3>1 DEF Rerendered, Recorded
    <3>. QED  BY <1>2, <1>3, <2>1, <2>4, <3>2
  <2>. QED  BY <2>3, <2>4
<1>4. ASSUME out[c].job # None
      PROVE  \/ JobDifficulty(s, out[c].job) = diff[c]
             \/ out[c].job + JobDiffRing <= current
  <2>1. out[c].job \in Nat
    BY <1>0, <1>1 DEF Typed, Output
  <2>2. Recorded(c, out[c].job) = diff[c] \/ out[c].job + JobDiffRing <= current
    BY <1>0, <1>4 DEF ConnInv, AgreeInv
  <2>. QED  BY <1>2, <2>1, <2>2
<1>. QED  BY <1>2, <1>3, <1>4

\* The address of a coinbase that is rendered anew.
LEMMA RendersName ==
    ASSUME TalkInv, NEW c \in Conns, CanRender(c), current # None,
           NEW r, r = Render(c, current), ~renamed[c]
    PROVE  /\ addr[c] = r.addr
           /\ cb[c].addr = None \/ cb[c].addr = r.addr
<1>1. ConnInv(c)
  BY DEF TalkInv
<1>2. r.addr # None /\ (cb[c].addr # None => r.addr = cb[c].addr)
  BY <1>1, RenderedName
<1>3. cb[c].addr = None => r.addr = addr[c]
  <2>1. cb[c].addr = None => cb[c].job # current
    BY <1>1 DEF ConnInv, GivenInv
  <2>. QED  BY <2>1 DEF Render
<1>4. cb[c].addr # None => addr[c] = cb[c].addr
  BY <1>1 DEF ConnInv, NameInv, CanRender
<1>. QED  BY <1>2, <1>3, <1>4

LEMMA TalkNotify ==
    ASSUME TalkInv, Base, StaleInv, NEW c \in Conns, NotifyAuthorized(c)
    PROVE  TalkInv'
<1>. USE DEF jobVars, walkVars, sessVars, shareVars, wireVars
<1>0. Typed /\ ConnInv(c)
  BY TalkTyped DEF TalkInv
<1>1. /\ UNCHANGED Watcher /\ pc[c] = "notify" /\ pc' = [pc EXCEPT ![c] = "write"]
      /\ UNCHANGED <<authorized, renamed, addr, diff, msg, res, told, agreed, sent, deaf>>
  BY DEF NotifyAuthorized, Watcher, Goto
<1>2. /\ pc'[c] = "write" /\ \A e \in Conns : e # c => pc'[e] = pc[e]
      /\ msg[c] = <<>>
  BY <1>0, <1>1 DEF Typed, Base, HandlerInv
<1>3. Here(c)' <=> Here(c)
  BY <1>1, SameHere
<1>4. JudgeInv(c)' /\ HonestInv(c)'
  BY <1>1, <1>2 DEF JudgeInv, HonestInv
<1>5. CASE current = None
  <2>1. UNCHANGED <<cb, jobDiffs, out, crossed>>
    BY <1>5 DEF NotifyAuthorized
  <2>2. FlagInv'
    BY <1>1, <2>1 DEF TalkInv, FlagInv
  <2>3. \A e \in Conns : e # c => Same(e)
    BY <1>1, <1>2, <2>1 DEF Same, SameWire, SameFlags, SameShare, SameRender
  <2>4. TellInv(c)'
    BY <1>0, <1>1, <1>2, <2>1 DEF ConnInv, TellInv
  <2>5. GivenInv(c)'
    BY <1>0, <1>1, <2>1 DEF ConnInv, GivenInv, Job
  <2>6. NameInv(c)'
    BY <1>0, <1>1, <1>3, <2>1 DEF ConnInv, NameInv, Watcher
  <2>7. AgreeInv(c)' /\ Ordered(jobDiffs[c], current)'
    <3>1. out'[c].job = None
      BY <1>0, <1>1, <2>1 DEF ConnInv, TellInv
    <3>. QED  BY <1>0, <1>1, <2>1, <3>1, SameAgree, SameRing DEF SameWire
  <2>8. ConnInv(c)'
    BY <1>4, <2>4, <2>5, <2>6, <2>7 DEF ConnInv
  <2>. QED  BY <1>1, <2>2, <2>3, <2>8, OneConn
<1>6. CASE current # None
  <2>1. PICK r : r = Render(c, current)
    OBVIOUS
  <2>2. PICK s : s = RecordJobDifficulty(jobDiffs[c], current, diff[c])
    OBVIOUS
  <2>3. PICK X : X = crossed[c] \cup (IF Rerendered(c) THEN {current} ELSE {})
    OBVIOUS
  <2>4. /\ cb' = [cb EXCEPT ![c] = r] /\ jobDiffs' = [jobDiffs EXCEPT ![c] = s]
        /\ out' = [out EXCEPT ![c].job = current, ![c].addr = cb'[c].addr]
        /\ crossed' = [crossed EXCEPT ![c] = X]
    BY <1>6, <2>1, <2>2, <2>3 DEF NotifyAuthorized, Cross
  <2>5. /\ cb'[c] = r /\ jobDiffs'[c] = s /\ crossed'[c] = X
        /\ \A e \in Conns : e # c => /\ cb'[e] = cb[e] /\ jobDiffs'[e] = jobDiffs[e]
                                     /\ crossed'[e] = crossed[e]
    BY <1>0, <2>4 DEF Typed
  <2>6. /\ out'[c].job = current /\ out'[c].addr = r.addr /\ out'[c].diff = out[c].diff
        /\ \A e \in Conns : e # c => out'[e] = out[e]
    <3>1. out \in [Conns -> Output(current)] /\ out[c] \in Output(current)
      BY <1>0 DEF Typed
    <3>2. /\ out'[c] = [[out[c] EXCEPT !.job = current] EXCEPT !.addr = r.addr]
          /\ \A e \in Conns : e # c => out'[e] = out[e]
      BY <2>4, <2>5, <3>1
    <3>. QED  BY <3>1, <3>2 DEF Output
  <2>7. /\ CanRender(c) /\ out[c].diff # None /\ out[c].diff = diff[c]
    BY <1>0, <1>1 DEF ConnInv, TellInv, CanRender
  <2>8. r.addr # None
    BY <1>0, <1>6, <2>1, <2>7, RenderedName
  <2>9. FlagInv'
    <3>1. X \in SUBSET Nat
      BY <1>0, <2>3 DEF Typed, Base, JobBudget
    <3>. QED  BY <1>1, <2>4, <3>1 DEF TalkInv, FlagInv
  <2>10. \A e \in Conns : e # c => Same(e)
    BY <1>1, <1>2, <2>5, <2>6 DEF Same, SameWire, SameFlags, SameShare, SameRender
  <2>11. TellInv(c)'
    BY <1>0, <1>1, <1>2, <2>6, <2>7, <2>8 DEF ConnInv, TellInv, CanRender
  <2>12. GivenInv(c)'
    BY <1>0, <1>1, <2>5, <2>8 DEF ConnInv, GivenInv, Job
  <2>13. NameInv(c)'
    <3>1. ASSUME ~renamed[c]
          PROVE  /\ addr[c] = r.addr /\ \A j \in Jobs : sent[c][j] = None \/ sent[c][j] = r.addr
                 /\ Here(c) => wout.addr = r.addr
      <4>1. addr[c] = r.addr /\ (cb[c].addr = None \/ cb[c].addr = r.addr)
        BY <1>6, <2>1, <2>7, <3>1, RendersName
      <4>2. Here(c) => wout.addr = cb[c].addr /\ wout.addr # None
        BY <1>0, <3>1 DEF ConnInv, NameInv, TalkInv, WalkInv, Here
      <4>3. \A j \in Jobs : sent[c][j] = None \/ sent[c][j] = cb[c].addr
        BY <1>0, <3>1 DEF ConnInv, NameInv
      <4>. QED  BY <4>1, <4>2, <4>3
    <3>. QED  BY <1>1, <1>2, <1>3, <2>5, <2>6, <3>1 DEF NameInv, Watcher
  <2>14. Ordered(jobDiffs[c], current)' /\ AgreeInv(c)'
    <3>1. /\ Ordered(s, current) /\ JobDifficulty(s, current) = diff[c]
          /\ \A j \in Jobs : j \notin X /\ agreed[c][j] # None /\ j + JobDiffRing > current
               => JobDifficulty(s, j) = agreed[c][j]
      BY <2>2, <2>3, Records
    <3>2. out'[c] # NoOutput
      BY <2>6, <2>7, NoOutputFields
    <3>3. Ordered(jobDiffs[c], current)'
      BY <1>1, <2>5, <3>1 DEF Ordered, Watcher
    <3>4. AgreeInv(c)'
      BY <1>1, <2>5, <2>6, <3>1, <3>2 DEF AgreeInv, Recorded, Watcher
    <3>. QED  BY <3>3, <3>4
  <2>15. ConnInv(c)'
    BY <1>4, <2>11, <2>12, <2>13, <2>14 DEF ConnInv
  <2>. QED  BY <1>1, <2>9, <2>10, <2>15, OneConn
<1>. QED  BY <1>5, <1>6
\* A write, entry by entry.
LEMMA Delivered ==
    ASSUME Typed, JobBudget, NEW c \in Conns, NEW o \in Output(current), Deliver(c, o)
    PROVE  /\ told'[c] = IF o.diff = None THEN told[c] ELSE o.diff
           /\ \A j \in Jobs :
                 /\ agreed'[c][j] = IF o.job # None /\ j = o.job THEN told'[c] ELSE agreed[c][j]
                 /\ sent'[c][j] = IF o.job # None /\ j = o.job THEN o.addr ELSE sent[c][j]
           /\ \A e \in Conns : e # c => SameWire(e)
<1>. USE DEF SameWire
<1>1. /\ told \in [Conns -> AnyDiff] /\ agreed \in [Conns -> [Jobs -> AnyDiff]]
      /\ sent \in [Conns -> [Jobs -> Address]]
  BY DEF Typed
<1>2. /\ told'[c] = IF o.diff = None THEN told[c] ELSE o.diff
      /\ \A e \in Conns : e # c => told'[e] = told[e]
  BY <1>1 DEF Deliver
<1>3. CASE o.job = None
  BY <1>2, <1>3 DEF Deliver
<1>4. CASE o.job # None
  <2>1. o.job \in Jobs
    <3>1. o.job \in 0..current
      BY DEF Output
    <3>. QED  BY <1>4, <3>1, JobIsNamed
  <2>2. PICK v : v = told'[c]
    OBVIOUS
  <2>3. PICK k \in Jobs : k = o.job
    BY <2>1
  <2>4. agreed' = [agreed EXCEPT ![c][k] = v] /\ sent' = [sent EXCEPT ![c][k] = o.addr]
    BY <1>4, <2>2, <2>3 DEF Deliver
  <2>5. /\ \A j \in Jobs : /\ agreed'[c][j] = IF j = k THEN v ELSE agreed[c][j]
                           /\ sent'[c][j] = IF j = k THEN o.addr ELSE sent[c][j]
        /\ \A e \in Conns : e # c => agreed'[e] = agreed[e] /\ sent'[e] = sent[e]
    BY <1>1, <2>4
  <2>. QED  BY <1>2, <1>4, <2>2, <2>3, <2>5
<1>. QED  BY <1>3, <1>4

\* The handler's buffer reaches the miner, or is lost.
LEMMA TalkWriteOut ==
    ASSUME TalkInv, Base, StaleInv, NEW c \in Conns, WriteOut(c)
    PROVE  TalkInv'
<1>. USE DEF jobVars, walkVars, sessVars, wireVars
<1>0. Typed /\ ConnInv(c) /\ JobBudget
  BY TalkTyped DEF TalkInv, Base
<1>1. PICK X : X = crossed[c] \cup (IF out[c].diff # None /\ Here(c) THEN {current} ELSE {})
  OBVIOUS
<1>2. /\ UNCHANGED Watcher /\ pc[c] = "write" /\ pc' = [pc EXCEPT ![c] = "recv"]
      /\ UNCHANGED <<authorized, renamed, addr, diff, jobDiffs, cb, deaf>>
      /\ IF deaf[c] THEN UNCHANGED wireVars ELSE Deliver(c, out[c])
      /\ crossed' = [crossed EXCEPT ![c] = X]
      /\ out' = [out EXCEPT ![c] = NoOutput]
      /\ res' = [res EXCEPT ![c] = NoVerdict] /\ msg' = [msg EXCEPT ![c] = <<>>]
  BY <1>1 DEF WriteOut, Watcher, Goto, Cross, Here
<1>3. /\ pc'[c] = "recv" /\ out'[c] = NoOutput /\ msg'[c] = <<>> /\ crossed'[c] = X
      /\ \A e \in Conns : e # c => /\ pc'[e] = pc[e] /\ out'[e] = out[e] /\ msg'[e] = msg[e]
                                   /\ res'[e] = res[e] /\ crossed'[e] = crossed[e]
  BY <1>0, <1>2 DEF Typed
<1>4. out[c] \in Output(current) /\ out[c].job \in 0..current
  BY <1>0 DEF Typed, Output
<1>5. \A e \in Conns : e # c => SameWire(e)
  <2>1. CASE deaf[c]
    BY <1>2, <2>1 DEF SameWire
  <2>2. CASE ~deaf[c]
    BY <1>0, <1>2, <1>4, <2>2, Delivered
  <2>. QED  BY <2>1, <2>2
<1>6. FlagInv'
  <2>1. X \in SUBSET Nat
    BY <1>0, <1>1 DEF Typed, JobBudget
  <2>. QED  BY <1>2, <2>1 DEF TalkInv, FlagInv
<1>7. \A e \in Conns : e # c => Same(e)
  BY <1>2, <1>3, <1>5 DEF Same, SameFlags, SameShare, SameRender
<1>8. Here(c)' <=> Here(c)
  BY <1>2, SameHere
<1>9. Ordered(jobDiffs[c], current)'
  BY <1>0, <1>2, SameRing
<1>10. JudgeInv(c)' /\ HonestInv(c)'
  BY <1>3 DEF JudgeInv, HonestInv
<1>11. TellInv(c)' /\ GivenInv(c)' /\ NameInv(c)' /\ AgreeInv(c)'
  <2>1. CASE deaf[c]
    <3>1. told' = told /\ agreed' = agreed /\ sent' = sent
      BY <1>2, <2>1
    <3>2. TellInv(c)'
      BY <1>0, <1>2, <1>3, <2>1, <3>1, NoOutputFields DEF ConnInv, TellInv
    <3>3. GivenInv(c)'
      BY <1>0, <1>2, <1>3, <3>1 DEF ConnInv, GivenInv
    <3>4. NameInv(c)'
      BY <1>0, <1>2, <1>3, <1>8, <3>1, NoOutputFields DEF ConnInv, NameInv, Watcher
    <3>5. AgreeInv(c)'
      BY <1>0, <1>1, <1>2, <1>3, <2>1, <3>1, NoOutputFields
         DEF ConnInv, AgreeInv, Recorded, Watcher
    <3>. QED  BY <3>2, <3>3, <3>4, <3>5
  <2>2. CASE ~deaf[c]
    <3>1. /\ told'[c] = IF out[c].diff = None THEN told[c] ELSE out[c].diff
          /\ \A j \in Jobs :
                /\ agreed'[c][j] = IF out[c].job # None /\ j = out[c].job
                                   THEN told'[c] ELSE agreed[c][j]
                /\ sent'[c][j] = IF out[c].job # None /\ j = out[c].job
                                 THEN out[c].addr ELSE sent[c][j]
      BY <1>0, <1>2, <1>4, <2>2, Delivered
    <3>2. TellInv(c)'
      BY <1>0, <1>2, <1>3, <3>1, NoOutputFields DEF ConnInv, TellInv
    <3>3. GivenInv(c)'
      <4>1. told[c] # None => told'[c] # None
        BY <3>1
      <4>2. ASSUME NEW j \in Jobs, agreed'[c][j] # None
            PROVE  sent'[c][j] # None /\ told'[c] # None
        <5>1. CASE out[c].job # None /\ j = out[c].job
          BY <1>0, <3>1, <4>2, <5>1 DEF ConnInv, TellInv
        <5>2. CASE ~(out[c].job # None /\ j = out[c].job)
          BY <1>0, <3>1, <4>1, <4>2, <5>2 DEF ConnInv, GivenInv
        <5>. QED  BY <5>1, <5>2
      <4>3. cb'[c].job # None => cb'[c].addr # None
        BY <1>0, <1>2 DEF ConnInv, GivenInv
      <4>. QED  BY <1>3, <4>2, <4>3 DEF GivenInv
    <3>4. NameInv(c)'
      <4>1. ASSUME ~renamed[c], NEW j \in Jobs
            PROVE  sent'[c][j] = None \/ sent'[c][j] = cb[c].addr
        BY <1>0, <3>1, <4>1 DEF ConnInv, NameInv
      <4>. QED  BY <1>0, <1>2, <1>3, <1>8, <4>1, NoOutputFields DEF ConnInv, NameInv, Watcher
    <3>5. ASSUME NEW j \in Jobs, j \notin X, agreed'[c][j] # None, j + JobDiffRing > current
          PROVE  Recorded(c, j) = agreed'[c][j]
      <4>1. CASE out[c].job # None /\ j = out[c].job
        <5>1. out[c].diff = diff[c] /\ out[c].diff # None
          BY <1>0, <4>1, NoOutputFields DEF ConnInv, TellInv
        <5>2. ~(j + JobDiffRing <= current)
          <6>1. j \in Nat /\ JobDiffRing \in Nat /\ current \in Nat
            BY <1>0, JobDiffRingType DEF Jobs, JobBudget
          <6>. QED  BY <3>5, <6>1
        <5>3. Recorded(c, j) = diff[c]
          BY <1>0, <4>1, <5>2 DEF ConnInv, AgreeInv
        <5>. QED  BY <3>1, <4>1, <5>1, <5>3
      <4>2. CASE ~(out[c].job # None /\ j = out[c].job)
        <5>1. agreed'[c][j] = agreed[c][j] /\ j \notin crossed[c]
          BY <1>1, <3>1, <3>5, <4>2
        <5>. QED  BY <1>0, <3>5, <5>1 DEF ConnInv, AgreeInv
      <4>. QED  BY <4>1, <4>2
    <3>6. ASSUME Here(c), current \notin X, told'[c] # None
          PROVE  Recorded(c, current) = told'[c]
      <4>1. out[c].diff = None /\ current \notin crossed[c]
        BY <1>1, <3>6
      <4>2. out[c] = NoOutput /\ told'[c] = told[c]
        BY <1>0, <3>1, <4>1 DEF ConnInv, TellInv
      <4>. QED  BY <1>0, <2>2, <3>6, <4>1, <4>2 DEF ConnInv, AgreeInv
    <3>7. AgreeInv(c)'
      BY <1>2, <1>3, <1>8, <3>5, <3>6, NoOutputFields DEF AgreeInv, Recorded, Watcher
    <3>. QED  BY <3>2, <3>3, <3>4, <3>7
  <2>. QED  BY <2>1, <2>2
<1>12. ConnInv(c)'
  BY <1>9, <1>10, <1>11 DEF ConnInv
<1>. QED  BY <1>2, <1>6, <1>7, <1>12, OneConn
\* The walk renders the current job for the connection it has come to.
LEMMA TalkRender ==
    ASSUME TalkInv, Base, StaleInv, RenderNotify
    PROVE  TalkInv'
<1>. USE DEF jobVars, walkVars, sessVars, shareVars, wireVars
<1>1. PICK c : c = Head(wlist)
  OBVIOUS
<1>2. c \in Conns
  BY <1>1, TailAlive DEF RenderNotify, Base, ListInv
<1>0. Typed /\ ConnInv(c)
  BY <1>2, TalkTyped DEF TalkInv
<1>3. PICK r : r = Render(c, current)
  OBVIOUS
<1>4. PICK s : s = RecordJobDifficulty(jobDiffs[c], current, diff[c])
  OBVIOUS
<1>5. PICK X : X = crossed[c] \cup (IF Rerendered(c) THEN {current} ELSE {})
  OBVIOUS
<1>6. /\ wpc = "walk" /\ wpc' = "write" /\ wlist' = wlist /\ current' = current /\ CanRender(c)
      /\ UNCHANGED <<pc, authorized, renamed, addr, diff, msg, res, out, told, agreed, sent, deaf>>
      /\ cb' = [cb EXCEPT ![c] = r] /\ jobDiffs' = [jobDiffs EXCEPT ![c] = s]
      /\ wout' = [diff |-> None, job |-> current, addr |-> cb'[c].addr]
      /\ crossed' = [crossed EXCEPT ![c] = X]
  BY <1>1, <1>3, <1>4, <1>5 DEF RenderNotify, Cross
<1>7. /\ cb'[c] = r /\ jobDiffs'[c] = s /\ crossed'[c] = X
      /\ \A e \in Conns : e # c => /\ cb'[e] = cb[e] /\ jobDiffs'[e] = jobDiffs[e]
                                   /\ crossed'[e] = crossed[e]
  BY <1>0, <1>2, <1>6 DEF Typed
<1>8. current # None /\ r.addr # None
  BY <1>0, <1>2, <1>3, <1>6, RenderedName DEF TalkInv, WalkInv
<1>9. wout'.job = current /\ wout'.addr = r.addr /\ wout'.diff = None
  BY <1>6, <1>7
<1>10. WalkInv'
  BY <1>6, <1>8, <1>9 DEF WalkInv
<1>11. FlagInv'
  <2>1. X \in SUBSET Nat
    BY <1>0, <1>2, <1>5 DEF Typed, Base, JobBudget
  <2>. QED  BY <1>6, <2>1 DEF TalkInv, FlagInv
<1>12. ASSUME NEW e \in Conns, e # c PROVE ConnInv(e)'
  <2>1. Same(e)
    BY <1>6, <1>7, <1>12 DEF Same, SameWire, SameFlags, SameShare, SameRender
  <2>2. SameWalk(e)
    BY <1>1, <1>6, <1>12 DEF SameWalk, Here
  <2>. QED  BY <1>6, <2>1, <2>2, SameConn DEF TalkInv
<1>13. TellInv(c)'
  BY <1>0, <1>6 DEF ConnInv, TellInv
<1>14. GivenInv(c)'
  BY <1>0, <1>6, <1>7, <1>8 DEF ConnInv, GivenInv, Job
<1>15. NameInv(c)'
  <2>1. ASSUME ~renamed[c]
        PROVE  /\ addr[c] = r.addr
               /\ \A j \in Jobs : sent[c][j] = None \/ sent[c][j] = r.addr
               /\ out[c].addr = None \/ out[c].addr = r.addr
               /\ msg[c] # <<>> => msg[c][2] = r.addr
    <3>1. addr[c] = r.addr /\ (cb[c].addr = None \/ cb[c].addr = r.addr)
      BY <1>2, <1>3, <1>6, <1>8, <2>1, RendersName
    <3>2. /\ out[c].addr = None \/ out[c].addr = cb[c].addr
          /\ \A j \in Jobs : sent[c][j] = None \/ sent[c][j] = cb[c].addr
          /\ msg[c] # <<>> => msg[c][2] = cb[c].addr /\ msg[c][2] # None
      BY <1>0, <2>1 DEF ConnInv, NameInv, GivenInv
    <3>. QED  BY <3>1, <3>2
  <2>. QED  BY <1>6, <1>7, <1>9, <2>1 DEF NameInv
<1>16. Ordered(jobDiffs[c], current)' /\ AgreeInv(c)'
  <2>1. /\ Ordered(s, current) /\ JobDifficulty(s, current) = diff[c]
        /\ \A j \in Jobs : j \notin X /\ agreed[c][j] # None /\ j + JobDiffRing > current
             => JobDifficulty(s, j) = agreed[c][j]
        /\ out[c].job # None => \/ JobDifficulty(s, out[c].job) = diff[c]
                                \/ out[c].job + JobDiffRing <= current
    BY <1>2, <1>4, <1>5, Records
  <2>2. out[c] = NoOutput /\ told[c] # None /\ ~deaf[c] => told[c] = diff[c]
    BY <1>0, NoOutputFields DEF ConnInv, TellInv
  <2>3. Ordered(jobDiffs[c], current)'
    BY <1>6, <1>7, <2>1 DEF Ordered
  <2>4. AgreeInv(c)'
    BY <1>6, <1>7, <2>1, <2>2 DEF AgreeInv, Recorded
  <2>. QED  BY <2>3, <2>4
<1>17. JudgeInv(c)'
  BY <1>0, <1>6 DEF ConnInv, JudgeInv
<1>18. HonestInv(c)'
  <2>1. crossed[c] \subseteq crossed'[c]
    BY <1>5, <1>7
  <2>. QED  BY <1>0, <1>6, <2>1 DEF ConnInv, HonestInv
<1>19. ConnInv(c)'
  BY <1>13, <1>14, <1>15, <1>16, <1>17, <1>18 DEF ConnInv
<1>20. \A e \in Conns : ConnInv(e)'
  BY <1>12, <1>19
<1>. QED  BY <1>10, <1>11, <1>20 DEF TalkInv

\* The walk's notify reaches the miner, or its socket is shut down.
LEMMA TalkWriteNotify ==
    ASSUME TalkInv, Base, StaleInv, WriteNotify
    PROVE  TalkInv'
<1>. USE DEF jobVars, walkVars, sessVars, shareVars, wireVars
<1>1. PICK c : c = Head(wlist)
  OBVIOUS
<1>2. c \in Conns /\ Here(c)
  BY <1>1, TailAlive DEF WriteNotify, Base, ListInv, Here
<1>0. Typed /\ ConnInv(c) /\ JobBudget
  BY <1>2, TalkTyped DEF TalkInv, Base
<1>3. PICK X : X = crossed[c] \cup (IF out[c] # NoOutput THEN {current} ELSE {})
  OBVIOUS
<1>4. /\ wpc = "write" /\ wpc' \in {"idle", "walk"} /\ current' = current
      /\ IF deaf[c] THEN UNCHANGED wireVars ELSE Deliver(c, wout)
      /\ crossed' = [crossed EXCEPT ![c] = X]
      /\ UNCHANGED <<pc, authorized, renamed, addr, diff, jobDiffs, cb, msg, res, out, deaf>>
  BY <1>1, <1>3 DEF WriteNotify, WalkOn, Cross
<1>5. /\ crossed'[c] = X /\ \A e \in Conns : e # c => crossed'[e] = crossed[e]
  BY <1>0, <1>2, <1>4 DEF Typed
<1>6. /\ wout.job = current /\ current # None /\ wout.addr # None /\ wout.diff = None
      /\ wout \in Output(current) /\ current \in Jobs
  <2>1. wout.job = current /\ current # None /\ wout.addr # None /\ wout.diff = None
        /\ wout \in Output(current)
    BY <1>4 DEF TalkInv, WalkInv, Base, WireInv
  <2>2. current \in 0..current
    BY <1>0 DEF JobBudget
  <2>. QED  BY <1>0, <2>1, <2>2, JobIsNamed
<1>7. WalkInv' /\ \A e \in Conns : ~Here(e)'
  BY <1>4, <1>6 DEF WalkInv, Here
<1>8. FlagInv'
  <2>1. X \in SUBSET Nat
    BY <1>0, <1>2, <1>3 DEF Typed, JobBudget
  <2>. QED  BY <1>4, <2>1 DEF TalkInv, FlagInv
<1>9. \A e \in Conns : e # c => SameWire(e)
  <2>1. CASE deaf[c]
    BY <1>4, <2>1 DEF SameWire
  <2>2. CASE ~deaf[c]
    BY <1>0, <1>2, <1>4, <1>6, <2>2, Delivered
  <2>. QED  BY <2>1, <2>2
<1>10. ASSUME NEW e \in Conns, e # c PROVE ConnInv(e)'
  <2>1. Same(e)
    BY <1>4, <1>5, <1>9, <1>10 DEF Same, SameFlags, SameShare, SameRender
  <2>2. SameWalk(e)
    BY <1>7 DEF SameWalk
  <2>. QED  BY <1>4, <2>1, <2>2, SameConn DEF TalkInv
<1>11. /\ told'[c] = told[c]
       /\ \A j \in Jobs :
            \/ agreed'[c][j] = agreed[c][j] /\ sent'[c][j] = sent[c][j]
            \/ /\ j = current /\ ~deaf[c]
               /\ agreed'[c][j] = told[c] /\ sent'[c][j] = wout.addr
  <2>1. CASE deaf[c]
    BY <1>4, <2>1
  <2>2. CASE ~deaf[c]
    <3>1. /\ told'[c] = IF wout.diff = None THEN told[c] ELSE wout.diff
          /\ \A j \in Jobs :
                /\ agreed'[c][j] = IF wout.job # None /\ j = wout.job
                                   THEN told'[c] ELSE agreed[c][j]
                /\ sent'[c][j] = IF wout.job # None /\ j = wout.job
                                 THEN wout.addr ELSE sent[c][j]
      BY <1>0, <1>2, <1>4, <1>6, <2>2, Delivered
    <3>. QED  BY <1>6, <2>2, <3>1
  <2>. QED  BY <2>1, <2>2
<1>12. TellInv(c)'
  BY <1>0, <1>4, <1>11 DEF ConnInv, TellInv
<1>13. ASSUME NEW j \in Jobs, agreed'[c][j] # None PROVE sent'[c][j] # None /\ told'[c] # None
  <2>1. CASE agreed'[c][j] = agreed[c][j] /\ sent'[c][j] = sent[c][j]
    BY <1>0, <1>11, <1>13, <2>1 DEF ConnInv, GivenInv
  <2>2. CASE agreed'[c][j] = told[c] /\ sent'[c][j] = wout.addr
    BY <1>6, <1>11, <1>13, <2>2
  <2>. QED  BY <1>11, <2>1, <2>2
<1>14. ASSUME msg[c] # <<>> PROVE Job(c) \in Jobs /\ agreed'[c][Job(c)] # None
  <2>1. msg[c] \in Share \X Address
    BY <1>2, <1>14 DEF Base, HandlerInv
  <2>2. msg[c][1] \in Share
    BY <2>1
  <2>3. Job(c) \in Jobs
    BY <2>2 DEF Share, Job
  <2>4. agreed[c][Job(c)] # None /\ told[c] # None
    BY <1>0, <1>14, <2>3 DEF ConnInv, GivenInv
  <2>. QED  BY <1>11, <2>3, <2>4
<1>15. GivenInv(c)'
  <2>1. /\ cb'[c].job # None => cb'[c].addr # None
        /\ msg'[c] # <<>> => msg'[c][2] # None /\ Job(c)' = Job(c)
    BY <1>0, <1>4 DEF ConnInv, GivenInv, Job
  <2>2. msg' = msg
    BY <1>4
  <2>. QED  BY <1>13, <1>14, <2>1, <2>2 DEF GivenInv
<1>16. NameInv(c)'
  <2>1. ASSUME ~renamed[c], NEW j \in Jobs PROVE sent'[c][j] = None \/ sent'[c][j] = cb[c].addr
    <3>1. wout.addr = cb[c].addr /\ (sent[c][j] = None \/ sent[c][j] = cb[c].addr)
      BY <1>0, <1>2, <2>1 DEF ConnInv, NameInv
    <3>. QED  BY <1>11, <3>1
  <2>2. ~Here(c)'
    BY <1>2, <1>7
  <2>. QED  BY <1>0, <1>4, <2>1, <2>2 DEF ConnInv, NameInv
<1>17. Ordered(jobDiffs[c], current)'
  BY <1>0, <1>4 DEF ConnInv, Ordered
<1>18. \A j \in Jobs : j \notin X => j \notin crossed[c] /\ (j = current => out[c] = NoOutput)
  BY <1>3
<1>19. ASSUME NEW j \in Jobs, j \notin X, agreed'[c][j] # None, j + JobDiffRing > current
       PROVE  Recorded(c, j) = agreed'[c][j]
  <2>1. CASE agreed'[c][j] = agreed[c][j]
    BY <1>0, <1>18, <1>19, <2>1 DEF ConnInv, AgreeInv
  <2>2. CASE j = current /\ ~deaf[c] /\ agreed'[c][j] = told[c]
    BY <1>0, <1>2, <1>18, <1>19, <2>2 DEF ConnInv, AgreeInv
  <2>. QED  BY <1>11, <2>1, <2>2
<1>20. AgreeInv(c)'
  <2>1. ~Here(c)'
    BY <1>2, <1>7
  <2>2. out'[c].job # None =>
           JobDifficulty(jobDiffs'[c], out'[c].job) = diff'[c] \/ out'[c].job + JobDiffRing <= current'
    BY <1>0, <1>4 DEF ConnInv, AgreeInv, Recorded
  <2>. QED  BY <1>4, <1>5, <1>19, <2>1, <2>2 DEF AgreeInv, Recorded
<1>21. JudgeInv(c)'
  BY <1>0, <1>4 DEF ConnInv, JudgeInv
<1>22. HonestInv(c)'
  <2>1. ASSUME msg[c] # <<>>, Job(c) \notin X, Job(c) + JobDiffRing > current
        PROVE  agreed'[c][Job(c)] = agreed[c][Job(c)] /\ Job(c) \notin crossed[c]
    <3>1. Job(c) \in Jobs /\ agreed'[c][Job(c)] # None
      BY <1>14, <2>1
    <3>2. Recorded(c, Job(c)) = agreed'[c][Job(c)]
      BY <1>19, <2>1, <3>1
    <3>3. agreed[c][Job(c)] # None
      BY <1>0, <2>1 DEF ConnInv, GivenInv
    <3>4. Recorded(c, Job(c)) = agreed[c][Job(c)]
      BY <1>0, <1>18, <2>1, <3>1, <3>3 DEF ConnInv, AgreeInv
    <3>. QED  BY <1>18, <2>1, <3>1, <3>2, <3>4
  <2>2. HonestInv(c)
    BY <1>0 DEF ConnInv
  <2>. QED  BY <1>4, <1>5, <2>1, <2>2 DEF HonestInv, Job
<1>23. ConnInv(c)'
  BY <1>12, <1>15, <1>16, <1>17, <1>20, <1>21, <1>22 DEF ConnInv
<1>24. \A e \in Conns : ConnInv(e)'
  BY <1>10, <1>23
<1>. QED  BY <1>7, <1>8, <1>24 DEF TalkInv
LEMMA TalkInit == Init => TalkInv
<1> SUFFICES ASSUME Init PROVE TalkInv
  OBVIOUS
<1>1. FlagInv /\ WalkInv
  BY DEF Init, FlagInv, WalkInv
<1>2. ASSUME NEW c \in Conns PROVE ConnInv(c)
  <2>1. /\ pc[c] = "recv" /\ out[c] = NoOutput /\ told[c] = None /\ ~authorized[c]
        /\ cb[c] = NoCoinbase /\ msg[c] = <<>> /\ jobDiffs[c] = <<>> /\ wpc = "idle"
        /\ \A j \in Jobs : agreed[c][j] = None /\ sent[c][j] = None
        /\ addr[c] = None
    BY DEF Init
  <2>2. TellInv(c)
    BY <2>1, NoOutputFields DEF TellInv
  <2>3. GivenInv(c) /\ NameInv(c)
    BY <2>1, NoOutputFields DEF GivenInv, NameInv, NoCoinbase, Here
  <2>4. Ordered(jobDiffs[c], current)
    BY <2>1, JobDiffRingType DEF Ordered
  <2>5. AgreeInv(c)
    BY <2>1, NoOutputFields DEF AgreeInv, Here
  <2>6. JudgeInv(c) /\ HonestInv(c)
    BY <2>1 DEF JudgeInv, HonestInv
  <2>. QED  BY <2>2, <2>3, <2>4, <2>5, <2>6 DEF ConnInv
<1>. QED  BY <1>1, <1>2 DEF TalkInv

connVars == <<pc, authorized, renamed, addr, diff, jobDiffs, cb, msg, res, out,
              told, agreed, sent, deaf, crossed>>

\* A step that touches no connection, and holds no notify it did not hold.
LEMMA TalkFrame ==
    ASSUME TalkInv, Base, UNCHANGED connVars,
           \/ UNCHANGED Watcher
           \/ /\ wpc' # "write" /\ current' = current /\ (wpc' # "idle" => wpc # "idle")
           \/ wpc' # "write" /\ current' = current + 1
    PROVE  TalkInv'
<1>. USE DEF connVars
<1>1. FlagInv'
  BY DEF TalkInv, FlagInv
<1>2. current \in Nat
  BY DEF Base, JobBudget
<1>3. WalkInv'
  BY <1>2 DEF TalkInv, WalkInv, Watcher
<1>4. \A e \in Conns : Same(e)
  BY DEF Same, SameWire, SameFlags, SameShare, SameRender
<1>5. \A e \in Conns : SameWalk(e)
  <2>1. CASE UNCHANGED Watcher
    BY <2>1, SameHere
  <2>2. CASE wpc' # "write"
    BY <2>2 DEF SameWalk, Here
  <2>. QED  BY <2>1, <2>2
<1>6. current' = current \/ current' = current + 1
  BY DEF Watcher
<1>. QED  BY <1>1, <1>3, <1>4, <1>5, <1>6, NoConn

LEMMA TalkStep ==
    ASSUME TalkInv, StaleInv, Base, [Next]_vars
    PROVE  TalkInv'
<1>. USE DEF jobVars, walkVars, lifeVars, sessVars, shareVars, wireVars, OtherThanLife,
             NotShares, connVars
<1>1. CASE SetJob
  BY <1>1, TalkFrame DEF SetJob
<1>2. CASE Age
  BY <1>2, TalkFrame DEF Age, Watcher
<1>3. CASE Walk
  <2>1. CASE RetireJob
    BY <2>1, TalkFrame DEF RetireJob
  <2>2. CASE LockConns \/ SkipConn
    BY <2>2, TalkFrame DEF LockConns, SkipConn, WalkOn
  <2>. QED  BY <1>3, <2>1, <2>2, TalkRender, TalkWriteNotify DEF Walk
<1>4. ASSUME NEW l \in Listeners, Accept(l) \/ Count(l) \/ Register(l) PROVE TalkInv'
  BY <1>4, TalkFrame DEF Accept, Count, Register, Watcher
<1>5. ASSUME NEW c \in Conns, Unregister(c) PROVE TalkInv'
  BY <1>5, TalkFrame DEF Unregister, Watcher
<1>6. ASSUME NEW c \in Conns, Miner(c) PROVE TalkInv'
  <2>1. CASE Subscribe(c)
    BY <2>1, TalkFrame DEF Subscribe, Watcher
  <2>. QED  BY <1>6, <2>1, TalkAuthorize, TalkAuthorizeFails, TalkSuggest, TalkStall, TalkSubmit
            DEF Miner
<1>7. ASSUME NEW c \in Conns, ConnThread(c) PROVE TalkInv'
  <2>1. CASE CloseFd(c) \/ FreeConn(c)
    BY <2>1, TalkFrame DEF CloseFd, FreeConn, Watcher
  <2>2. CASE FindCurrent(c) \/ FindRecent(c)
    BY <2>2, TalkFind
  <2>. QED  BY <1>7, <2>1, <2>2, TalkAssign, TalkNotify, TalkWriteOut, TalkDedupe, TalkJudge
            DEF ConnThread
<1>8. CASE UNCHANGED vars
  BY <1>8, TalkFrame DEF vars, Watcher
<1>. QED  BY <1>1, <1>2, <1>3, <1>4, <1>5, <1>6, <1>7, <1>8 DEF Next

LEMMA TalkInvariant == Spec => []TalkInv
BY BaseInvariant, StaleInvariant, TalkInit, TalkStep, PTL DEF Spec

\* Whatever retargets, suggestions, renewed authorizations, stalls and walks
\* come between a job and the share for it, a share that meets what its job
\* was agreed at is credited exactly that, a block is never refused as low,
\* and nothing is credited above what it meets.
THEOREM HonestShares == Spec => []HonestWorkCounts
<1>1. TalkInv => HonestWorkCounts
  BY DEF TalkInv, ConnInv, HonestInv, HonestWorkCounts
<1>. QED  BY <1>1, TalkInvariant, PTL
-----------------------------------------------------------------------------
(* Every miner that can be served works on the current job. *)

\* The list closes over one entry and keeps the others.
LEMMA SplicedKeeps ==
    ASSUME NEW S, NEW s \in Seq(S), NEW i \in DOMAIN s, NEW m \in DOMAIN s, m # i
    PROVE  \E k \in DOMAIN Without(s, i) : Without(s, i)[k] = s[m]
<1>0. PICK t : t = Without(s, i)
  OBVIOUS
<1>1. /\ t \in Seq(S) /\ Len(t) = Len(s) - 1
      /\ \A k \in DOMAIN t : \E x \in DOMAIN s : x = (IF k < i THEN k ELSE k + 1) /\ t[k] = s[x]
  BY <1>0, Spliced
<1>2. DOMAIN t = 1..Len(t) /\ DOMAIN s = 1..Len(s) /\ Len(s) \in Nat
  BY <1>1
<1>3. CASE m < i
  <2>1. m \in DOMAIN t
    BY <1>1, <1>2, <1>3
  <2>. QED  BY <1>0, <1>1, <1>3, <2>1
<1>4. CASE ~(m < i)
  <2>1. m - 1 \in DOMAIN t /\ ~(m - 1 < i) /\ (m - 1) + 1 = m
    BY <1>1, <1>2, <1>4
  <2>2. t[m - 1] = s[m]
    BY <1>1, <2>1
  <2>. QED  BY <1>0, <2>1, <2>2
<1>. QED  BY <1>3, <1>4

\* Whoever has a socket is on the list, and whoever has subscribed has one.
OnList ==
    /\ subscribed \in [Conns -> BOOLEAN]
    /\ \A c \in Conns : life[c] \in Alive => \E i \in DOMAIN conns : conns[i] = c
    /\ \A c \in Conns : c > accepted => life[c] = "none"
    /\ \A c \in Conns : life[c] = "none" => ~subscribed[c]

LEMMA OnListFrame ==
    ASSUME OnList, UNCHANGED <<conns, accepted, subscribed>>,
           \A c \in Conns : /\ life'[c] \in Alive => life[c] \in Alive
                            /\ life[c] = "none" <=> life'[c] = "none"
    PROVE  OnList'
BY DEF OnList, Alive

LEMMA OnListStep ==
    ASSUME OnList, ListInv, AcceptInv, [Next]_vars
    PROVE  OnList'
<1>. USE DEF jobVars, walkVars, lifeVars, sessVars, shareVars, wireVars, OtherThanLife, NotShares
<1>0. life \in [Conns -> {"none", "open", "shut", "unlinked", "closed", "freed"}]
  BY DEF ListInv
<1>1. CASE SetJob \/ Age
  BY <1>1, OnListFrame DEF SetJob, Age
<1>2. CASE Walk
  <2>1. CASE RetireJob \/ LockConns \/ SkipConn \/ RenderNotify
    BY <2>1, OnListFrame DEF RetireJob, LockConns, SkipConn, RenderNotify
  <2>2. CASE WriteNotify
    <3>1. PICK c : c = Head(wlist)
      OBVIOUS
    <3>2. c \in Conns /\ life[c] \in Alive
      BY <2>2, <3>1, TailAlive DEF WriteNotify, ListInv
    <3>3. /\ life' = life \/ life' = [life EXCEPT ![c] = "shut"]
          /\ UNCHANGED <<conns, accepted, subscribed>>
      BY <2>2, <3>1 DEF WriteNotify
    <3>. QED  BY <1>0, <3>2, <3>3, OnListFrame DEF Alive
  <2>. QED  BY <1>2, <2>1, <2>2 DEF Walk
<1>3. ASSUME NEW l \in Listeners, Accept(l) \/ Count(l) PROVE OnList'
  BY <1>3, OnListFrame DEF Accept, Count
<1>4. ASSUME NEW l \in Listeners, Register(l) PROVE OnList'
  <2>1. PICK n : n = accepted + 1
    OBVIOUS
  <2>2. /\ n \in Conns /\ accepted' = n /\ conns' = <<n>> \o conns
        /\ life' = [life EXCEPT ![n] = "open"] /\ subscribed' = subscribed
    BY <1>4, <2>1, ListenersKeepCount DEF Register
  <2>3. conns \in Seq(Conns) /\ <<n>> \in Seq(Conns) /\ Len(<<n>>) = 1
    BY <2>2 DEF ListInv
  <2>4. /\ Len(conns') = 1 + Len(conns) /\ conns' \in Seq(Conns)
        /\ \A k \in 1..1 + Len(conns) :
              conns'[k] = IF k <= 1 THEN <<n>>[k] ELSE conns[k - 1]
    BY <2>2, <2>3, Joined
  <2>5. Len(conns) \in Nat /\ DOMAIN conns = 1..Len(conns) /\ DOMAIN conns' = 1..1 + Len(conns)
    BY <2>3, <2>4
  <2>6. life'[n] = "open" /\ \A c \in Conns : c # n => life'[c] = life[c]
    BY <1>0, <2>2
  <2>7. ASSUME NEW c \in Conns, life'[c] \in Alive PROVE \E i \in DOMAIN conns' : conns'[i] = c
    <3>1. CASE c = n
      <4>1. 1 \in DOMAIN conns' /\ conns'[1] = n
        BY <2>4, <2>5
      <4>. QED  BY <3>1, <4>1
    <3>2. CASE c # n
      <4>1. PICK i \in DOMAIN conns : conns[i] = c
        BY <2>6, <2>7, <3>2 DEF OnList
      <4>2. i + 1 \in 1..1 + Len(conns) /\ ~(i + 1 <= 1) /\ (i + 1) - 1 = i
        BY <2>5
      <4>3. conns'[i + 1] = c
        BY <2>4, <4>1, <4>2
      <4>. QED  BY <2>5, <4>2, <4>3
    <3>. QED  BY <3>1, <3>2
  <2>8. accepted \in Nat /\ \A c \in Conns : c \in Nat
    BY ConnsNat DEF AcceptInv
  <2>9. \A c \in Conns : c > accepted' => life'[c] = "none"
    BY <2>1, <2>2, <2>6, <2>8 DEF OnList
  <2>10. \A c \in Conns : life'[c] = "none" => ~subscribed'[c]
    BY <2>2, <2>6 DEF OnList
  <2>. QED  BY <2>2, <2>7, <2>9, <2>10 DEF OnList
<1>5. ASSUME NEW c \in Conns, Unregister(c) PROVE OnList'
  <2>1. PICK i \in DOMAIN conns : conns[i] = c /\ conns' = Without(conns, i)
    BY <1>5 DEF Unregister, Unlink
  <2>2. /\ life' = [life EXCEPT ![c] = "unlinked"] /\ UNCHANGED <<accepted, subscribed>>
        /\ life[c] \in {"open", "shut"}
    BY <1>5 DEF Unregister
  <2>3. life'[c] = "unlinked" /\ \A e \in Conns : e # c => life'[e] = life[e]
    BY <1>0, <2>2
  <2>4. ASSUME NEW e \in Conns, life'[e] \in Alive PROVE \E k \in DOMAIN conns' : conns'[k] = e
    <3>1. e # c
      BY <2>3, <2>4 DEF Alive
    <3>2. PICK m \in DOMAIN conns : conns[m] = e
      BY <2>3, <2>4, <3>1 DEF OnList
    <3>3. conns \in Seq(Conns) /\ m # i
      BY <2>1, <3>1, <3>2 DEF ListInv
    <3>. QED  BY <2>1, <3>2, <3>3, SplicedKeeps
  <2>. QED  BY <2>2, <2>3, <2>4 DEF OnList
<1>6. ASSUME NEW c \in Conns, Miner(c) PROVE OnList'
  <2>1. CASE Subscribe(c)
    <3>1. /\ life[c] = "open" /\ subscribed' = [subscribed EXCEPT ![c] = TRUE]
          /\ UNCHANGED <<life, conns, accepted>>
      BY <2>1 DEF Subscribe, Receives
    <3>2. \A e \in Conns : e # c => subscribed'[e] = subscribed[e]
      BY <3>1 DEF OnList
    <3>. QED  BY <3>1, <3>2 DEF OnList
  <2>2. CASE AuthorizeFails(c) \/ SuggestDifficulty(c) \/ Stall(c)
    BY <2>2, OnListFrame DEF AuthorizeFails, SuggestDifficulty, Stall
  <2>3. ASSUME NEW a, Authorize(c, a) PROVE OnList'
    BY <2>3, OnListFrame DEF Authorize
  <2>4. ASSUME NEW s, Submit(c, s) PROVE OnList'
    BY <2>4, OnListFrame DEF Submit
  <2>. QED  BY <1>6, <2>1, <2>2, <2>3, <2>4 DEF Miner
<1>7. ASSUME NEW c \in Conns, ConnThread(c) PROVE OnList'
  <2>1. CASE CloseFd(c)
    <3>1. life' = [life EXCEPT ![c] = "closed"] /\ life[c] = "unlinked"
          /\ UNCHANGED <<conns, accepted, subscribed>>
      BY <2>1 DEF CloseFd
    <3>. QED  BY <1>0, <3>1, OnListFrame DEF Alive
  <2>2. CASE FreeConn(c)
    <3>1. life' = [life EXCEPT ![c] = "freed"] /\ life[c] = "closed"
          /\ UNCHANGED <<conns, accepted, subscribed>>
      BY <2>2 DEF FreeConn
    <3>. QED  BY <1>0, <3>1, OnListFrame DEF Alive
  <2>3. CASE ~CloseFd(c) /\ ~FreeConn(c)
    <3>1. UNCHANGED <<life, conns, accepted, subscribed>>
      BY <1>7, <2>3 DEF ConnThread, AssignDifficulty, NotifyAuthorized, WriteOut, FindCurrent,
                        FindRecent, Dedupe, Judge
    <3>. QED  BY <3>1, OnListFrame
  <2>. QED  BY <2>1, <2>2, <2>3
<1>8. CASE UNCHANGED vars
  BY <1>8, OnListFrame DEF vars
<1>. QED  BY <1>1, <1>2, <1>3, <1>4, <1>5, <1>6, <1>7, <1>8 DEF Next
\* The walk will come to the connection.
Visits(c) == wpc \in {"retire", "lock"} \/ \E i \in DOMAIN wlist : wlist[i] = c

Served(c) ==
    /\ life[c] = "open" /\ subscribed[c] /\ authorized[c] /\ addr[c] # None
    /\ ~deaf[c] /\ current \notin crossed[c] /\ ~late[c]

\* A miner that is served has the current job, or it is on its way; an older
\* job on its way is one that the walk will follow.
ServedInv(c) ==
    /\ Served(c) => \/ last[c] = current \/ Visits(c)
                    \/ pc[c] \in {"assign", "notify"}
                    \/ pc[c] = "write" /\ out[c].job = current
    /\ life[c] = "open" /\ subscribed[c] /\ current \notin crossed[c]
          /\ out[c].job # None /\ out[c].job # current => Visits(c)
    /\ out[c].job # None => addr[c] # None
    /\ current = None => last[c] = None

CurrentInv ==
    /\ late \in [Conns -> BOOLEAN] /\ DOMAIN last = Conns
    /\ \A c \in Conns : ServedInv(c)

\* A step that brings nobody into service and takes nobody off a walk.
LEMMA ServedKeep ==
    ASSUME NEW c \in Conns, ServedInv(c), current' = current,
           crossed[c] \subseteq crossed'[c], Visits(c) => Visits(c)',
           life'[c] = "open" => life[c] = "open", subscribed'[c] => subscribed[c],
           authorized'[c] => authorized[c], addr'[c] # None => addr[c] # None,
           deaf[c] => deaf'[c], late[c] => late'[c],
           last'[c] = last[c], out'[c].job = out[c].job,
           out[c].job # None => addr'[c] # None,
           pc'[c] = pc[c] \/ pc[c] \notin {"assign", "notify", "write"}
    PROVE  ServedInv(c)'
<1>1. Served(c)' => Served(c)
  BY DEF Served
<1>. QED  BY <1>1 DEF ServedInv

LEMMA SameVisits ==
    ASSUME NEW c, UNCHANGED <<wpc, wlist>>, Visits(c)
    PROVE  Visits(c)'
BY DEF Visits

sessionVars == <<current, subscribed, authorized, addr, deaf, crossed, late, last, out, pc>>

\* A step that touches nothing of a session.
LEMMA CurrentFrame ==
    ASSUME CurrentInv, UNCHANGED sessionVars,
           \A c \in Conns : /\ Visits(c) => Visits(c)'
                            /\ life'[c] = "open" => life[c] = "open" \/ ~subscribed[c]
    PROVE  CurrentInv'
<1>. USE DEF sessionVars
<1>1. ASSUME NEW c \in Conns PROVE ServedInv(c)'
  <2>1. ServedInv(c) /\ (out[c].job # None => addr[c] # None)
    BY DEF CurrentInv, ServedInv
  <2>2. CASE subscribed[c]
    BY <2>1, <2>2, ServedKeep
  <2>3. CASE ~subscribed[c]
    BY <2>1, <2>3 DEF ServedInv, Served
  <2>. QED  BY <2>2, <2>3
<1>. QED  BY <1>1 DEF CurrentInv

\* A step of one connection's thread.
LEMMA CurrentOne ==
    ASSUME CurrentInv, UNCHANGED <<current, wpc, wlist>>, NEW c \in Conns, ServedInv(c)',
           late' \in [Conns -> BOOLEAN], DOMAIN last' = Conns,
           \A e \in Conns : e # c =>
              /\ life'[e] = life[e] /\ subscribed'[e] = subscribed[e]
              /\ authorized'[e] = authorized[e] /\ addr'[e] = addr[e] /\ deaf'[e] = deaf[e]
              /\ crossed'[e] = crossed[e] /\ late'[e] = late[e] /\ last'[e] = last[e]
              /\ out'[e] = out[e] /\ pc'[e] = pc[e]
    PROVE  CurrentInv'
<1>1. ASSUME NEW e \in Conns PROVE ServedInv(e)'
  <2>1. CASE e = c
    BY <2>1
  <2>2. CASE e # c
    <3>1. ServedInv(e) /\ (out[e].job # None => addr[e] # None)
      BY DEF CurrentInv, ServedInv
    <3>. QED  BY <2>2, <3>1, SameVisits, ServedKeep
  <2>. QED  BY <2>1, <2>2
<1>. QED  BY <1>1 DEF CurrentInv

\* The watcher's steps.
LEMMA CurrentWalk ==
    ASSUME CurrentInv, OnList, TalkInv, StaleInv, Base, Walk
    PROVE  CurrentInv'
<1>. USE DEF jobVars, walkVars, lifeVars, sessVars, shareVars, wireVars, sessionVars
<1>0. Typed /\ ListInv
  BY TalkTyped DEF Base
<1>1. CASE RetireJob
  BY <1>1, CurrentFrame DEF RetireJob, Visits
<1>2. CASE LockConns
  <2>1. /\ wpc = "lock" /\ wlist' = conns /\ current' = current
        /\ UNCHANGED <<life, sessionVars>>
    BY <1>2 DEF LockConns, WalkOn
  <2>2. ASSUME NEW c \in Conns PROVE ServedInv(c)'
    <3>1. life[c] = "open" => Visits(c)'
      BY <2>1 DEF OnList, Alive, Visits
    <3>2. ServedInv(c)
      BY DEF CurrentInv
    <3>. QED  BY <2>1, <3>1, <3>2 DEF ServedInv, Served
  <2>. QED  BY <2>1, <2>2 DEF CurrentInv
<1>3. ASSUME NEW c \in Conns, SkipConn \/ WriteNotify, c # Head(wlist), Visits(c)
      PROVE  Visits(c)'
  <2>1. wpc \in {"walk", "write"} /\ wlist' = Tail(wlist) /\ wlist \in Seq(Conns) /\ wlist # <<>>
    BY <1>0, <1>3 DEF SkipConn, WriteNotify, WalkOn, ListInv
  <2>2. PICK i \in DOMAIN wlist : wlist[i] = c
    BY <1>3, <2>1 DEF Visits
  <2>3. /\ DOMAIN wlist = 1..Len(wlist) /\ Len(wlist) \in Nat /\ Head(wlist) = wlist[1]
        /\ DOMAIN Tail(wlist) = 1..Len(wlist) - 1
        /\ \A k \in 1..Len(wlist) - 1 : Tail(wlist)[k] = wlist[k + 1]
    BY <2>1
  <2>4. i # 1
    BY <1>3, <2>2, <2>3
  <2>5. i - 1 \in 1..Len(wlist) - 1 /\ (i - 1) + 1 = i
    BY <2>3, <2>4
  <2>6. Tail(wlist)[i - 1] = c
    BY <2>2, <2>3, <2>5
  <2>. QED  BY <2>1, <2>3, <2>5, <2>6 DEF Visits
<1>4. CASE SkipConn
  <2>1. PICK h : h = Head(wlist)
    OBVIOUS
  <2>2. /\ ~(Eligible(h) /\ CanRender(h)) /\ UNCHANGED <<life, sessionVars>> /\ h \in Conns
    BY <1>0, <1>4, <2>1, TailAlive DEF SkipConn, ListInv
  <2>3. ASSUME NEW c \in Conns PROVE ServedInv(c)'
    <3>0. ServedInv(c) /\ (out[c].job # None => addr[c] # None)
      BY DEF CurrentInv, ServedInv
    <3>1. CASE c # h
      BY <1>3, <1>4, <2>1, <2>2, <3>0, <3>1, ServedKeep
    <3>2. CASE c = h
      <4>1. ~Served(c)'
        BY <2>2, <3>2 DEF Served, Eligible, CanRender
      <4>2. out[c].job # None => authorized[c]
        BY NoOutputFields DEF TalkInv, ConnInv, TellInv
      <4>3. out[c].job # None => ~subscribed[c]
        BY <2>2, <3>0, <3>2, <4>2 DEF Eligible, CanRender
      <4>. QED  BY <2>2, <3>0, <4>1, <4>3 DEF ServedInv
    <3>. QED  BY <3>1, <3>2
  <2>. QED  BY <2>2, <2>3 DEF CurrentInv
<1>5. CASE RenderNotify
  <2>1. PICK h : h = Head(wlist)
    OBVIOUS
  <2>2. PICK X : X = crossed[h] \cup (IF Rerendered(h) THEN {current} ELSE {})
    OBVIOUS
  <2>3. /\ crossed' = [crossed EXCEPT ![h] = X] /\ wpc = "walk" /\ wlist' = wlist
        /\ UNCHANGED <<life, current, subscribed, authorized, addr, deaf, late, last, out, pc>>
    BY <1>5, <2>1, <2>2 DEF RenderNotify, Cross
  <2>4. ASSUME NEW c \in Conns PROVE ServedInv(c)'
    <3>0. ServedInv(c) /\ (out[c].job # None => addr[c] # None)
      BY DEF CurrentInv, ServedInv
    <3>1. crossed[c] \subseteq crossed'[c]
      BY <1>0, <2>2, <2>3 DEF Typed
    <3>2. Visits(c) => Visits(c)'
      BY <2>3 DEF Visits
    <3>. QED  BY <2>3, <3>0, <3>1, <3>2, ServedKeep
  <2>. QED  BY <2>3, <2>4 DEF CurrentInv
<1>6. CASE WriteNotify
  <2>1. PICK h : h = Head(wlist)
    OBVIOUS
  <2>2. PICK X : X = crossed[h] \cup (IF out[h] # NoOutput THEN {current} ELSE {})
    OBVIOUS
  <2>3. /\ crossed' = [crossed EXCEPT ![h] = X] /\ h \in Conns
        /\ UNCHANGED <<current, subscribed, authorized, addr, deaf, late, out, pc>>
        /\ \/ deaf[h] /\ life' = [life EXCEPT ![h] = "shut"] /\ last' = last
           \/ ~deaf[h] /\ life' = life /\ last' = [last EXCEPT ![h] = current]
    <3>1. wout.job = current /\ current # None
      BY <1>6 DEF WriteNotify, TalkInv, WalkInv
    <3>2. h \in Conns
      BY <1>0, <1>6, <2>1, TailAlive DEF WriteNotify, ListInv
    <3>. QED  BY <1>6, <2>1, <2>2, <3>1, <3>2 DEF WriteNotify, Cross, Deliver
  <2>4. ASSUME NEW c \in Conns, c # h PROVE ServedInv(c)'
    <3>0. ServedInv(c) /\ (out[c].job # None => addr[c] # None)
      BY DEF CurrentInv, ServedInv
    <3>1. crossed'[c] = crossed[c] /\ life'[c] = life[c] /\ last'[c] = last[c]
      BY <1>0, <2>3, <2>4 DEF Typed, CurrentInv, ListInv
    <3>2. Visits(c) => Visits(c)'
      BY <1>3, <1>6, <2>1, <2>4
    <3>. QED  BY <2>3, <3>0, <3>1, <3>2, ServedKeep
  <2>5. ServedInv(h)'
    <3>0. ServedInv(h) /\ (out[h].job # None => addr[h] # None)
      BY <2>3 DEF CurrentInv, ServedInv
    <3>1. crossed'[h] = X
      BY <1>0, <2>3 DEF Typed
    <3>2. out[h].job # None => current \in X
      BY <2>2, NoOutputFields
    <3>3. CASE deaf[h]
      <4>1. last' = last /\ ~Served(h)'
        BY <2>3, <3>3 DEF Served
      <4>. QED  BY <2>3, <3>0, <3>1, <3>2, <4>1 DEF ServedInv
    <3>4. CASE ~deaf[h]
      <4>1. last'[h] = current
        BY <2>3, <3>4 DEF CurrentInv
      <4>. QED  BY <2>3, <3>0, <3>1, <3>2, <4>1 DEF ServedInv
    <3>. QED  BY <3>3, <3>4
  <2>6. late' \in [Conns -> BOOLEAN] /\ DOMAIN last' = Conns
    BY <2>3 DEF CurrentInv
  <2>. QED  BY <2>4, <2>5, <2>6 DEF CurrentInv
<1>. QED  BY <1>1, <1>2, <1>4, <1>5, <1>6 DEF Walk
\* The handlers' steps.
LEMMA CurrentThread ==
    ASSUME CurrentInv, TalkInv, StaleInv, Base, NEW c \in Conns, ConnThread(c)
    PROVE  CurrentInv'
<1>. USE DEF jobVars, walkVars, lifeVars, sessVars, shareVars, wireVars, OtherThanLife,
             NotShares, sessionVars
<1>0. /\ Typed /\ ListInv /\ ServedInv(c) /\ ConnInv(c)
      /\ late \in [Conns -> BOOLEAN] /\ DOMAIN last = Conns
  BY TalkTyped DEF Base, CurrentInv, TalkInv
<1>1. CASE CloseFd(c) \/ FreeConn(c)
  <2>1. /\ life[c] # "open" /\ UNCHANGED <<sessionVars, wpc, wlist>>
        /\ \A e \in Conns : life'[e] = "open" => life[e] = "open"
    BY <1>0, <1>1 DEF CloseFd, FreeConn, ListInv
  <2>. QED  BY <2>1, CurrentFrame, SameVisits
<1>2. CASE AssignDifficulty(c)
  <2>1. PICK d \in Diffs : out' = [out EXCEPT ![c].diff = d]
    BY <1>2 DEF AssignDifficulty
  <2>2. /\ pc[c] = "assign" /\ pc' = [pc EXCEPT ![c] = "notify"]
        /\ UNCHANGED <<wpc, wlist, current, life, subscribed, authorized, addr, deaf, crossed,
                       late, last>>
    BY <1>2 DEF AssignDifficulty, Goto
  <2>3. /\ pc'[c] = "notify" /\ out[c].job = None
        /\ \A e \in Conns : e # c => out'[e] = out[e] /\ pc'[e] = pc[e]
    BY <1>0, <2>1, <2>2, NoOutputFields DEF Typed, ConnInv, TellInv
  <2>4. out'[c].job = None
    <3>1. out[c] \in Output(current) /\ out'[c] = [out[c] EXCEPT !.diff = d]
      BY <1>0, <2>1 DEF Typed
    <3>. QED  BY <2>3, <3>1 DEF Output
  <2>5. ServedInv(c)'
    BY <1>0, <2>2, <2>3, <2>4 DEF ServedInv
  <2>. QED  BY <1>0, <2>2, <2>3, <2>5, CurrentOne
<1>3. CASE NotifyAuthorized(c)
  <2>1. /\ pc[c] = "notify" /\ pc' = [pc EXCEPT ![c] = "write"]
        /\ UNCHANGED <<wpc, wlist, current, life, subscribed, authorized, addr, deaf, late, last>>
    BY <1>3 DEF NotifyAuthorized, Goto
  <2>2. /\ pc'[c] = "write" /\ \A e \in Conns : e # c => pc'[e] = pc[e]
        /\ addr[c] # None /\ out[c].job = None
    BY <1>0, <2>1 DEF Typed, ConnInv, TellInv
  <2>3. CASE current = None
    <3>1. out' = out /\ crossed' = crossed
      BY <1>3, <2>3 DEF NotifyAuthorized
    <3>2. ServedInv(c)'
      BY <1>0, <2>1, <2>2, <2>3, <3>1 DEF ServedInv
    <3>. QED  BY <1>0, <2>1, <2>2, <3>1, <3>2, CurrentOne
  <2>4. CASE current # None
    <3>1. PICK a : out' = [out EXCEPT ![c].job = current, ![c].addr = a]
      BY <1>3, <2>4 DEF NotifyAuthorized
    <3>2. \A e \in Conns : e # c => out'[e] = out[e] /\ crossed'[e] = crossed[e]
      BY <1>0, <1>3, <2>4, <3>1 DEF NotifyAuthorized, Cross, Typed
    <3>3. out'[c].job = current
      <4>1. /\ out[c] \in Output(current)
            /\ out'[c] = [[out[c] EXCEPT !.job = current] EXCEPT !.addr = a]
        BY <1>0, <3>1 DEF Typed
      <4>. QED  BY <4>1 DEF Output
    <3>4. ServedInv(c)'
      BY <1>0, <2>1, <2>2, <2>4, <3>3 DEF ServedInv
    <3>. QED  BY <1>0, <2>1, <2>2, <3>2, <3>4, CurrentOne
  <2>. QED  BY <2>3, <2>4
<1>4. CASE WriteOut(c)
  <2>1. PICK X : X = crossed[c] \cup
                       (IF out[c].diff # None /\ wpc = "write" /\ Head(wlist) = c
                        THEN {current} ELSE {})
    OBVIOUS
  <2>2. /\ pc[c] = "write" /\ pc' = [pc EXCEPT ![c] = "recv"]
        /\ out' = [out EXCEPT ![c] = NoOutput] /\ crossed' = [crossed EXCEPT ![c] = X]
        /\ UNCHANGED <<wpc, wlist, current, life, subscribed, authorized, addr, deaf, late>>
        /\ \/ deaf[c] /\ last' = last
           \/ ~deaf[c] /\ out[c].job = None /\ last' = last
           \/ ~deaf[c] /\ out[c].job # None /\ last' = [last EXCEPT ![c] = out[c].job]
    BY <1>4, <2>1 DEF WriteOut, Goto, Cross, Deliver
  <2>3. /\ pc'[c] = "recv" /\ out'[c].job = None /\ crossed[c] \subseteq crossed'[c]
        /\ \A e \in Conns : e # c => out'[e] = out[e] /\ pc'[e] = pc[e] /\ crossed'[e] = crossed[e]
    BY <1>0, <2>1, <2>2, NoOutputFields DEF Typed
  <2>4. DOMAIN last' = Conns /\ \A e \in Conns : e # c => last'[e] = last[e]
    BY <1>0, <2>2
  <2>5. out[c].job # None /\ ~deaf[c] => last'[c] = out[c].job
    BY <1>0, <2>2
  <2>6. current = None => out[c].job = None
    BY <1>0 DEF Typed, Output
  <2>7. Visits(c) => Visits(c)'
    BY <2>2, SameVisits
  <2>8. Served(c)' => last'[c] = current \/ Visits(c)'
    <3>1. SUFFICES ASSUME Served(c)' PROVE last'[c] = current \/ Visits(c)'
      OBVIOUS
    <3>2. Served(c) /\ ~deaf[c] /\ current \notin crossed[c] /\ life[c] = "open" /\ subscribed[c]
      BY <2>2, <2>3, <3>1 DEF Served
    <3>3. CASE out[c].job = None
      <4>1. last' = last
        BY <2>2, <3>3
      <4>. QED  BY <1>0, <2>2, <2>7, <3>2, <3>3, <4>1 DEF ServedInv
    <3>4. CASE out[c].job # None
      BY <1>0, <2>5, <2>7, <3>2, <3>4 DEF ServedInv
    <3>. QED  BY <3>3, <3>4
  <2>9. current' = None => last'[c] = None
    <3>1. SUFFICES ASSUME current = None PROVE last'[c] = None
      BY <2>2
    <3>2. last' = last
      BY <2>2, <2>6, <3>1
    <3>. QED  BY <1>0, <3>1, <3>2 DEF ServedInv
  <2>10. ServedInv(c)'
    BY <2>2, <2>3, <2>8, <2>9 DEF ServedInv
  <2>. QED  BY <1>0, <2>2, <2>3, <2>4, <2>10, CurrentOne
<1>5. CASE FindCurrent(c) \/ FindRecent(c) \/ Dedupe(c)
  <2>1. /\ pc[c] \notin {"assign", "notify", "write"}
        /\ \E x : pc' = [pc EXCEPT ![c] = x]
        /\ UNCHANGED <<wpc, wlist, current, life, subscribed, authorized, addr, deaf, crossed,
                       late, last, out>>
    BY <1>5 DEF FindCurrent, FindRecent, Dedupe, Refuse, Goto
  <2>2. \A e \in Conns : e # c => pc'[e] = pc[e]
    BY <1>0, <2>1 DEF Typed
  <2>3. ServedInv(c)'
    BY <1>0, <2>1, SameVisits, ServedKeep DEF ServedInv
  <2>. QED  BY <1>0, <2>1, <2>2, <2>3, CurrentOne
<1>6. CASE Judge(c)
  <2>1. /\ pc[c] = "judge" /\ pc' = [pc EXCEPT ![c] = "write"]
        /\ UNCHANGED <<wpc, wlist, current, life, subscribed, authorized, addr, deaf, crossed,
                       late, last>>
        /\ out' = out \/ \E d \in Diffs : out' = [out EXCEPT ![c].diff = d]
    BY <1>6 DEF Judge, Goto
  <2>2. /\ out[c].job = None
        /\ \A e \in Conns : e # c => out'[e] = out[e] /\ pc'[e] = pc[e]
    BY <1>0, <2>1, NoOutputFields DEF Typed, ConnInv, TellInv
  <2>3. out'[c].job = out[c].job
    <3>1. ASSUME NEW d \in Diffs, out' = [out EXCEPT ![c].diff = d] PROVE out'[c].job = out[c].job
      <4>1. out[c] \in Output(current) /\ out'[c] = [out[c] EXCEPT !.diff = d]
        BY <1>0, <3>1 DEF Typed
      <4>. QED  BY <4>1 DEF Output
    <3>. QED  BY <2>1, <3>1
  <2>4. ServedInv(c)'
    BY <1>0, <2>1, <2>2, <2>3, SameVisits, ServedKeep
  <2>. QED  BY <1>0, <2>1, <2>2, <2>4, CurrentOne
<1>. QED  BY <1>1, <1>2, <1>3, <1>4, <1>5, <1>6 DEF ConnThread

\* What miners send.
LEMMA CurrentMiner ==
    ASSUME CurrentInv, OnList, TalkInv, StaleInv, Base, NEW c \in Conns, Miner(c)
    PROVE  CurrentInv'
<1>. USE DEF jobVars, walkVars, lifeVars, sessVars, shareVars, wireVars, sessionVars
<1>0. /\ Typed /\ ListInv /\ ServedInv(c) /\ ConnInv(c)
      /\ late \in [Conns -> BOOLEAN] /\ DOMAIN last = Conns
  BY TalkTyped DEF Base, CurrentInv, TalkInv
<1>1. pc[c] = "recv" => out[c].job = None
  BY <1>0, NoOutputFields DEF ConnInv, TellInv
<1>2. CASE Subscribe(c)
  <2>1. /\ pc[c] = "recv" /\ subscribed' = [subscribed EXCEPT ![c] = TRUE]
        /\ late' = [late EXCEPT ![c] = authorized[c]]
        /\ UNCHANGED <<wpc, wlist, current, life, authorized, addr, deaf, crossed, last, out, pc>>
    BY <1>2 DEF Subscribe, Receives
  <2>2. /\ late'[c] = authorized[c] /\ late' \in [Conns -> BOOLEAN]
        /\ \A e \in Conns : e # c => late'[e] = late[e] /\ subscribed'[e] = subscribed[e]
    BY <1>0, <2>1 DEF Typed, OnList
  <2>3. ~Served(c)'
    BY <2>1, <2>2 DEF Served
  <2>4. ServedInv(c)'
    BY <1>0, <1>1, <2>1, <2>3 DEF ServedInv
  <2>. QED  BY <1>0, <2>1, <2>2, <2>4, CurrentOne
<1>3. ASSUME NEW a \in Addresses, Authorize(c, a) PROVE CurrentInv'
  <2>1. /\ pc[c] = "recv" /\ pc' = [pc EXCEPT ![c] = "assign"]
        /\ addr' = [addr EXCEPT ![c] = a] /\ authorized' = [authorized EXCEPT ![c] = TRUE]
        /\ UNCHANGED <<wpc, wlist, current, life, subscribed, deaf, crossed, late, last, out>>
    BY <1>3 DEF Authorize, Receives, Goto
  <2>2. /\ pc'[c] = "assign" /\ addr'[c] = a /\ a # None
        /\ \A e \in Conns : e # c => /\ pc'[e] = pc[e] /\ addr'[e] = addr[e]
                                     /\ authorized'[e] = authorized[e]
    BY <1>0, <2>1, AddressesPositive DEF Typed
  <2>3. ServedInv(c)'
    BY <1>0, <1>1, <2>1, <2>2 DEF ServedInv
  <2>. QED  BY <1>0, <2>1, <2>2, <2>3, CurrentOne
<1>4. CASE AuthorizeFails(c)
  <2>1. /\ pc[c] = "recv" /\ addr' = [addr EXCEPT ![c] = None]
        /\ UNCHANGED <<wpc, wlist, current, life, subscribed, authorized, deaf, crossed, late,
                       last, out, pc>>
    BY <1>4 DEF AuthorizeFails, Receives
  <2>2. addr'[c] = None /\ \A e \in Conns : e # c => addr'[e] = addr[e]
    BY <1>0, <2>1 DEF Typed
  <2>3. ServedInv(c)'
    BY <1>0, <1>1, <2>1, <2>2, SameVisits, ServedKeep
  <2>. QED  BY <1>0, <2>1, <2>2, <2>3, CurrentOne
<1>5. CASE SuggestDifficulty(c)
  <2>1. /\ pc[c] = "recv" /\ pc' = [pc EXCEPT ![c] = "write"]
        /\ UNCHANGED <<wpc, wlist, current, life, subscribed, authorized, addr, deaf, crossed,
                       late, last>>
        /\ out' = out \/ \E d \in Diffs : out' = [out EXCEPT ![c].diff = d]
    BY <1>5 DEF SuggestDifficulty, Receives, Goto
  <2>2. \A e \in Conns : e # c => out'[e] = out[e] /\ pc'[e] = pc[e]
    BY <1>0, <2>1 DEF Typed
  <2>3. out'[c].job = out[c].job
    <3>1. ASSUME NEW d \in Diffs, out' = [out EXCEPT ![c].diff = d] PROVE out'[c].job = out[c].job
      <4>1. out[c] \in Output(current) /\ out'[c] = [out[c] EXCEPT !.diff = d]
        BY <1>0, <3>1 DEF Typed
      <4>. QED  BY <4>1 DEF Output
    <3>. QED  BY <2>1, <3>1
  <2>4. ServedInv(c)'
    BY <1>0, <1>1, <2>1, <2>3, SameVisits, ServedKeep
  <2>. QED  BY <1>0, <2>1, <2>2, <2>4, CurrentOne
<1>6. CASE Stall(c)
  <2>1. /\ deaf' = [deaf EXCEPT ![c] = TRUE]
        /\ UNCHANGED <<wpc, wlist, current, life, subscribed, authorized, addr, crossed, late,
                       last, out, pc>>
    BY <1>6 DEF Stall
  <2>2. deaf'[c] /\ \A e \in Conns : e # c => deaf'[e] = deaf[e]
    BY <1>0, <2>1 DEF Typed
  <2>3. ServedInv(c)'
    <3>1. out[c].job # None => addr[c] # None
      BY <1>0 DEF ServedInv
    <3>. QED  BY <1>0, <2>1, <2>2, <3>1, SameVisits, ServedKeep
  <2>. QED  BY <1>0, <2>1, <2>2, <2>3, CurrentOne
<1>7. ASSUME NEW s \in Share, Submit(c, s) PROVE CurrentInv'
  <2>1. /\ pc[c] = "recv" /\ pc' = [pc EXCEPT ![c] = "find"]
        /\ UNCHANGED <<wpc, wlist, current, life, subscribed, authorized, addr, deaf, crossed,
                       late, last, out>>
    BY <1>7 DEF Submit, Receives, Goto
  <2>2. \A e \in Conns : e # c => pc'[e] = pc[e]
    BY <1>0, <2>1 DEF Typed
  <2>3. ServedInv(c)'
    BY <1>0, <1>1, <2>1, SameVisits, ServedKeep
  <2>. QED  BY <1>0, <2>1, <2>2, <2>3, CurrentOne
<1>. QED  BY <1>2, <1>3, <1>4, <1>5, <1>6, <1>7 DEF Miner

LEMMA CurrentStep ==
    ASSUME CurrentInv, OnList, TalkInv, StaleInv, Base, [Next]_vars
    PROVE  CurrentInv'
<1>. USE DEF jobVars, walkVars, lifeVars, sessVars, shareVars, wireVars, OtherThanLife, sessionVars
<1>1. CASE SetJob
  <2>1. /\ wpc' \in {"retire", "lock"} /\ current' = current + 1
        /\ UNCHANGED <<addr, late, last, out>>
    BY <1>1 DEF SetJob
  <2>2. current' # None
    BY <2>1 DEF Base, JobBudget
  <2>3. ASSUME NEW c \in Conns PROVE ServedInv(c)'
    <3>1. Visits(c)'
      BY <2>1 DEF Visits
    <3>. QED  BY <2>1, <2>2, <3>1 DEF CurrentInv, ServedInv
  <2>. QED  BY <2>1, <2>3 DEF CurrentInv
<1>2. CASE Age
  BY <1>2, CurrentFrame, SameVisits DEF Age
<1>3. ASSUME NEW l \in Listeners, Accept(l) \/ Count(l) PROVE CurrentInv'
  BY <1>3, CurrentFrame, SameVisits DEF Accept, Count
<1>4. ASSUME NEW l \in Listeners, Register(l) PROVE CurrentInv'
  <2>1. PICK n : n = accepted + 1
    OBVIOUS
  <2>2. n \in Conns /\ life' = [life EXCEPT ![n] = "open"] /\ UNCHANGED <<sessionVars, wpc, wlist>>
    BY <1>4, <2>1, ListenersKeepCount DEF Register, Base
  <2>3. n > accepted
    BY <2>1 DEF Base, AcceptInv
  <2>4. ~subscribed[n]
    BY <2>2, <2>3 DEF OnList
  <2>5. \A c \in Conns : life'[c] = "open" => life[c] = "open" \/ ~subscribed[c]
    BY <2>2, <2>4 DEF Base, ListInv
  <2>. QED  BY <2>2, <2>5, CurrentFrame, SameVisits
<1>5. ASSUME NEW c \in Conns, Unregister(c) PROVE CurrentInv'
  <2>1. life' = [life EXCEPT ![c] = "unlinked"] /\ UNCHANGED <<sessionVars, wpc, wlist>>
    BY <1>5 DEF Unregister
  <2>2. \A e \in Conns : life'[e] = "open" => life[e] = "open"
    BY <2>1 DEF Base, ListInv
  <2>. QED  BY <2>1, <2>2, CurrentFrame, SameVisits
<1>6. CASE UNCHANGED vars
  BY <1>6, CurrentFrame, SameVisits DEF vars
<1>. QED  BY <1>1, <1>2, <1>3, <1>4, <1>5, <1>6, CurrentWalk, CurrentThread, CurrentMiner DEF Next

LEMMA CurrentInit == Init => CurrentInv /\ OnList
<1> SUFFICES ASSUME Init PROVE CurrentInv /\ OnList
  OBVIOUS
<1>1. OnList
  BY DEF Init, OnList, Alive
<1>2. ASSUME NEW c \in Conns PROVE ServedInv(c)
  BY NoOutputFields DEF Init, ServedInv
<1>3. late \in [Conns -> BOOLEAN] /\ DOMAIN last = Conns
  BY DEF Init
<1>. QED  BY <1>1, <1>2, <1>3 DEF CurrentInv

\* Whenever nothing is in progress, every miner the server can reach has been
\* given the current job: no interleaving of authorizing, subscribing and
\* being walked leaves one behind on an older job.
THEOREM NobodyIsLeftBehind == Spec => []CurrentOnWire
<1>1. CurrentInv /\ Base => CurrentOnWire
  <2>1. SUFFICES ASSUME CurrentInv, Base, Quiet, NEW c \in Conns,
                        life[c] = "open", Eligible(c), CanRender(c),
                        ~deaf[c], current \notin crossed[c], ~late[c]
                 PROVE  last[c] = current
    BY DEF CurrentOnWire
  <2>2. wpc = "idle" /\ pc[c] = "recv" /\ wlist = <<>>
    BY <2>1 DEF Quiet, Base, ListInv
  <2>3. ~Visits(c)
    BY <2>2 DEF Visits
  <2>4. Served(c)
    BY <2>1 DEF Served, Eligible, CanRender
  <2>. QED  BY <2>1, <2>2, <2>3, <2>4 DEF CurrentInv, ServedInv
<1>2. Init => OnList
  BY CurrentInit
<1>3. OnList /\ Base /\ [Next]_vars => OnList'
  BY OnListStep DEF Base
<1>4. Spec => []OnList
  BY <1>2, <1>3, BaseInvariant, PTL DEF Spec
<1>5. Init => CurrentInv
  BY CurrentInit
<1>. QED  BY <1>1, <1>4, <1>5, BaseInvariant, StaleInvariant, TalkInvariant, CurrentStep, PTL DEF Spec
=============================================================================
