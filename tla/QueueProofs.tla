----------------------------- MODULE QueueProofs -----------------------------
(***************************************************************************)
(* Theorems about PPLNS: the payout queue, for any miners, windows,        *)
(* rewards, listeners' ceilings and output sizes, and the window a         *)
(* template is built from, for any shares and batches.                     *)
(*                                                                         *)
(* A job that goes out is good (GoodJob): it names each payee once, the    *)
(* claims come to the reward without the fee, and one of them is above the *)
(* floor.  Whatever block was found on it then has outputs that come to    *)
(* the same sum (OutputsFacts), and deltas that cancel out (DeltasFacts).  *)
(* Because a block is found on the job at hand and staged rows are dropped *)
(* with their block, the staged rows of a block are at all times the       *)
(* deltas of its own good job under its own ceiling (StagedInv), whatever  *)
(* template has come since.                                                *)
(*                                                                         *)
(* The claims are walked in the payment order.  What the walk pays is what *)
(* its running cost allows (Charged), an account the provers can sum;      *)
(* which of them is served follows from the place it has in the order.     *)
(*                                                                         *)
(* The window is read by several statements beside the writer.  Rows are   *)
(* only added above, or taken back above what is durable, so the ends the  *)
(* walk has pinned stay those of a window unless a row it read is gone     *)
(* (PinInv).                                                               *)
(***************************************************************************)
EXTENDS PayoutQueue, ShareWindow, SumLemmas, FunctionTheorems, SequenceTheorems

-----------------------------------------------------------------------------
(* Ranking. *)

\* What comes before x.
Below(S, R, x) == {y \in S : <<y, x>> \in R}

\* R orders S.
Orders(R, S) ==
    /\ \A x \in S : <<x, x>> \notin R
    /\ \A x, y \in S : x = y \/ <<x, y>> \in R \/ <<y, x>> \in R
    /\ \A x, y, z \in S : <<x, y>> \in R /\ <<y, z>> \in R => <<x, z>> \in R

\* q lists S in the order R.
Lists(q, S, R) ==
    /\ q \in [1..Cardinality(S) -> S]
    /\ \A i, j \in 1..Cardinality(S) : i < j => <<q[i], q[j]>> \in R
    /\ \A i, j \in 1..Cardinality(S) : q[i] = q[j] => i = j
    /\ \A x \in S : \E i \in 1..Cardinality(S) : q[i] = x
    /\ \A i \in 1..Cardinality(S) : Cardinality(Below(S, R, q[i])) = i - 1

LEMMA BelowGrows ==
    ASSUME NEW S, IsFiniteSet(S), NEW R, Orders(R, S), NEW x \in S, NEW y \in S,
           <<x, y>> \in R
    PROVE  Cardinality(Below(S, R, x)) < Cardinality(Below(S, R, y))
<1>1. PICK u, v : u = Below(S, R, x) /\ v = Below(S, R, y)
  OBVIOUS
<1>2. u \subseteq v /\ x \in v /\ x \notin u /\ v \subseteq S
  BY <1>1 DEF Below, Orders
<1>3. IsFiniteSet(v) /\ IsFiniteSet(u)
  BY <1>2, FS_Subset
<1>4. Cardinality(u) <= Cardinality(v) /\ (Cardinality(v) = Cardinality(u) => v = u)
  BY <1>2, <1>3, FS_Subset
<1>5. Cardinality(u) \in Nat /\ Cardinality(v) \in Nat
  BY <1>3, FS_CardinalityType
<1>6. Cardinality(u) < Cardinality(v)
  BY <1>2, <1>4, <1>5
<1>. QED  BY <1>1, <1>6

LEMMA RankOf ==
    ASSUME NEW S, IsFiniteSet(S), NEW R, Orders(R, S), NEW x \in S
    PROVE  Cardinality(Below(S, R, x)) \in 0..Cardinality(S) - 1
<1>1. PICK u : u = Below(S, R, x)
  OBVIOUS
<1>2. u \subseteq S /\ x \notin u
  BY <1>1 DEF Below, Orders
<1>3. IsFiniteSet(u)
  BY <1>2, FS_Subset
<1>4. Cardinality(u) <= Cardinality(S) /\ (Cardinality(S) = Cardinality(u) => S = u)
  BY <1>2, FS_Subset
<1>5. Cardinality(u) \in Nat /\ Cardinality(S) \in Nat
  BY <1>3, FS_CardinalityType
<1>6. Cardinality(u) \in 0..Cardinality(S) - 1
  BY <1>2, <1>4, <1>5
<1>. QED  BY <1>1, <1>6

LEMMA EveryRank ==
    ASSUME NEW S, IsFiniteSet(S), NEW R, Orders(R, S), NEW k \in 0..Cardinality(S) - 1
    PROVE  \E x \in S : Cardinality(Below(S, R, x)) = k
<1>. DEFINE T == 0..Cardinality(S) - 1
            rk == [x \in S |-> Cardinality(Below(S, R, x))]
<1>1. Cardinality(S) \in Nat
  BY FS_CardinalityType
<1>2. IsFiniteSet(T) /\ Cardinality(T) = Cardinality(S)
  BY <1>1, FS_Interval
<1>3. rk \in [S -> T]
  BY RankOf
<1>4. ASSUME NEW x \in S, NEW y \in S, rk[x] = rk[y] PROVE x = y
  <2>1. SUFFICES ASSUME <<x, y>> \in R \/ <<y, x>> \in R PROVE FALSE
    BY DEF Orders
  <2>2. rk[x] \in Nat /\ rk[y] \in Nat
    BY <1>1, <1>3
  <2>3. CASE <<x, y>> \in R
    BY <1>4, <2>2, <2>3, BelowGrows
  <2>4. CASE <<y, x>> \in R
    BY <1>4, <2>2, <2>4, BelowGrows
  <2>. QED  BY <2>1, <2>3, <2>4
<1>5. rk \in Injection(S, T)
  BY <1>3, <1>4 DEF Injection, IsInjective
<1>. HIDE DEF rk, T
<1>6. rk \in Surjection(S, T)
  BY <1>2, <1>5, FS_Injection
<1>7. \E x \in S : rk[x] = k
  BY <1>6 DEF Surjection, T
<1>. QED  BY <1>7 DEF rk

LEMMA RankedLists ==
    ASSUME NEW S, IsFiniteSet(S), NEW R, Orders(R, S), NEW q \in [1..Cardinality(S) -> S],
           \A k \in 1..Cardinality(S) : Cardinality(Below(S, R, q[k])) = k - 1
    PROVE  Lists(q, S, R)
<1>0. Cardinality(S) \in Nat
  BY FS_CardinalityType
<1>1. \A k \in 1..Cardinality(S) : q[k] \in S /\ Cardinality(Below(S, R, q[k])) = k - 1
  OBVIOUS
<1>2. ASSUME NEW i \in 1..Cardinality(S), NEW j \in 1..Cardinality(S), i < j
      PROVE  <<q[i], q[j]>> \in R
  <2>1. q[i] \in S /\ q[j] \in S /\ Cardinality(Below(S, R, q[i])) = i - 1
        /\ Cardinality(Below(S, R, q[j])) = j - 1
    BY <1>1
  <2>2. SUFFICES ASSUME q[i] = q[j] \/ <<q[j], q[i]>> \in R PROVE FALSE
    BY <2>1 DEF Orders
  <2>3. CASE q[i] = q[j]
    BY <1>0, <1>2, <2>1, <2>3
  <2>4. CASE <<q[j], q[i]>> \in R
    <3>1. Cardinality(Below(S, R, q[j])) < Cardinality(Below(S, R, q[i]))
      BY <2>1, <2>4, BelowGrows
    <3>. QED  BY <1>0, <1>2, <2>1, <3>1
  <2>. QED  BY <2>2, <2>3, <2>4
<1>3. \A i, j \in 1..Cardinality(S) : q[i] = q[j] => i = j
  <2>1. SUFFICES ASSUME NEW i \in 1..Cardinality(S), NEW j \in 1..Cardinality(S), q[i] = q[j]
                 PROVE  i = j
    OBVIOUS
  <2>2. Cardinality(Below(S, R, q[i])) = i - 1 /\ Cardinality(Below(S, R, q[j])) = j - 1
    BY <1>1
  <2>3. i - 1 = j - 1
    BY <2>1, <2>2
  <2>. QED  BY <1>0, <2>3
<1>4. ASSUME NEW x \in S PROVE \E i \in 1..Cardinality(S) : q[i] = x
  <2>1. PICK k : k = Cardinality(Below(S, R, x)) + 1
    OBVIOUS
  <2>2. Cardinality(Below(S, R, x)) \in 0..Cardinality(S) - 1
    BY RankOf
  <2>3. k \in 1..Cardinality(S) /\ Cardinality(Below(S, R, x)) = k - 1
    BY <1>0, <2>1, <2>2
  <2>4. q[k] \in S /\ Cardinality(Below(S, R, q[k])) = k - 1
    BY <1>1, <2>3
  <2>5. SUFFICES ASSUME <<x, q[k]>> \in R \/ <<q[k], x>> \in R PROVE FALSE
    BY <2>3, <2>4 DEF Orders
  <2>6. Cardinality(Below(S, R, x)) < Cardinality(Below(S, R, q[k])) \/ Cardinality(Below(S, R, q[k])) < Cardinality(Below(S, R, x))
    BY <2>4, <2>5, BelowGrows
  <2>. QED  BY <1>0, <2>3, <2>4, <2>6
<1>. QED  BY <1>1, <1>2, <1>3, <1>4 DEF Lists

-----------------------------------------------------------------------------
(* The payment order. *)

\* The window's workers, and their order by claim.
Active(win) == {w \in Workers : win[w] > 0}

SizeOrder(win) ==
    {p \in Active(win) \X Active(win) :
       win[p[1]] > win[p[2]] \/ (win[p[1]] = win[p[2]] /\ p[1] < p[2])}

LEMMA WindowFacts ==
    ASSUME NEW win \in Windows
    PROVE  /\ IsFiniteSet(Active(win)) /\ Active(win) \subseteq Workers
           /\ Active(win) \subseteq Nat
           /\ \A w \in Workers : win[w] \in Nat
           /\ \A w \in Active(win) : win[w] > 0
           /\ win # EmptyWindow => Active(win) # {}
<1>1. win \in [Workers -> Nat] /\ IsFiniteSet(Workers) /\ Workers \subseteq Nat
  BY QueueAssumption
<1>2. Active(win) \subseteq Workers
  BY DEF Active
<1>3. IsFiniteSet(Active(win))
  BY <1>1, <1>2, FS_Subset
<1>4. win # EmptyWindow => Active(win) # {}
  BY <1>1 DEF EmptyWindow, Active
<1>. QED  BY <1>1, <1>2, <1>3, <1>4 DEF Active

LEMMA LargestFirstLists ==
    ASSUME NEW win \in Windows
    PROVE  Lists(LargestFirst(win), Active(win), SizeOrder(win))
<1>. DEFINE S == Active(win)
            R == SizeOrder(win)
            before(v, w) == win[v] > win[w] \/ (win[v] = win[w] /\ v < w)
<1>1. IsFiniteSet(S) /\ (\A w \in S : win[w] \in Nat /\ w \in Nat)
  BY WindowFacts
<1>2. \A v, w \in S : <<v, w>> \in R <=> before(v, w)
  BY DEF SizeOrder
<1>3. Orders(R, S)
  <2>1. \A x \in S : ~before(x, x)
    BY <1>1
  <2>2. \A x, y \in S : x = y \/ before(x, y) \/ before(y, x)
    BY <1>1
  <2>3. \A x, y, z \in S : before(x, y) /\ before(y, z) => before(x, z)
    BY <1>1
  <2>. HIDE DEF before, S, R
  <2>. QED  BY <1>2, <2>1, <2>2, <2>3 DEF Orders
<1>4. \A x \in S : {y \in S : before(y, x)} = Below(S, R, x)
  BY <1>2 DEF Below
<1>5. PICK q : q = LargestFirst(win)
  OBVIOUS
<1>6. q = [k \in 1..Cardinality(S) |->
             CHOOSE x \in S : Cardinality({y \in S : before(y, x)}) = k - 1]
  BY <1>5 DEF LargestFirst, Ranked, Active
<1>. HIDE DEF before, S, R
<1>7. ASSUME NEW k \in 1..Cardinality(S)
      PROVE  q[k] \in S /\ Cardinality(Below(S, R, q[k])) = k - 1
  <2>0. Cardinality(S) \in Nat
    BY <1>1, FS_CardinalityType
  <2>1. k - 1 \in 0..Cardinality(S) - 1
    BY <2>0
  <2>2. PICK x \in S : Cardinality(Below(S, R, x)) = k - 1
    BY <1>1, <1>3, <2>1, EveryRank
  <2>3. Cardinality({y \in S : before(y, x)}) = k - 1
    BY <1>4, <2>2
  <2>4. q[k] \in S /\ Cardinality({y \in S : before(y, q[k])}) = k - 1
    BY <1>6, <2>3
  <2>. QED  BY <1>4, <2>4
<1>8. q \in [1..Cardinality(S) -> S]
  BY <1>6, <1>7
<1>9. Lists(q, S, R)
  BY <1>1, <1>3, <1>7, <1>8, RankedLists
<1>. QED  BY <1>5, <1>9 DEF S, R

-----------------------------------------------------------------------------
(* Division. *)

LEMMA DivFacts ==
    ASSUME NEW a \in Nat, NEW b \in Nat, b > 0
    PROVE  a \div b \in Nat /\ (a \div b) * b <= a /\ a < (a \div b + 1) * b
OBVIOUS

LEMMA TimesMono ==
    ASSUME NEW a \in Int, NEW b \in Int, NEW c \in Nat, a <= b
    PROVE  a * c <= b * c
OBVIOUS

LEMMA TimesCancel ==
    ASSUME NEW a \in Int, NEW b \in Int, NEW c \in Nat, c > 0, a * c <= b * c
    PROVE  a <= b
OBVIOUS

LEMMA DivMono ==
    ASSUME NEW a \in Nat, NEW b \in Nat, NEW c \in Nat, c > 0, a <= b
    PROVE  a \div c <= b \div c
<1>1. PICK x, y : x = a \div c /\ y = b \div c
  OBVIOUS
<1>2. x \in Nat /\ y \in Nat /\ x * c <= a /\ b < (y + 1) * c
  BY <1>1, DivFacts
<1>3. x < y + 1
  <2>1. SUFFICES ASSUME y + 1 <= x PROVE FALSE
    BY <1>2
  <2>2. (y + 1) * c <= x * c
    BY <1>2, <2>1, TimesMono
  <2>3. (y + 1) * c \in Int /\ x * c \in Int
    BY <1>2
  <2>. QED  BY <1>2, <2>2, <2>3
<1>. QED  BY <1>1, <1>2, <1>3

-----------------------------------------------------------------------------
(* Splitting the reward. *)

\* Who is in the window, and the largest of them.
LEMMA ClaimsFacts ==
    ASSUME NEW win \in Windows, win # EmptyWindow
    PROVE  /\ Cardinality(Active(win)) \in Nat /\ Cardinality(Active(win)) > 0
           /\ DOMAIN LargestFirst(win) = 1..Cardinality(Active(win))
           /\ Range(LargestFirst(win)) = Active(win)
           /\ LargestFirst(win)[1] \in Active(win)
           /\ \A w \in Active(win) : win[w] <= win[LargestFirst(win)[1]]
<1>1. PICK S, R, q : S = Active(win) /\ R = SizeOrder(win) /\ q = LargestFirst(win)
  OBVIOUS
<1>2. Lists(q, S, R)
  BY <1>1, LargestFirstLists
<1>3. IsFiniteSet(S) /\ S # {} /\ S \subseteq Workers
  BY <1>1, WindowFacts
<1>4. Cardinality(S) \in Nat /\ Cardinality(S) # 0
  BY <1>3, FS_CardinalityType, FS_EmptySet
<1>5. 1 \in 1..Cardinality(S)
  BY <1>4
<1>6. DOMAIN q = 1..Cardinality(S) /\ q[1] \in S
  BY <1>2, <1>5 DEF Lists
<1>7. Range(q) = S
  BY <1>2, <1>6 DEF Lists, Range
<1>8. ASSUME NEW w \in S PROVE win[w] <= win[q[1]]
  <2>1. PICK i \in 1..Cardinality(S) : q[i] = w
    BY <1>2 DEF Lists
  <2>2. win[w] \in Nat
    BY <1>3, WindowFacts
  <2>3. CASE i = 1
    BY <2>1, <2>2, <2>3
  <2>4. CASE i # 1
    <3>1. <<q[1], w>> \in R
      BY <1>2, <1>4, <1>5, <2>1, <2>4 DEF Lists
    <3>2. win[q[1]] \in Nat
      BY <1>3, <1>6, WindowFacts
    <3>. QED  BY <1>1, <2>2, <3>1, <3>2 DEF SizeOrder
  <2>. QED  BY <2>3, <2>4
<1>. QED  BY <1>1, <1>4, <1>6, <1>7, <1>8

\* The split pays out what is payable, nothing negative, and most to the largest.
LEMMA DivideFacts ==
    ASSUME NEW win \in Windows, win # EmptyWindow, NEW payable \in Nat
    PROVE  LET S == Active(win)
               d == Divide(win, payable)
           IN  /\ d \in [S -> Nat]
               /\ SumFunctionOnSet(d, S) = payable
               /\ \A w \in S : d[w] <= d[LargestFirst(win)[1]]
<1>1. PICK S, c, W : /\ S = Active(win) /\ c = LargestFirst(win)[1]
                     /\ W = SumFunctionOnSet(win, S)
  OBVIOUS
<1>2. IsFiniteSet(S) /\ c \in S /\ \A w \in S : win[w] \in Nat /\ win[w] > 0 /\ win[w] <= win[c]
  BY <1>1, WindowFacts, ClaimsFacts
<1>3. W \in Nat /\ W > 0
  <2>1. W \in Nat /\ win[c] <= W
    BY <1>1, <1>2, SumNat
  <2>. QED  BY <1>2, <2>1
<1>4. PICK share : share = [w \in S |-> (payable * win[w]) \div W]
  OBVIOUS
<1>5. PICK gross : gross = [w \in S |-> win[w] * payable]
  OBVIOUS
<1>6. PICK back : back = [w \in S |-> share[w] * W]
  OBVIOUS
<1>7. ASSUME NEW w \in S
      PROVE  /\ share[w] \in Nat /\ share[w] <= share[c]
             /\ back[w] \in Int /\ gross[w] \in Int /\ back[w] <= gross[w]
  <2>1. payable * win[w] \in Nat /\ payable * win[c] \in Nat /\ payable * win[w] = win[w] * payable
    BY <1>2
  <2>2. payable * win[w] <= payable * win[c]
    <3>1. win[w] * payable <= win[c] * payable
      BY <1>2, TimesMono
    <3>. QED  BY <1>2, <3>1
  <2>3. PICK a, b : a = payable * win[w] /\ b = payable * win[c]
    OBVIOUS
  <2>4. a \in Nat /\ b \in Nat /\ a <= b
    BY <2>1, <2>2, <2>3
  <2>5. share[w] = a \div W /\ share[c] = b \div W
    BY <1>2, <1>4, <2>3
  <2>6. share[w] \in Nat /\ share[w] * W <= a /\ share[w] <= share[c]
    BY <1>3, <2>4, <2>5, DivFacts, DivMono
  <2>7. back[w] = share[w] * W /\ gross[w] = a
    BY <1>5, <1>6, <2>1, <2>3
  <2>8. share[w] * W \in Int
    BY <1>3, <2>6
  <2>. QED  BY <2>4, <2>6, <2>7, <2>8
<1>8. PICK T : T = SumFunctionOnSet(share, S)
  OBVIOUS
<1>9. T \in Nat /\ T <= payable
  <2>1. T \in Nat
    BY <1>2, <1>7, <1>8, SumNat
  <2>2. SumFunctionOnSet(back, S) = T * W
    <3>1. \A w \in S : share[w] \in Int /\ back[w] = share[w] * W
      BY <1>6, <1>7
    <3>. QED  BY <1>2, <1>3, <1>8, <3>1, SumTimes
  <2>3. SumFunctionOnSet(gross, S) = W * payable
    <3>1. \A w \in S : win[w] \in Int /\ gross[w] = win[w] * payable
      BY <1>2, <1>5
    <3>. QED  BY <1>1, <1>2, <3>1, SumTimes
  <2>4. SumFunctionOnSet(back, S) <= SumFunctionOnSet(gross, S)
    BY <1>2, <1>7, SumLe
  <2>5. T * W <= payable * W
    BY <1>3, <2>1, <2>2, <2>3, <2>4
  <2>. QED  BY <1>3, <2>1, <2>5, TimesCancel
<1>10. PICK d : d = [share EXCEPT ![c] = @ + payable - T]
  OBVIOUS
<1>11. /\ d \in [S -> Nat] /\ d[c] = share[c] + payable - T
       /\ \A w \in S : w # c => d[w] = share[w]
  BY <1>2, <1>4, <1>7, <1>9, <1>10
<1>12. SumFunctionOnSet(d, S) = payable
  <2>1. PICK U : U = S \ {c}
    OBVIOUS
  <2>2. IsFiniteSet(U) /\ U \subseteq S
    BY <1>2, <2>1, FS_Subset
  <2>3. SumFunctionOnSet(d, S) = d[c] + SumFunctionOnSet(d, U)
    BY <1>2, <1>11, <2>1, SumTake
  <2>4. SumFunctionOnSet(share, S) = share[c] + SumFunctionOnSet(share, U)
    BY <1>2, <1>7, <2>1, SumTake
  <2>5. SumFunctionOnSet(d, U) = SumFunctionOnSet(share, U)
    <3>1. \A w \in U : share[w] \in Int /\ d[w] = share[w]
      BY <1>7, <1>11, <2>1
    <3>. QED  BY <2>2, <3>1, SumSame
  <2>6. SumFunctionOnSet(share, U) \in Int
    BY <1>7, <2>2, SumType
  <2>7. share[c] \in Int
    BY <1>2, <1>7
  <2>. QED  BY <1>8, <1>9, <1>11, <2>3, <2>4, <2>5, <2>6, <2>7
<1>13. \A w \in S : d[w] <= d[c]
  BY <1>2, <1>7, <1>9, <1>11
<1>14. Divide(win, payable) = d
  <2>1. Range(LargestFirst(win)) = S
    BY <1>1, ClaimsFacts
  <2>. QED  BY <1>1, <1>4, <1>8, <1>10, <2>1 DEF Divide, Sum
<1>. QED  BY <1>1, <1>11, <1>12, <1>13, <1>14

-----------------------------------------------------------------------------
(* Ordering the claims. *)

\* A finite set of numbers has a largest member.
LEMMA MaxIs ==
    ASSUME NEW S, IsFiniteSet(S), S # {}, S \subseteq Int
    PROVE  Max(S) \in S /\ \A x \in S : x <= Max(S)
<1>. DEFINE Q == {s \in SUBSET S : s # {} => \E m \in s : \A x \in s : x <= m}
<1>1. {} \in Q
  OBVIOUS
<1>2. ASSUME NEW s \in SUBSET S, NEW y \in S \ s, s \in Q PROVE s \cup {y} \in Q
  <2>1. CASE s = {}
    <3>1. \A x \in s \cup {y} : x <= y
      BY <2>1
    <3>. QED  BY <3>1
  <2>2. CASE s # {}
    <3>1. PICK m \in s : \A x \in s : x <= m
      BY <1>2, <2>2
    <3>2. CASE y <= m
      <4>1. \A x \in s \cup {y} : x <= m
        BY <3>1, <3>2
      <4>. QED  BY <4>1
    <3>3. CASE ~(y <= m)
      <4>1. \A x \in s \cup {y} : x <= y
        BY <3>1, <3>3
      <4>. QED  BY <4>1
    <3>. QED  BY <3>2, <3>3
  <2>. QED  BY <2>1, <2>2
<1>. HIDE DEF Q
<1>3. S \in Q
  BY <1>1, <1>2, SetRule
<1>4. \E m \in S : \A x \in S : m >= x
  BY <1>3 DEF Q
<1>5. Max(S) \in S /\ \A x \in S : Max(S) >= x
  BY <1>4 DEF Max
<1>. QED  BY <1>5

\* At most r members have a rank below r.
LEMMA FewBelow ==
    ASSUME NEW S, IsFiniteSet(S), NEW R, Orders(R, S), NEW r \in Nat
    PROVE  LET F == {x \in S : Cardinality(Below(S, R, x)) < r}
           IN  IsFiniteSet(F) /\ Cardinality(F) \in Nat /\ Cardinality(F) <= r
<1>. DEFINE F == {x \in S : Cardinality(Below(S, R, x)) < r}
            rk == [x \in F |-> Cardinality(Below(S, R, x))]
            T == 0..r - 1
<1>1. IsFiniteSet(F) /\ Cardinality(F) \in Nat
  <2>1. F \subseteq S
    OBVIOUS
  <2>. HIDE DEF F
  <2>. QED  BY <2>1, FS_Subset, FS_CardinalityType
<1>2. IsFiniteSet(T) /\ Cardinality(T) = r
  BY FS_Interval
<1>3. \A x \in S : Cardinality(Below(S, R, x)) \in Nat
  <2>1. Cardinality(S) \in Nat
    BY FS_CardinalityType
  <2>. QED  BY <2>1, RankOf
<1>4. rk \in [F -> T]
  BY <1>3
<1>5. ASSUME NEW x \in F, NEW y \in F, rk[x] = rk[y] PROVE x = y
  <2>1. SUFFICES ASSUME <<x, y>> \in R \/ <<y, x>> \in R PROVE FALSE
    BY DEF Orders
  <2>2. rk[x] \in Nat /\ rk[y] \in Nat
    BY <1>3
  <2>3. CASE <<x, y>> \in R
    BY <1>5, <2>2, <2>3, BelowGrows
  <2>4. CASE <<y, x>> \in R
    BY <1>5, <2>2, <2>4, BelowGrows
  <2>. QED  BY <2>1, <2>3, <2>4
<1>6. rk \in Injection(F, T)
  BY <1>4, <1>5 DEF Injection, IsInjective
<1>. HIDE DEF F, rk, T
<1>7. Cardinality(F) <= Cardinality(T)
  BY <1>2, <1>6, FS_Injection
<1>. QED  BY <1>1, <1>2, <1>7 DEF F

\* How many payouts the tightest listener has room for, by the guess.
CostOf(claims, k) == SumFunctionOnSet([i \in DOMAIN claims |-> OutputBytes[claims[i]]], 1..k)

LEMMA ExpectedSlotsIs ==
    ASSUME NEW win \in Windows, win # EmptyWindow, setup \in Setups
    PROVE  LET n == ExpectedSlots(LargestFirst(win))
           IN  /\ n \in 1..Cardinality(Active(win))
               /\ n = 1 \/ CostOf(LargestFirst(win), n) <= TightestBudget - setup.guess
<1>1. PICK claims, N : claims = LargestFirst(win) /\ N = Cardinality(Active(win))
  OBVIOUS
<1>2. DOMAIN claims = 1..N /\ N \in Nat /\ N > 0
  BY <1>1, ClaimsFacts
<1>3. PICK Fit : Fit = {1} \cup {k \in DOMAIN claims : CostOf(claims, k) <= TightestBudget - setup.guess}
  OBVIOUS
<1>4. Fit \subseteq 1..N /\ Fit # {}
  BY <1>2, <1>3
<1>5. IsFiniteSet(1..N)
  BY <1>2, FS_Interval
<1>6. IsFiniteSet(Fit) /\ Fit \subseteq Int
  <2>1. IsFiniteSet(Fit)
    BY <1>4, <1>5, FS_Subset
  <2>2. 1..N \subseteq Int
    BY <1>2
  <2>. QED  BY <1>4, <2>1, <2>2
<1>7. Max(Fit) \in Fit
  BY <1>4, <1>6, MaxIs
<1>8. ExpectedSlots(claims) = Max(Fit)
  BY <1>3 DEF ExpectedSlots, CostOf, Sum
<1>. QED  BY <1>1, <1>3, <1>4, <1>7, <1>8

\* The queue's order: those held in the reserved slots, longest first, then the
\* others, largest first.  Nobody but them comes before the largest claim.
LEMMA OrderLists ==
    ASSUME NEW win \in Windows, win # EmptyWindow, setup \in Setups,
           owed \in [Workers -> Int], NEW sats
    PROVE  LET claims == LargestFirst(win)
               S == Active(win)
           IN  \E first, R :
                 /\ first \subseteq S
                 /\ Lists(OrderClaims(claims, sats), S, R)
                 /\ Below(S, R, claims[1]) \subseteq first
                 /\ IsFiniteSet(first) /\ Cardinality(first) \in Nat
                 /\ Cardinality(first) <= ExpectedSlots(claims) \div 4
<1>1. PICK claims, S, N : claims = LargestFirst(win) /\ S = Active(win) /\ N = Cardinality(S)
  OBVIOUS
<1>2. /\ DOMAIN claims = 1..N /\ N \in Nat /\ N > 0 /\ Range(claims) = S /\ claims[1] \in S
      /\ IsFiniteSet(S) /\ S \subseteq Workers
  BY <1>1, ClaimsFacts, WindowFacts
<1>3. Lists(claims, S, SizeOrder(win))
  BY <1>1, LargestFirstLists
<1>. DEFINE position(w) == CHOOSE i \in DOMAIN claims : claims[i] = w
            waiting == {w \in S : owed[w] > 0 /\ CanBePaid(sats[w])}
            longer(v, w) == \/ owed[v] > owed[w]
                            \/ owed[v] = owed[w] /\ position(v) < position(w)
            reserved == ExpectedSlots(claims) \div 4
            first == {w \in waiting : Cardinality({v \in waiting : longer(v, w)}) < reserved}
            before(v, w) == IF v \in first THEN w \notin first \/ longer(v, w)
                            ELSE w \notin first /\ position(v) < position(w)
            L == {p \in S \X S : longer(p[1], p[2])}
            R == {p \in S \X S : before(p[1], p[2])}
<1>4. ASSUME NEW w \in S PROVE position(w) \in 1..N /\ claims[position(w)] = w
  <2>1. \E i \in DOMAIN claims : claims[i] = w
    BY <1>1, <1>2, <1>3 DEF Lists
  <2>. QED  BY <1>2, <2>1
<1>5. position(claims[1]) = 1
  <2>1. position(claims[1]) \in 1..N /\ claims[position(claims[1])] = claims[1]
    BY <1>2, <1>4
  <2>2. 1 \in 1..N
    BY <1>2
  <2>. HIDE DEF position
  <2>. QED  BY <1>1, <1>3, <2>1, <2>2 DEF Lists
<1>6. \A v, w \in S : position(v) = position(w) => v = w
  BY <1>4
<1>7. \A w \in S : owed[w] \in Int /\ position(w) \in Nat
  BY <1>2, <1>4
<1>. HIDE DEF position
<1>8. /\ \A x \in S : ~longer(x, x)
      /\ \A x, y \in S : x = y \/ longer(x, y) \/ longer(y, x)
      /\ \A x, y, z \in S : longer(x, y) /\ longer(y, z) => longer(x, z)
  BY <1>6, <1>7
<1>9. \A x, y \in S : <<x, y>> \in L <=> longer(x, y)
  OBVIOUS
<1>10. \A x, y \in S : <<x, y>> \in R <=> before(x, y)
  OBVIOUS
<1>11. waiting \subseteq S /\ first \subseteq waiting
  OBVIOUS
<1>12. Orders(L, waiting)
  <2>. HIDE DEF longer, L, waiting
  <2>. QED  BY <1>8, <1>9, <1>11 DEF Orders
<1>13. Orders(R, S)
  <2>1. /\ \A x \in S : ~before(x, x)
        /\ \A x, y \in S : x = y \/ before(x, y) \/ before(y, x)
        /\ \A x, y, z \in S : before(x, y) /\ before(y, z) => before(x, z)
    <3>. HIDE DEF longer, first
    <3>. QED  BY <1>6, <1>7, <1>8
  <2>. HIDE DEF before, R
  <2>. QED  BY <1>10, <2>1 DEF Orders
<1>14. /\ IsFiniteSet(first) /\ Cardinality(first) \in Nat /\ Cardinality(first) <= reserved
  <2>1. reserved \in Nat
    <3>1. ExpectedSlots(claims) \in 1..N
      BY <1>1, ExpectedSlotsIs
    <3>. QED  BY <1>2, <3>1, DivFacts
  <2>2. IsFiniteSet(waiting)
    <3>. HIDE DEF waiting
    <3>. QED  BY <1>2, <1>11, FS_Subset
  <2>3. \A w \in waiting : {v \in waiting : longer(v, w)} = Below(waiting, L, w)
    <3>. HIDE DEF longer, L, waiting
    <3>. QED  BY <1>9, <1>11 DEF Below
  <2>4. first = {w \in waiting : Cardinality(Below(waiting, L, w)) < reserved}
    <3>. HIDE DEF longer, L, waiting, reserved
    <3>. QED  BY <2>3
  <2>. HIDE DEF longer, L, waiting, reserved, first
  <2>. QED  BY <1>12, <2>1, <2>2, <2>4, FewBelow
<1>15. Below(S, R, claims[1]) \subseteq first
  <2>1. SUFFICES ASSUME NEW x \in S, before(x, claims[1]), x \notin first PROVE FALSE
    BY <1>2, <1>10 DEF Below
  <2>2. position(x) < position(claims[1])
    BY <2>1
  <2>. QED  BY <1>2, <1>5, <1>4, <2>2
<1>16. PICK q : q = OrderClaims(claims, sats)
  OBVIOUS
<1>17. q = [k \in 1..Cardinality(S) |->
              CHOOSE x \in S : Cardinality({y \in S : before(y, x)}) = k - 1]
  BY <1>2, <1>16 DEF OrderClaims, Ranked, position
<1>. HIDE DEF before, R, first, longer, waiting, reserved, L
<1>18. \A x \in S : {y \in S : before(y, x)} = Below(S, R, x)
  BY <1>10 DEF Below
<1>19. ASSUME NEW k \in 1..Cardinality(S)
      PROVE  q[k] \in S /\ Cardinality(Below(S, R, q[k])) = k - 1
  <2>1. k - 1 \in 0..Cardinality(S) - 1
    BY <1>1, <1>2
  <2>2. PICK x \in S : Cardinality(Below(S, R, x)) = k - 1
    BY <1>2, <1>13, <2>1, EveryRank
  <2>3. Cardinality({y \in S : before(y, x)}) = k - 1
    BY <1>18, <2>2
  <2>4. q[k] \in S /\ Cardinality({y \in S : before(y, q[k])}) = k - 1
    BY <1>17, <2>3
  <2>. QED  BY <1>18, <2>4
<1>20. q \in [1..Cardinality(S) -> S]
  BY <1>17, <1>19
<1>21. Lists(q, S, R)
  BY <1>2, <1>13, <1>19, <1>20, RankedLists
<1>22. first \subseteq S
  BY <1>11
<1>. QED  BY <1>1, <1>14, <1>15, <1>16, <1>21, <1>22 DEF reserved

-----------------------------------------------------------------------------
(* A job. *)

Payee == [worker : Workers, sats : Nat]

GoodPayees(ps) ==
    /\ ps \in Seq(Payee)
    /\ \A i, j \in DOMAIN ps : ps[i].worker = ps[j].worker => i = j

\* What goes out: distinct workers who together claim what the fee leaves, one
\* at least above the floor.
GoodJob(j) ==
    /\ j.value \in Rewards
    /\ GoodPayees(j.payees)
    /\ Claimed(j.payees, DOMAIN j.payees) = j.value - Fee(j.value)
    /\ \E k \in DOMAIN j.payees : j.payees[k].sats >= PayoutFloor

LEMMA FeeFacts ==
    ASSUME NEW value \in Rewards
    PROVE  value \in Nat /\ Fee(value) \in Nat /\ value - Fee(value) \in Nat /\ value - Fee(value) > 0
<1>1. value \in Nat /\ value > 0 /\ FeeBps \in 0..1000
  BY QueueAssumption
<1>2. PICK a, f : a = value * FeeBps /\ f = a \div 10000
  OBVIOUS
<1>3. a \in Nat /\ a <= value * 1000
  <2>1. FeeBps * value <= 1000 * value
    BY <1>1, TimesMono
  <2>. QED  BY <1>1, <1>2, <2>1
<1>4. f \in Nat /\ f * 10000 <= a
  BY <1>2, <1>3, DivFacts
<1>5. f <= value /\ f # value
  BY <1>1, <1>3, <1>4
<1>6. Fee(value) \in {f, 0}
  BY <1>2 DEF Fee
<1>. QED  BY <1>1, <1>4, <1>5, <1>6

LEMMA PaymentOrderFacts ==
    ASSUME NEW win \in Windows, win # EmptyWindow, setup \in Setups,
           owed \in [Workers -> Int], NEW value \in Rewards
    PROVE  LET ps == PaymentOrder(win, value)
               N == Cardinality(Active(win))
           IN  /\ GoodPayees(ps) /\ N \in Nat /\ N > 0 /\ DOMAIN ps = 1..N
               /\ Claimed(ps, DOMAIN ps) = value - Fee(value)
               /\ \E k \in 1..N :
                     /\ \A j \in 1..N : ps[j].sats <= ps[k].sats
                     /\ k - 1 <= ExpectedSlots(LargestFirst(win)) \div 4
<1>1. PICK S, N, payable, claims, c :
         /\ S = Active(win) /\ N = Cardinality(S) /\ payable = value - Fee(value)
         /\ claims = LargestFirst(win) /\ c = claims[1]
  OBVIOUS
<1>2. /\ IsFiniteSet(S) /\ S \subseteq Workers /\ N \in Nat /\ N > 0 /\ payable \in Nat /\ c \in S
  BY <1>1, WindowFacts, ClaimsFacts, FeeFacts
<1>3. PICK d : d = SplitWindow(win, value)
  OBVIOUS
<1>4. d = Divide(win, payable)
  BY <1>1, <1>3 DEF SplitWindow
<1>5. d \in [S -> Nat] /\ SumFunctionOnSet(d, S) = payable /\ \A w \in S : d[w] <= d[c]
  BY <1>1, <1>2, <1>4, DivideFacts
<1>6. PICK q : q = OrderClaims(claims, d)
  OBVIOUS
<1>7. PICK first, R :
         /\ Lists(q, S, R) /\ Below(S, R, c) \subseteq first
         /\ IsFiniteSet(first) /\ Cardinality(first) \in Nat
         /\ Cardinality(first) <= ExpectedSlots(claims) \div 4
  BY <1>1, <1>6, OrderLists
<1>8. /\ q \in [1..N -> S] /\ (\A i, j \in 1..N : q[i] = q[j] => i = j)
      /\ (\A x \in S : \E i \in 1..N : q[i] = x)
      /\ (\A i \in 1..N : Cardinality(Below(S, R, q[i])) = i - 1)
  BY <1>1, <1>7 DEF Lists
<1>9. PICK ps : ps = PaymentOrder(win, value)
  OBVIOUS
<1>10. ps = [k \in 1..N |-> [worker |-> q[k], sats |-> d[q[k]]]]
  <2>1. DOMAIN q = 1..N
    BY <1>8
  <2>. QED  BY <1>1, <1>3, <1>6, <1>9, <2>1 DEF PaymentOrder
<1>11. ps \in [1..N -> Payee]
  BY <1>2, <1>5, <1>8, <1>10 DEF Payee
<1>12. GoodPayees(ps) /\ DOMAIN ps = 1..N
  <2>1. ps \in Seq(Payee)
    BY <1>2, <1>11, SeqDef
  <2>2. \A i, j \in 1..N : ps[i].worker = ps[j].worker => i = j
    BY <1>8, <1>10
  <2>3. DOMAIN ps = 1..N
    BY <1>11
  <2>. QED  BY <2>1, <2>2, <2>3 DEF GoodPayees
<1>13. Claimed(ps, 1..N) = payable
  <2>1. PICK f : f = [k \in DOMAIN ps |-> ps[k].sats]
    OBVIOUS
  <2>2. \A k \in 1..N : d[q[k]] \in Int /\ f[k] = d[q[k]]
    BY <1>5, <1>8, <1>10, <1>12, <2>1
  <2>3. IsFiniteSet(1..N)
    BY <1>2, FS_Interval
  <2>5. SumFunctionOnSet(f, 1..N) = SumFunctionOnSet(d, S)
    <3>1. PICK D : D = 1..N
      OBVIOUS
    <3>2. /\ IsFiniteSet(D) /\ (\A k \in D : d[q[k]] \in Int /\ f[k] = d[q[k]])
          /\ (\A i, j \in D : q[i] = q[j] => i = j)
          /\ (\A k \in D : q[k] \in S) /\ (\A x \in S : \E i \in D : q[i] = x)
      BY <1>8, <2>2, <2>3, <3>1
    <3>3. SumFunctionOnSet(f, D) = SumFunctionOnSet(d, S)
      BY <3>2, SumMap
    <3>. QED  BY <3>1, <3>3
  <2>. QED  BY <1>5, <2>1, <2>5 DEF Claimed, Sum
<1>14. PICK k \in 1..N : q[k] = c
  BY <1>2, <1>8
<1>15. \A j \in 1..N : ps[j].sats <= ps[k].sats
  BY <1>5, <1>8, <1>10, <1>14
<1>16. k - 1 <= ExpectedSlots(claims) \div 4
  <2>1. Cardinality(Below(S, R, c)) = k - 1
    BY <1>8, <1>14
  <2>2. Cardinality(Below(S, R, c)) <= Cardinality(first)
    BY <1>7, FS_Subset
  <2>3. ExpectedSlots(claims) \div 4 \in Nat
    <3>1. ExpectedSlots(claims) \in 1..N
      BY <1>1, ExpectedSlotsIs
    <3>. QED  BY <1>2, <3>1, DivFacts
  <2>. QED  BY <1>2, <1>7, <2>1, <2>2, <2>3
<1>. QED  BY <1>1, <1>2, <1>9, <1>12, <1>13, <1>14, <1>15, <1>16

-----------------------------------------------------------------------------
(* Walking down the payment order. *)

CostAt(ps, k) == OutputBytes[ps[k].worker]

RoomAt(ps, c, k, used) == ps[k].sats >= PayoutFloor /\ used + CostAt(ps, k) <= c

\* b is the count of bytes over the first n payees.
Tallies(b, ps, c, n) ==
    b = [k \in 0..n |->
           IF k = 0 THEN FixedBytes
           ELSE b[k - 1] + (IF RoomAt(ps, c, k, b[k - 1]) THEN CostAt(ps, k) ELSE 0)]

LEMMA PaidIs ==
    ASSUME NEW ps, NEW c
    PROVE  Paid(ps, c) = {k \in DOMAIN ps :
                            RoomAt(ps, c, k, (CHOOSE b : Tallies(b, ps, c, Len(ps)))[k - 1])}
BY DEF Paid, Tallies, RoomAt, CostAt

LEMMA CountsExist ==
    ASSUME NEW ps, NEW c, NEW n \in Nat
    PROVE  \E b : Tallies(b, ps, c, n)
<1>. DEFINE Q == {m \in Nat : \E b : Tallies(b, ps, c, m)}
<1>1. 0 \in Q
  <2>. DEFINE b == [k \in 0..0 |-> FixedBytes]
  <2>1. Tallies(b, ps, c, 0)
    BY DEF Tallies
  <2>. QED  BY <2>1
<1>2. ASSUME NEW m \in Nat, m \in Q PROVE m + 1 \in Q
  <2>1. PICK h : Tallies(h, ps, c, m)
    BY <1>2
  <2>2. PICK x : x = h[m] + (IF RoomAt(ps, c, m + 1, h[m]) THEN CostAt(ps, m + 1) ELSE 0)
    OBVIOUS
  <2>. DEFINE b == [k \in 0..m + 1 |-> IF k = m + 1 THEN x ELSE h[k]]
  <2>3. ASSUME NEW k \in 0..m + 1
        PROVE  b[k] = IF k = 0 THEN FixedBytes
                      ELSE b[k - 1] + (IF RoomAt(ps, c, k, b[k - 1]) THEN CostAt(ps, k) ELSE 0)
    <3>1. CASE k = m + 1
      <4>1. b[k - 1] = h[m] /\ k # 0 /\ b[k] = x
        BY <3>1
      <4>. QED  BY <2>2, <3>1, <4>1
    <3>2. CASE k # m + 1
      <4>1. k \in 0..m /\ b[k] = h[k]
        BY <3>2
      <4>2. k # 0 => b[k - 1] = h[k - 1]
        BY <3>2
      <4>3. h[k] = IF k = 0 THEN FixedBytes
                   ELSE h[k - 1] + (IF RoomAt(ps, c, k, h[k - 1]) THEN CostAt(ps, k) ELSE 0)
        BY <2>1, <4>1 DEF Tallies
      <4>. HIDE DEF b
      <4>. QED  BY <4>1, <4>2, <4>3
    <3>. QED  BY <3>1, <3>2
  <2>4. Tallies(b, ps, c, m + 1)
    BY <2>3 DEF Tallies
  <2>. QED  BY <2>4
<1>. HIDE DEF Q
<1>3. Nat \subseteq Q
  BY <1>1, <1>2, NatRule
<1>. QED  BY <1>3 DEF Q

\* The bytes charged after each payee.
Charged(b, ps, c) ==
    /\ \A k \in 0..Len(ps) : b[k] \in Nat /\ FixedBytes <= b[k]
    /\ b[0] = FixedBytes
    /\ \A k \in 1..Len(ps) : k \in Paid(ps, c) <=> RoomAt(ps, c, k, b[k - 1])
    /\ \A k \in 1..Len(ps) : b[k] = b[k - 1] + (IF k \in Paid(ps, c) THEN CostAt(ps, k) ELSE 0)

LEMMA PayeesFacts ==
    ASSUME NEW ps, GoodPayees(ps)
    PROVE  /\ Len(ps) \in Nat /\ DOMAIN ps = 1..Len(ps) /\ IsFiniteSet(1..Len(ps))
           /\ \A k \in 1..Len(ps) : /\ ps[k].worker \in Workers /\ ps[k].sats \in Nat
                                    /\ CostAt(ps, k) \in Nat /\ CostAt(ps, k) > 0
<1>1. Len(ps) \in Nat /\ DOMAIN ps = 1..Len(ps) /\ ps \in [1..Len(ps) -> Payee]
  BY LenProperties DEF GoodPayees
<1>2. IsFiniteSet(1..Len(ps))
  BY <1>1, FS_Interval
<1>3. OutputBytes \in [Workers -> Nat \ {0}]
  BY QueueAssumption
<1>. QED  BY <1>1, <1>2, <1>3 DEF Payee, CostAt

LEMMA FixedFacts ==
    ASSUME setup \in Setups
    PROVE  /\ FixedBytes \in Nat /\ setup.envelope \in Nat /\ setup.guess \in Nat
           /\ setup.ceilings \subseteq Nat /\ setup.ceilings # {}
           /\ ~setup.fromTemplate => FixedBytes = setup.envelope + OperatorReserve
           /\ FixedBytes <= setup.envelope + OperatorReserve
           /\ \A c \in setup.ceilings : \A w \in Workers : FixedBytes + OutputBytes[w] <= c
<1>1. setup \in Setup
  BY QueueAssumption
<1>2. /\ setup.envelope \in Nat /\ setup.guess \in Nat /\ setup.ceilings \in (SUBSET Nat) \ {{}}
      /\ setup.fromTemplate \in BOOLEAN
  BY <1>1 DEF Setup
<1>3. /\ FixedBytes \in {setup.envelope, setup.envelope + OperatorReserve}
      /\ ~setup.fromTemplate => FixedBytes = setup.envelope + OperatorReserve
  BY <1>2 DEF FixedBytes, OperatorReserve
<1>4. ASSUME NEW c \in setup.ceilings, NEW w \in Workers PROVE FixedBytes + OutputBytes[w] <= c
  <2>1. c >= setup.envelope + OperatorReserve + OutputBytes[w]
    BY QueueAssumption
  <2>2. OutputBytes[w] \in Nat /\ c \in Nat
    BY <1>2, QueueAssumption
  <2>. QED  BY <1>2, <1>3, <2>1, <2>2 DEF OperatorReserve
<1>5. FixedBytes \in Nat /\ FixedBytes <= setup.envelope + OperatorReserve
  BY <1>2, <1>3 DEF OperatorReserve
<1>. QED  BY <1>2, <1>3, <1>4, <1>5

LEMMA PaidCharges ==
    ASSUME NEW ps, GoodPayees(ps), setup \in Setups, NEW c
    PROVE  \E b : Charged(b, ps, c)
<1>1. PICK b : b = CHOOSE x : Tallies(x, ps, c, Len(ps))
  OBVIOUS
<1>2. Len(ps) \in Nat /\ DOMAIN ps = 1..Len(ps) /\ \A k \in 1..Len(ps) : CostAt(ps, k) \in Nat
  BY PayeesFacts
<1>3. Tallies(b, ps, c, Len(ps))
  BY <1>1, <1>2, CountsExist
<1>4. \A k \in 1..Len(ps) : k \in Paid(ps, c) <=> RoomAt(ps, c, k, b[k - 1])
  BY <1>1, <1>2, PaidIs
<1>5. b[0] = FixedBytes
  BY <1>2, <1>3 DEF Tallies
<1>6. \A k \in 1..Len(ps) : b[k] = b[k - 1] + (IF k \in Paid(ps, c) THEN CostAt(ps, k) ELSE 0)
  <2>1. SUFFICES ASSUME NEW k \in 1..Len(ps)
                 PROVE  b[k] = b[k - 1] + (IF k \in Paid(ps, c) THEN CostAt(ps, k) ELSE 0)
    OBVIOUS
  <2>2. k \in 0..Len(ps) /\ k # 0
    BY <1>2
  <2>3. b[k] = b[k - 1] + (IF RoomAt(ps, c, k, b[k - 1]) THEN CostAt(ps, k) ELSE 0)
    BY <1>3, <2>2 DEF Tallies
  <2>. QED  BY <1>4, <2>3
<1>. DEFINE Q == {k \in Nat : k \in 0..Len(ps) => b[k] \in Nat /\ FixedBytes <= b[k]}
<1>7. 0 \in Q
  BY <1>5, FixedFacts
<1>8. ASSUME NEW k \in Nat, k \in Q PROVE k + 1 \in Q
  <2>1. SUFFICES ASSUME k + 1 \in 0..Len(ps) PROVE b[k + 1] \in Nat /\ FixedBytes <= b[k + 1]
    OBVIOUS
  <2>2. k \in 0..Len(ps) /\ k + 1 \in 1..Len(ps) /\ (k + 1) - 1 = k
    BY <1>2, <2>1
  <2>3. b[k + 1] = b[k] + (IF k + 1 \in Paid(ps, c) THEN CostAt(ps, k + 1) ELSE 0)
    BY <1>6, <2>2
  <2>4. b[k] \in Nat /\ FixedBytes <= b[k] /\ FixedBytes \in Nat
    BY <1>8, <2>2, FixedFacts
  <2>5. CostAt(ps, k + 1) \in Nat
    BY <1>2, <2>2
  <2>. QED  BY <2>3, <2>4, <2>5
<1>. HIDE DEF Q
<1>9. Nat \subseteq Q
  BY <1>7, <1>8, NatRule
<1>10. \A k \in 0..Len(ps) : b[k] \in Nat /\ FixedBytes <= b[k]
  BY <1>2, <1>9 DEF Q
<1>. QED  BY <1>4, <1>5, <1>6, <1>10 DEF Charged

LEMMA FloorFacts == PayoutFloor \in Nat /\ PayoutFloor > 0
<1>1. Floor \in Nat \ {0} /\ Dust \in Nat \ {0}
  BY QueueAssumption
<1>2. IsFiniteSet({Floor, Dust})
  <2>1. IsFiniteSet({Floor}) /\ {Floor, Dust} = {Floor} \cup {Dust}
    BY FS_Singleton
  <2>. QED  BY <2>1, FS_AddElement
<1>3. PICK S : S = {Floor, Dust}
  OBVIOUS
<1>4. IsFiniteSet(S) /\ S # {} /\ S \subseteq Int
  BY <1>1, <1>2, <1>3
<1>5. Max(S) \in S
  BY <1>4, MaxIs
<1>. QED  BY <1>1, <1>3, <1>5 DEF PayoutFloor

LEMMA PaidFacts ==
    ASSUME NEW ps, GoodPayees(ps), NEW c
    PROVE  /\ Paid(ps, c) \subseteq 1..Len(ps) /\ IsFiniteSet(Paid(ps, c))
           /\ \A k \in Paid(ps, c) : ps[k].sats >= PayoutFloor /\ ps[k].sats > 0
<1>1. Paid(ps, c) \subseteq 1..Len(ps)
  BY PayeesFacts, PaidIs
<1>2. IsFiniteSet(Paid(ps, c))
  BY <1>1, PayeesFacts, FS_Subset
<1>3. \A k \in Paid(ps, c) : ps[k].sats >= PayoutFloor
  BY PaidIs DEF RoomAt
<1>4. \A k \in Paid(ps, c) : ps[k].sats \in Nat
  BY <1>1, PayeesFacts
<1>. QED  BY <1>1, <1>2, <1>3, <1>4, FloorFacts

\* The walk keeps within the ceiling and charges what it pays out for.
LEMMA ChargedWithin ==
    ASSUME NEW ps, GoodPayees(ps), setup \in Setups, NEW c \in Nat, FixedBytes <= c,
           NEW b, Charged(b, ps, c), NEW n \in 0..Len(ps)
    PROVE  b[n] <= c
<1>1. Len(ps) \in Nat /\ \A k \in 1..Len(ps) : CostAt(ps, k) \in Nat
  BY PayeesFacts
<1>. DEFINE Q == {k \in Nat : k \in 0..Len(ps) => b[k] <= c}
<1>2. 0 \in Q
  BY DEF Charged
<1>3. ASSUME NEW k \in Nat, k \in Q PROVE k + 1 \in Q
  <2>1. SUFFICES ASSUME k + 1 \in 0..Len(ps) PROVE b[k + 1] <= c
    OBVIOUS
  <2>2. k \in 0..Len(ps) /\ k + 1 \in 1..Len(ps) /\ (k + 1) - 1 = k
    BY <1>1, <2>1
  <2>3. b[k + 1] = b[k] + (IF k + 1 \in Paid(ps, c) THEN CostAt(ps, k + 1) ELSE 0)
    BY <2>2 DEF Charged
  <2>4. k + 1 \in Paid(ps, c) => b[k] + CostAt(ps, k + 1) <= c
    BY <2>2 DEF Charged, RoomAt
  <2>5. b[k] <= c /\ b[k] \in Nat
    BY <1>3, <2>2 DEF Charged
  <2>. QED  BY <2>3, <2>4, <2>5
<1>. HIDE DEF Q
<1>4. Nat \subseteq Q
  BY <1>2, <1>3, NatRule
<1>. QED  BY <1>1, <1>4 DEF Q

LEMMA ChargedSum ==
    ASSUME NEW ps, GoodPayees(ps), setup \in Setups, NEW c,
           NEW b, Charged(b, ps, c), NEW f, \A k \in 1..Len(ps) : f[k] = CostAt(ps, k)
    PROVE  SumFunctionOnSet(f, Paid(ps, c)) = b[Len(ps)] - FixedBytes
<1>. DEFINE P(k) == Paid(ps, c) \cap (1..k)
            Q == {k \in Nat : k \in 0..Len(ps) => SumFunctionOnSet(f, P(k)) = b[k] - FixedBytes}
<1>1. Len(ps) \in Nat /\ (\A k \in 1..Len(ps) : CostAt(ps, k) \in Nat) /\ FixedBytes \in Nat
  BY PayeesFacts, FixedFacts
<1>2. 0 \in Q
  <2>1. P(0) = {}
    OBVIOUS
  <2>2. b[0] = FixedBytes
    BY DEF Charged
  <2>. QED  BY <1>1, <2>1, <2>2, SumEmpty
<1>3. ASSUME NEW k \in Nat, k \in Q PROVE k + 1 \in Q
  <2>1. SUFFICES ASSUME k + 1 \in 0..Len(ps) PROVE SumFunctionOnSet(f, P(k + 1)) = b[k + 1] - FixedBytes
    OBVIOUS
  <2>2. k \in 0..Len(ps) /\ k + 1 \in 1..Len(ps) /\ (k + 1) - 1 = k
    BY <1>1, <2>1
  <2>3. b[k + 1] = b[k] + (IF k + 1 \in Paid(ps, c) THEN CostAt(ps, k + 1) ELSE 0)
    BY <2>2 DEF Charged
  <2>4. SumFunctionOnSet(f, P(k)) = b[k] - FixedBytes /\ b[k] \in Nat
    BY <1>3, <2>2 DEF Charged
  <2>5. CASE k + 1 \notin Paid(ps, c)
    <3>1. P(k + 1) = P(k)
      BY <2>5
    <3>2. b[k + 1] = b[k] + 0
      BY <2>3, <2>5
    <3>3. b[k + 1] = b[k]
      BY <2>4, <3>2
    <3>. HIDE DEF P
    <3>. QED  BY <2>4, <3>1, <3>3
  <2>6. CASE k + 1 \in Paid(ps, c)
    <3>1. P(k + 1) = P(k) \cup {k + 1} /\ k + 1 \notin P(k)
      BY <2>6
    <3>2. IsFiniteSet(P(k)) /\ P(k) \cup {k + 1} \subseteq 1..Len(ps)
      <4>1. P(k) \subseteq Paid(ps, c) /\ P(k) \subseteq 1..Len(ps)
        BY PaidFacts
      <4>. QED  BY <2>2, <4>1, PaidFacts, FS_Subset
    <3>3. \A x \in P(k) \cup {k + 1} : f[x] \in Int
      BY <1>1, <3>2
    <3>. HIDE DEF P
    <3>4. SumFunctionOnSet(f, P(k) \cup {k + 1}) = f[k + 1] + SumFunctionOnSet(f, P(k))
      BY <3>1, <3>2, <3>3, SumAdd
    <3>5. f[k + 1] = CostAt(ps, k + 1) /\ CostAt(ps, k + 1) \in Nat
      BY <1>1, <2>2
    <3>6. b[k + 1] = b[k] + CostAt(ps, k + 1)
      BY <2>3, <2>6
    <3>7. PICK x, y : x = SumFunctionOnSet(f, P(k)) /\ y = SumFunctionOnSet(f, P(k + 1))
      OBVIOUS
    <3>8. y = f[k + 1] + x /\ x = b[k] - FixedBytes
      BY <2>4, <3>1, <3>4, <3>7
    <3>9. y = b[k + 1] - FixedBytes
      BY <1>1, <2>4, <3>5, <3>6, <3>8
    <3>. QED  BY <3>7, <3>9
  <2>. QED  BY <2>5, <2>6
<1>. HIDE DEF Q
<1>4. Nat \subseteq Q
  BY <1>2, <1>3, NatRule
<1>5. SumFunctionOnSet(f, P(Len(ps))) = b[Len(ps)] - FixedBytes
  BY <1>1, <1>4 DEF Q
<1>6. P(Len(ps)) = Paid(ps, c)
  BY PaidFacts
<1>. QED  BY <1>5, <1>6

\* Whoever clears the floor first finds the coinbase empty.
LEMMA SomeonePaid ==
    ASSUME NEW ps, GoodPayees(ps), setup \in Setups, NEW c \in setup.ceilings,
           \E k \in DOMAIN ps : ps[k].sats >= PayoutFloor
    PROVE  Paid(ps, c) # {}
<1>1. PICK b : Charged(b, ps, c)
  BY PaidCharges
<1>2. Len(ps) \in Nat /\ DOMAIN ps = 1..Len(ps)
  BY PayeesFacts
<1>3. PICK F : F = {k \in 1..Len(ps) : ps[k].sats >= PayoutFloor}
  OBVIOUS
<1>4. F \in SUBSET Nat /\ F # {}
  BY <1>2, <1>3
<1>5. PICK k \in F : \A m \in F : k <= m
  BY <1>4, LeastNat
<1>6. k \in 1..Len(ps) /\ ps[k].sats >= PayoutFloor
  BY <1>3
<1>. DEFINE Q == {n \in Nat : n \in 0..k - 1 => b[n] = FixedBytes}
<1>7. 0 \in Q
  BY <1>1 DEF Charged
<1>8. ASSUME NEW n \in Nat, n \in Q PROVE n + 1 \in Q
  <2>1. SUFFICES ASSUME n + 1 \in 0..k - 1 PROVE b[n + 1] = FixedBytes
    OBVIOUS
  <2>2. n \in 0..k - 1 /\ n + 1 \in 1..Len(ps) /\ (n + 1) - 1 = n /\ ~(k <= n + 1)
    BY <1>2, <1>6, <2>1
  <2>3. n + 1 \notin F
    BY <1>5, <2>2
  <2>4. n + 1 \notin Paid(ps, c)
    BY <1>3, <2>2, <2>3, PaidFacts
  <2>5. b[n + 1] = b[n] + 0
    BY <1>1, <2>2, <2>4 DEF Charged
  <2>6. b[n] = FixedBytes /\ FixedBytes \in Nat
    BY <1>8, <2>2, FixedFacts
  <2>. QED  BY <2>5, <2>6
<1>. HIDE DEF Q
<1>9. Nat \subseteq Q
  BY <1>7, <1>8, NatRule
<1>10. k - 1 \in Nat /\ k - 1 \in 0..k - 1
  BY <1>2, <1>6
<1>11. b[k - 1] = FixedBytes
  BY <1>9, <1>10 DEF Q
<1>12. FixedBytes + CostAt(ps, k) <= c
  <2>1. ps[k].worker \in Workers
    BY <1>6, PayeesFacts
  <2>. QED  BY <2>1, FixedFacts DEF CostAt
<1>13. RoomAt(ps, c, k, b[k - 1])
  BY <1>6, <1>11, <1>12 DEF RoomAt
<1>14. k \in Paid(ps, c)
  BY <1>1, <1>6, <1>13 DEF Charged
<1>. QED  BY <1>14

-----------------------------------------------------------------------------
(* The outputs. *)

SatsOf(ps) == [k \in DOMAIN ps |-> ps[k].sats]

LEMMA ClaimedFacts ==
    ASSUME NEW ps, GoodPayees(ps), NEW A \in SUBSET (1..Len(ps))
    PROVE  /\ Claimed(ps, A) = SumFunctionOnSet(SatsOf(ps), A)
           /\ \A k \in 1..Len(ps) : SatsOf(ps)[k] = ps[k].sats /\ ps[k].sats \in Nat
           /\ Claimed(ps, A) \in Nat
           /\ Claimed(ps, A) <= Claimed(ps, 1..Len(ps))
           /\ Claimed(ps, 1..Len(ps)) \in Nat
           /\ \A k \in A : ps[k].sats <= Claimed(ps, A)
<1>1. DOMAIN ps = 1..Len(ps) /\ IsFiniteSet(1..Len(ps)) /\ \A k \in 1..Len(ps) : ps[k].sats \in Nat
  BY PayeesFacts
<1>2. PICK f, D : f = SatsOf(ps) /\ D = 1..Len(ps)
  OBVIOUS
<1>3. \A k \in D : f[k] = ps[k].sats /\ f[k] \in Nat
  BY <1>1, <1>2 DEF SatsOf
<1>4. IsFiniteSet(A)
  BY <1>1, FS_Subset
<1>5. /\ SumFunctionOnSet(f, A) \in Nat /\ SumFunctionOnSet(f, D) \in Nat
      /\ SumFunctionOnSet(f, A) <= SumFunctionOnSet(f, D)
  BY <1>1, <1>2, <1>3, SumPart
<1>6. \A k \in A : f[k] <= SumFunctionOnSet(f, A)
  <2>1. \A k \in A : f[k] \in Nat
    BY <1>2, <1>3
  <2>. QED  BY <1>4, <2>1, SumNat
<1>7. Claimed(ps, A) = SumFunctionOnSet(f, A) /\ Claimed(ps, 1..Len(ps)) = SumFunctionOnSet(f, D)
  BY <1>2 DEF Claimed, Sum, SatsOf
<1>. QED  BY <1>1, <1>2, <1>3, <1>5, <1>6, <1>7

\* A finite set has a first member that is largest by f.
LEMMA FirstLargest ==
    ASSUME NEW S, IsFiniteSet(S), S # {}, S \subseteq Nat, NEW f, \A x \in S : f[x] \in Nat
    PROVE  \E k \in S : \A j \in S : f[j] < f[k] \/ (f[j] = f[k] /\ k <= j)
<1>. DEFINE Q == {s \in SUBSET S : s # {} => \E k \in s : \A j \in s : f[j] < f[k] \/ (f[j] = f[k] /\ k <= j)}
<1>1. {} \in Q
  OBVIOUS
<1>2. ASSUME NEW s \in SUBSET S, NEW y \in S \ s, s \in Q PROVE s \cup {y} \in Q
  <2>1. CASE s = {}
    <3>1. \A j \in s \cup {y} : f[j] < f[y] \/ (f[j] = f[y] /\ y <= j)
      BY <2>1
    <3>. QED  BY <3>1
  <2>2. CASE s # {}
    <3>1. PICK k \in s : \A j \in s : f[j] < f[k] \/ (f[j] = f[k] /\ k <= j)
      BY <1>2, <2>2
    <3>2. k \in Nat /\ y \in Nat /\ f[k] \in Nat /\ f[y] \in Nat /\ \A j \in s : j \in Nat /\ f[j] \in Nat
      OBVIOUS
    <3>3. CASE f[y] < f[k] \/ (f[y] = f[k] /\ k <= y)
      <4>1. \A j \in s \cup {y} : f[j] < f[k] \/ (f[j] = f[k] /\ k <= j)
        BY <3>1, <3>3
      <4>. QED  BY <4>1
    <3>4. CASE ~(f[y] < f[k] \/ (f[y] = f[k] /\ k <= y))
      <4>1. \A j \in s \cup {y} : f[j] < f[y] \/ (f[j] = f[y] /\ y <= j)
        BY <3>1, <3>2, <3>4
      <4>. QED  BY <4>1
    <3>. QED  BY <3>3, <3>4
  <2>. QED  BY <2>1, <2>2
<1>. HIDE DEF Q
<1>3. S \in Q
  BY <1>1, <1>2, SetRule
<1>. QED  BY <1>3 DEF Q

Largest(P, scaled) ==
    CHOOSE k \in P : \A j \in P : scaled[j] < scaled[k] \/ (scaled[j] = scaled[k] /\ k <= j)

LEMMA OutputsIs ==
    ASSUME NEW ps, NEW c
    PROVE  LET paid    == Paid(ps, c)
               payable == Claimed(ps, DOMAIN ps)
               own     == Claimed(ps, paid)
               scaled  == [k \in paid |-> (payable * ps[k].sats) \div own]
           IN  Outputs(ps, c) =
                 IF own = payable
                 THEN [k \in paid |-> ps[k].sats]
                 ELSE [scaled EXCEPT ![Largest(paid, scaled)] = @ + payable - SumFunctionOnSet(scaled, paid)]
BY DEF Outputs, Largest, Sum

\* Each output is its claim scaled up to the whole, one may carry the remainder;
\* together they pay out what is payable.
LEMMA OutputsFacts ==
    ASSUME NEW ps, GoodPayees(ps), NEW c, Paid(ps, c) # {}
    PROVE  LET P     == Paid(ps, c)
               total == Claimed(ps, 1..Len(ps))
               own   == Claimed(ps, P)
               outs  == Outputs(ps, c)
           IN  /\ total \in Nat /\ own \in Nat /\ own > 0 /\ own <= total
               /\ DOMAIN outs = P
               /\ SumFunctionOnSet(outs, P) = total
               /\ \E l : \A k \in P :
                     /\ outs[k] \in Nat
                     /\ outs[k] >= (total * ps[k].sats) \div own
                     /\ k # l => outs[k] = (total * ps[k].sats) \div own
<1>1. PICK P, total, own, outs :
         /\ P = Paid(ps, c) /\ total = Claimed(ps, 1..Len(ps))
         /\ own = Claimed(ps, P) /\ outs = Outputs(ps, c)
  OBVIOUS
<1>2. /\ P \subseteq 1..Len(ps) /\ IsFiniteSet(P) /\ P # {}
      /\ (\A k \in P : ps[k].sats \in Nat /\ ps[k].sats > 0) /\ P \subseteq Nat
      /\ DOMAIN ps = 1..Len(ps)
  BY <1>1, PaidFacts, PayeesFacts
<1>3. total \in Nat /\ own \in Nat /\ own > 0 /\ own <= total
  <2>1. PICK k : k \in P
    BY <1>2
  <2>2. own \in Nat /\ own <= total /\ total \in Nat /\ ps[k].sats <= own
    BY <1>1, <1>2, <2>1, ClaimedFacts
  <2>. QED  BY <1>2, <2>1, <2>2
<1>4. PICK f : f = SatsOf(ps)
  OBVIOUS
<1>5. own = SumFunctionOnSet(f, P) /\ \A k \in P : f[k] = ps[k].sats /\ f[k] \in Nat
  BY <1>1, <1>2, <1>4, ClaimedFacts
<1>6. PICK scaled : scaled = [k \in P |-> (total * ps[k].sats) \div own]
  OBVIOUS
<1>7. \A k \in P : /\ total * ps[k].sats \in Nat
                   /\ scaled[k] = (total * ps[k].sats) \div own
                   /\ scaled[k] \in Nat /\ scaled[k] * own <= total * ps[k].sats
  <2>1. SUFFICES ASSUME NEW k \in P
                 PROVE  /\ total * ps[k].sats \in Nat
                        /\ scaled[k] = (total * ps[k].sats) \div own
                        /\ scaled[k] \in Nat /\ scaled[k] * own <= total * ps[k].sats
    OBVIOUS
  <2>2. PICK a : a = total * ps[k].sats
    OBVIOUS
  <2>3. a \in Nat
    BY <1>2, <1>3, <2>2
  <2>4. scaled[k] = a \div own
    BY <1>6, <2>2
  <2>. QED  BY <1>3, <2>2, <2>3, <2>4, DivFacts
<1>8. CASE own = total
  <2>1. outs = [k \in P |-> ps[k].sats]
    BY <1>1, <1>2, <1>8, OutputsIs
  <2>2. ASSUME NEW k \in P PROVE ps[k].sats = (total * ps[k].sats) \div own
    <3>1. PICK s : s = ps[k].sats
      OBVIOUS
    <3>2. s \in Nat
      BY <1>2, <3>1
    <3>3. (total * s) \div total = s
      BY <1>3, <1>8, <3>2
    <3>. QED  BY <1>8, <3>1, <3>3
  <2>3. \A k \in P : outs[k] \in Nat /\ outs[k] >= (total * ps[k].sats) \div own
                     /\ outs[k] = (total * ps[k].sats) \div own
    BY <1>2, <2>1, <2>2
  <2>4. SumFunctionOnSet(outs, P) = total
    <3>1. \A k \in P : f[k] \in Int /\ outs[k] = f[k]
      BY <1>5, <2>1
    <3>2. SumFunctionOnSet(f, P) = SumFunctionOnSet(outs, P)
      BY <1>2, <3>1, SumSame
    <3>. QED  BY <1>5, <1>8, <3>2
  <2>5. DOMAIN outs = P
    BY <2>1
  <2>. QED  BY <1>1, <1>3, <2>3, <2>4, <2>5
<1>9. CASE own # total
  <2>1. PICK l : l = Largest(P, scaled)
    OBVIOUS
  <2>2. l \in P
    <3>1. \E k \in P : \A j \in P : scaled[j] < scaled[k] \/ (scaled[j] = scaled[k] /\ k <= j)
      BY <1>2, <1>7, FirstLargest
    <3>. QED  BY <2>1, <3>1 DEF Largest
  <2>3. PICK T : T = SumFunctionOnSet(scaled, P)
    OBVIOUS
  <2>4. outs = [scaled EXCEPT ![l] = @ + total - T]
    BY <1>1, <1>2, <1>6, <1>9, <2>1, <2>3, OutputsIs
  <2>5. T \in Nat /\ T <= total
    <3>1. T \in Nat
      BY <1>2, <1>7, <2>3, SumNat
    <3>2. PICK back, gross : back = [k \in P |-> scaled[k] * own] /\ gross = [k \in P |-> f[k] * total]
      OBVIOUS
    <3>3. \A k \in P : scaled[k] \in Int /\ back[k] = scaled[k] * own
      BY <1>7, <3>2
    <3>4. \A k \in P : f[k] \in Int /\ gross[k] = f[k] * total
      BY <1>5, <3>2
    <3>5. SumFunctionOnSet(back, P) = T * own
      BY <1>2, <1>3, <2>3, <3>3, SumTimes
    <3>6. SumFunctionOnSet(gross, P) = own * total
      <4>1. IsFiniteSet(P) /\ total \in Int
        BY <1>2, <1>3
      <4>2. SumFunctionOnSet(gross, P) = SumFunctionOnSet(f, P) * total
        BY ONLY <3>4, <4>1, SumTimes
      <4>. QED  BY <1>5, <4>2
    <3>7. \A k \in P : back[k] \in Int /\ gross[k] \in Int /\ back[k] <= gross[k]
      <4>1. SUFFICES ASSUME NEW k \in P PROVE back[k] \in Int /\ gross[k] \in Int /\ back[k] <= gross[k]
        OBVIOUS
      <4>2. back[k] \in Int /\ back[k] <= total * ps[k].sats
        BY <1>3, <1>7, <3>3
      <4>3. total * f[k] = f[k] * total /\ f[k] * total \in Int
        BY <1>3, <1>5
      <4>4. gross[k] = total * ps[k].sats /\ gross[k] \in Int
        BY <1>5, <3>4, <4>3
      <4>. QED  BY <4>2, <4>4
    <3>8. SumFunctionOnSet(back, P) <= SumFunctionOnSet(gross, P)
      BY <1>2, <3>7, SumLe
    <3>9. T * own <= total * own
      BY <1>3, <3>1, <3>5, <3>6, <3>8
    <3>. QED  BY <1>3, <3>1, <3>9, TimesCancel
  <2>6. /\ DOMAIN outs = P /\ outs[l] = scaled[l] + total - T
        /\ \A k \in P : k # l => outs[k] = scaled[k]
    BY <1>6, <2>2, <2>4
  <2>7. \A k \in P : outs[k] \in Nat /\ outs[k] >= scaled[k]
    BY <1>3, <1>7, <2>2, <2>5, <2>6
  <2>8. SumFunctionOnSet(outs, P) = total
    <3>1. PICK U : U = P \ {l}
      OBVIOUS
    <3>2. IsFiniteSet(U) /\ U \subseteq P
      BY <1>2, <3>1, FS_Subset
    <3>8. (\A k \in P : outs[k] \in Int) /\ \A k \in P : scaled[k] \in Int
      BY <1>7, <2>7
    <3>3. SumFunctionOnSet(outs, P) = outs[l] + SumFunctionOnSet(outs, U)
      BY <1>2, <2>2, <3>8, <3>1, SumTake
    <3>4. SumFunctionOnSet(scaled, P) = scaled[l] + SumFunctionOnSet(scaled, U)
      BY <1>2, <2>2, <3>8, <3>1, SumTake
    <3>5. SumFunctionOnSet(outs, U) = SumFunctionOnSet(scaled, U)
      <4>1. \A k \in U : scaled[k] \in Int /\ outs[k] = scaled[k]
        BY <1>7, <2>6, <3>1
      <4>. QED  BY <3>2, <4>1, SumSame
    <3>6. SumFunctionOnSet(scaled, U) \in Int
      BY <1>7, <3>2, SumType
    <3>7. scaled[l] \in Nat
      BY <1>7, <2>2
    <3>. QED  BY <1>3, <2>3, <2>5, <2>6, <3>3, <3>4, <3>5, <3>6, <3>7
  <2>9. \A k \in P : /\ outs[k] \in Nat
                     /\ outs[k] >= (total * ps[k].sats) \div own
                     /\ k # l => outs[k] = (total * ps[k].sats) \div own
    BY <1>7, <2>6, <2>7
  <2>. QED  BY <1>1, <1>3, <2>6, <2>8, <2>9
<1>. QED  BY <1>8, <1>9

-----------------------------------------------------------------------------
(* The deltas. *)

\* What a worker gained or lost in a block, in the queue's unit.
LEMMA DeltasFacts ==
    ASSUME NEW ps, GoodPayees(ps), NEW c, Paid(ps, c) # {}
    PROVE  LET P     == Paid(ps, c)
               total == Claimed(ps, 1..Len(ps))
               own   == Claimed(ps, P)
               d     == Deltas(ps, c)
           IN  /\ d \in [Workers -> Int]
               /\ \A k \in 1..Len(ps) :
                    d[ps[k].worker] = ps[k].sats * (Unit \div total)
                                        - (IF k \in P THEN ps[k].sats * (Unit \div own) ELSE 0)
<1>1. PICK P, total, own, d, whole, part :
         /\ P = Paid(ps, c) /\ total = Claimed(ps, 1..Len(ps))
         /\ own = Claimed(ps, P) /\ d = Deltas(ps, c)
         /\ whole = Unit \div total /\ part = Unit \div own
  OBVIOUS
<1>2. total \in Nat /\ own \in Nat /\ own > 0 /\ total > 0
  BY <1>1, OutputsFacts
<1>3. whole \in Nat /\ part \in Nat
  <2>1. Unit \in Nat
    BY QueueAssumption
  <2>. QED  BY <1>1, <1>2, <2>1, DivFacts
<1>4. DOMAIN ps = 1..Len(ps) /\ P \subseteq 1..Len(ps)
  BY <1>1, PayeesFacts, PaidFacts
<1>. DEFINE at(w) == {k \in 1..Len(ps) : ps[k].worker = w}
<1>5. d = [w \in Workers |-> Claimed(ps, at(w)) * whole - Claimed(ps, at(w) \cap P) * part]
  BY <1>1, <1>4 DEF Deltas, WasPaid
<1>6. \A w \in Workers : Claimed(ps, at(w)) \in Nat /\ Claimed(ps, at(w) \cap P) \in Nat
  <2>1. SUFFICES ASSUME NEW w \in Workers
                 PROVE  Claimed(ps, at(w)) \in Nat /\ Claimed(ps, at(w) \cap P) \in Nat
    OBVIOUS
  <2>2. at(w) \in SUBSET (1..Len(ps)) /\ at(w) \cap P \in SUBSET (1..Len(ps))
    OBVIOUS
  <2>. HIDE DEF at
  <2>. QED  BY <2>2, ClaimedFacts
<1>7. d \in [Workers -> Int]
  <2>1. ASSUME NEW w \in Workers PROVE d[w] \in Int
    <3>1. PICK x, y : x = Claimed(ps, at(w)) /\ y = Claimed(ps, at(w) \cap P)
      OBVIOUS
    <3>2. x \in Nat /\ y \in Nat
      BY <1>6, <3>1
    <3>3. d[w] = x * whole - y * part
      BY <1>5, <3>1
    <3>. QED  BY <1>3, <3>2, <3>3
  <2>. QED  BY <1>5, <2>1
<1>8. ASSUME NEW k \in 1..Len(ps)
      PROVE  d[ps[k].worker] = ps[k].sats * whole - (IF k \in P THEN ps[k].sats * part ELSE 0)
  <2>1. PICK w \in Workers : w = ps[k].worker
    BY PayeesFacts
  <2>2. at(w) = {k}
    BY <1>4, <2>1 DEF GoodPayees
  <2>3. Claimed(ps, {k}) = ps[k].sats /\ ps[k].sats \in Nat
    <3>1. PICK f : f = SatsOf(ps)
      OBVIOUS
    <3>2. f[k] = ps[k].sats /\ ps[k].sats \in Nat /\ Claimed(ps, {k}) = SumFunctionOnSet(f, {k})
      BY <3>1, ClaimedFacts
    <3>3. SumFunctionOnSet(f, {} \cup {k}) = f[k] + SumFunctionOnSet(f, {})
      <4>1. \A x \in {} \cup {k} : f[x] \in Int
        BY <3>2
      <4>. QED  BY <4>1, FS_EmptySet, SumAdd
    <3>4. {} \cup {k} = {k}
      OBVIOUS
    <3>. QED  BY <3>2, <3>3, <3>4, SumEmpty
  <2>4. Claimed(ps, {}) = 0
    BY SumEmpty DEF Claimed, Sum
  <2>5. d[w] = Claimed(ps, at(w)) * whole - Claimed(ps, at(w) \cap P) * part
    BY <1>5
  <2>6. at(w) \cap P = IF k \in P THEN {k} ELSE {}
    BY <2>2
  <2>7. Claimed(ps, at(w)) = ps[k].sats
    BY <2>2, <2>3
  <2>8. Claimed(ps, at(w) \cap P) = IF k \in P THEN ps[k].sats ELSE 0
    BY <2>3, <2>4, <2>6
  <2>. HIDE DEF at
  <2>9. CASE k \in P
    BY <2>1, <2>5, <2>7, <2>8, <2>9
  <2>10. CASE k \notin P
    <3>1. Claimed(ps, at(w) \cap P) * part = 0
      BY <1>3, <2>8, <2>10
    <3>. QED  BY <2>1, <2>5, <2>7, <3>1, <2>10
  <2>. QED  BY <2>9, <2>10
<1>. QED  BY <1>1, <1>7, <1>8

-----------------------------------------------------------------------------
(* The invariant. *)

JobRecord == [payees : Seq(Payee), value : Nat]
BlockRecord == [job : JobRecord, ceiling : Nat,
                status : {"none", "pending", "confirmed", "orphaned"}, inTurn : BOOLEAN]

QueueType ==
    /\ setup \in Setups
    /\ job \in JobRecord
    /\ block \in [Hashes -> BlockRecord]
    /\ staged \in [Hashes -> [Workers -> Int]]
    /\ owed \in [Workers -> Int]

JobInv == job # NoWindow => GoodJob(job)

\* What is staged are the deltas of a good job, under the ceiling it was found.
StagedInv ==
    \A b \in Hashes : staged[b] # NoDeltas =>
        /\ GoodJob(block[b].job)
        /\ block[b].ceiling \in setup.ceilings
        /\ staged[b] = Deltas(block[b].job.payees, block[b].ceiling)

QueueInv == QueueType /\ JobInv /\ StagedInv /\ QueueBalances

\* The walk, with all it depends on made explicit: nothing but the setup.
PaidUnder(fixed, ps, c) ==
    {k \in DOMAIN ps :
       RoomAt(ps, c, k,
         (CHOOSE b : b = [i \in 0..Len(ps) |->
              IF i = 0 THEN fixed
              ELSE b[i - 1] + (IF RoomAt(ps, c, i, b[i - 1]) THEN CostAt(ps, i) ELSE 0)])[k - 1])}

LEMMA PaidStays ==
    ASSUME setup' = setup, NEW CONSTANT ps, NEW CONSTANT c
    PROVE  Paid(ps, c)' = Paid(ps, c)
<1>1. FixedBytes' = FixedBytes
  BY DEF FixedBytes
<1>2. Paid(ps, c) = PaidUnder(FixedBytes, ps, c)
  BY DEF Paid, PaidUnder, RoomAt, CostAt
<1>3. Paid(ps, c)' = PaidUnder(FixedBytes', ps, c)
  BY DEF Paid, PaidUnder, RoomAt, CostAt
<1>. QED  BY <1>1, <1>2, <1>3

LEMMA DeltasStay ==
    ASSUME setup' = setup, NEW CONSTANT ps, NEW CONSTANT c
    PROVE  Deltas(ps, c)' = Deltas(ps, c)
<1>1. Paid(ps, c)' = Paid(ps, c)
  BY PaidStays
<1>. QED  BY <1>1 DEF Deltas, WasPaid, Claimed, Sum

LEMMA NoneFacts ==
    /\ NoWindow \in JobRecord /\ NoBlock \in BlockRecord /\ NoDeltas \in [Workers -> Int]
    /\ SumFunctionOnSet(NoDeltas, Workers) = 0
    /\ IsFiniteSet(Workers) /\ IsFiniteSet(Hashes)
<1>1. IsFiniteSet(Workers) /\ IsFiniteSet(Hashes)
  BY QueueAssumption
<1>2. NoDeltas \in [Workers -> Int] /\ \A w \in Workers : NoDeltas[w] = 0
  BY DEF NoDeltas
<1>3. SumFunctionOnSet(NoDeltas, Workers) = 0
  BY <1>1, <1>2, SumZero
<1>4. NoWindow \in JobRecord
  <2>1. <<>> \in Seq(Payee)
    BY EmptySeq
  <2>. QED  BY <2>1 DEF NoWindow, JobRecord
<1>5. NoBlock \in BlockRecord
  BY <1>4 DEF NoBlock, BlockRecord
<1>. QED  BY <1>1, <1>2, <1>3, <1>4, <1>5

LEMMA QueueInit == Init => QueueInv
<1>. SUFFICES ASSUME Init PROVE QueueInv
  OBVIOUS
<1>1. QueueType
  BY NoneFacts DEF Init, QueueType
<1>2. JobInv /\ StagedInv
  BY DEF Init, JobInv, StagedInv
<1>3. QueueBalances
  BY NoneFacts DEF Init, QueueBalances, Sum
<1>. QED  BY <1>1, <1>2, <1>3 DEF QueueInv

\* A row is dropped or stays with its block.
LEMMA StagedStays ==
    ASSUME StagedInv, setup' = setup,
           \A b \in Hashes : \/ staged'[b] = NoDeltas
                             \/ /\ staged'[b] = staged[b] /\ block'[b].job = block[b].job
                                /\ block'[b].ceiling = block[b].ceiling
    PROVE  StagedInv'
<1>1. SUFFICES ASSUME NEW b \in Hashes, staged'[b] # NoDeltas
               PROVE  /\ GoodJob(block'[b].job)
                      /\ block'[b].ceiling \in setup'.ceilings
                      /\ staged'[b] = Deltas(block[b].job.payees, block[b].ceiling)'
  BY DEF StagedInv
<1>2. /\ staged'[b] = staged[b] /\ block'[b].job = block[b].job
      /\ block'[b].ceiling = block[b].ceiling
  BY <1>1
<1>3. GoodJob(block[b].job) /\ block[b].ceiling \in setup.ceilings
      /\ staged[b] = Deltas(block[b].job.payees, block[b].ceiling)
  BY <1>1, <1>2 DEF StagedInv
<1>4. PICK ps, c : ps = block[b].job.payees /\ c = block[b].ceiling
  OBVIOUS
<1>5. Deltas(ps, c)' = Deltas(ps, c)
  BY DeltasStay
<1>6. ps = block'[b].job.payees /\ c = block'[b].ceiling
  BY <1>2, <1>4
<1>7. Deltas(block[b].job.payees, block[b].ceiling)' = Deltas(ps, c)'
  BY <1>6
<1>. QED  BY <1>2, <1>3, <1>4, <1>5, <1>7

LEMMA TemplateStep ==
    ASSUME QueueInv, NEW win \in Windows, NEW value \in Rewards, NewTemplate(win, value)
    PROVE  QueueInv'
<1>1. QueueType /\ StagedInv /\ QueueBalances
  BY DEF QueueInv
<1>2. UNCHANGED <<setup, block, staged, owed>>
  BY DEF NewTemplate
<1>3. StagedInv'
  BY <1>1, <1>2, StagedStays
<1>4. QueueBalances'
  BY <1>1, <1>2 DEF QueueBalances
<1>5. job' = NoWindow \/ (GoodJob(job') /\ job' \in JobRecord)
  <2>1. CASE job' = NoWindow
    BY <2>1
  <2>2. CASE job' # NoWindow
    <3>1. PICK ps : ps = PaymentOrder(win, value)
      OBVIOUS
    <3>2. /\ win # EmptyWindow /\ job' = [payees |-> ps, value |-> value]
          /\ {k \in DOMAIN ps : ps[k].sats >= PayoutFloor} # {}
      BY <2>2, <3>1 DEF NewTemplate
    <3>3. setup \in Setups /\ owed \in [Workers -> Int]
      BY <1>1 DEF QueueType
    <3>4. GoodPayees(ps) /\ Claimed(ps, DOMAIN ps) = value - Fee(value)
      BY <3>1, <3>2, <3>3, PaymentOrderFacts
    <3>5. job'.payees = ps /\ job'.value = value
      BY <3>2
    <3>6. GoodJob(job')
      BY <3>2, <3>4, <3>5 DEF GoodJob
    <3>7. job' \in JobRecord
      BY <3>2, <3>4, FeeFacts DEF JobRecord, GoodPayees
    <3>. QED  BY <3>6, <3>7
  <2>. QED  BY <2>1, <2>2
<1>6. JobInv'
  BY <1>5 DEF JobInv
<1>7. QueueType'
  BY <1>1, <1>2, <1>5, NoneFacts DEF QueueType
<1>. QED  BY <1>3, <1>4, <1>6, <1>7 DEF QueueInv

\* A good job's payees are paid under every ceiling, so its deltas have a value.
LEMMA GoodJobFacts ==
    ASSUME setup \in Setups, NEW j, GoodJob(j), NEW c \in setup.ceilings
    PROVE  /\ GoodPayees(j.payees) /\ Paid(j.payees, c) # {} /\ DOMAIN j.payees = 1..Len(j.payees)
           /\ Deltas(j.payees, c) \in [Workers -> Int]
<1>1. GoodPayees(j.payees) /\ \E k \in DOMAIN j.payees : j.payees[k].sats >= PayoutFloor
  BY DEF GoodJob
<1>2. Paid(j.payees, c) # {}
  BY <1>1, SomeonePaid
<1>. QED  BY <1>1, <1>2, DeltasFacts, PayeesFacts

LEMMA FindStep ==
    ASSUME QueueInv, NEW c \in setup.ceilings, NEW deltas,
           deltas = NoDeltas \/ (GoodJob(job) /\ deltas = Deltas(job.payees, c)),
           FindBlock(c, deltas)
    PROVE  QueueInv'
<1>1. QueueType /\ StagedInv /\ QueueBalances /\ JobInv
  BY DEF QueueInv
<1>2. UNCHANGED <<setup, job, owed>>
  BY DEF FindBlock
<1>3. PICK b, flag :
         /\ b \in Hashes
         /\ block' = [block EXCEPT ![b] = [job |-> job, ceiling |-> c, status |-> "pending",
                                           inTurn |-> flag]]
         /\ flag \in BOOLEAN
         /\ staged' = [staged EXCEPT ![b] = IF Sum(deltas, Workers) = 0 THEN deltas ELSE NoDeltas]
  BY DEF FindBlock
<1>4. deltas \in [Workers -> Int]
  BY <1>1, NoneFacts, GoodJobFacts DEF QueueType
<1>5. PICK d : d = IF Sum(deltas, Workers) = 0 THEN deltas ELSE NoDeltas
  OBVIOUS
<1>6. d \in [Workers -> Int] /\ Sum(d, Workers) = 0 /\ (d = deltas \/ d = NoDeltas)
  BY <1>4, <1>5, NoneFacts DEF Sum
<1>7. staged' = [staged EXCEPT ![b] = d]
  BY <1>3, <1>5
<1>8. c \in Nat /\ job \in JobRecord /\ block \in [Hashes -> BlockRecord]
      /\ staged \in [Hashes -> [Workers -> Int]]
  BY <1>1, FixedFacts DEF QueueType
<1>9. QueueType'
  <2>1. block' \in [Hashes -> BlockRecord]
    BY <1>3, <1>8 DEF BlockRecord
  <2>2. staged' \in [Hashes -> [Workers -> Int]]
    BY <1>6, <1>7, <1>8
  <2>. QED  BY <1>1, <1>2, <2>1, <2>2 DEF QueueType
<1>10. JobInv'
  BY <1>1, <1>2 DEF JobInv
<1>11. QueueBalances'
  <2>1. staged'[b] = d /\ \A x \in Hashes : x # b => staged'[x] = staged[x]
    BY <1>3, <1>7, <1>8
  <2>. QED  BY <1>1, <1>2, <1>6, <2>1 DEF QueueBalances
<1>12. StagedInv'
  <2>1. SUFFICES ASSUME NEW x \in Hashes, staged'[x] # NoDeltas
                 PROVE  /\ GoodJob(block'[x].job)
                        /\ block'[x].ceiling \in setup'.ceilings
                        /\ staged'[x] = Deltas(block[x].job.payees, block[x].ceiling)'
    BY DEF StagedInv
  <2>2. PICK ps, cc : ps = block'[x].job.payees /\ cc = block'[x].ceiling
    OBVIOUS
  <2>3. Deltas(block[x].job.payees, block[x].ceiling)' = Deltas(ps, cc)'
    BY <2>2
  <2>4. Deltas(ps, cc)' = Deltas(ps, cc)
    BY <1>2, DeltasStay
  <2>5. GoodJob(block'[x].job) /\ cc \in setup.ceilings /\ staged'[x] = Deltas(ps, cc)
    <3>1. CASE x = b
      <4>1. block'[x].job = job /\ block'[x].ceiling = c
        BY <1>3, <1>8, <3>1
      <4>2. staged'[x] = d
        BY <1>7, <1>8, <3>1
      <4>3. deltas # NoDeltas /\ d = deltas
        BY <1>6, <2>1, <4>2
      <4>. QED  BY <2>2, <4>1, <4>2, <4>3
    <3>2. CASE x # b
      <4>1. block'[x] = block[x] /\ staged'[x] = staged[x]
        BY <1>3, <1>7, <1>8, <3>2
      <4>. QED  BY <1>1, <2>1, <2>2, <4>1 DEF StagedInv
    <3>. QED  BY <3>1, <3>2
  <2>. QED  BY <1>2, <2>2, <2>3, <2>4, <2>5
<1>. QED  BY <1>9, <1>10, <1>11, <1>12 DEF QueueInv

LEMMA VerdictStep ==
    ASSUME QueueInv, NEW b \in Hashes, Confirm(b) \/ Orphan(b)
    PROVE  QueueInv'
<1>1. QueueType /\ StagedInv /\ QueueBalances /\ JobInv
  BY DEF QueueInv
<1>2. UNCHANGED <<setup, job, staged, owed>>
  BY DEF Confirm, Orphan
<1>3. PICK s : /\ s \in {"confirmed", "orphaned"}
               /\ block' = [block EXCEPT ![b].status = s]
  BY DEF Confirm, Orphan
<1>4. PICK r : r = block[b]
  OBVIOUS
<1>5. r \in BlockRecord /\ block \in [Hashes -> BlockRecord]
  BY <1>1, <1>4 DEF QueueType
<1>6. block' = [block EXCEPT ![b] = [r EXCEPT !.status = s]]
  BY <1>3, <1>4, <1>5
<1>7. /\ [r EXCEPT !.status = s] \in BlockRecord
      /\ [r EXCEPT !.status = s].job = r.job /\ [r EXCEPT !.status = s].ceiling = r.ceiling
  BY <1>3, <1>5 DEF BlockRecord
<1>8. block' \in [Hashes -> BlockRecord]
  BY <1>5, <1>6, <1>7
<1>9. \A x \in Hashes : block'[x].job = block[x].job /\ block'[x].ceiling = block[x].ceiling
  BY <1>4, <1>5, <1>6, <1>7
<1>10. StagedInv'
  BY <1>1, <1>2, <1>9, StagedStays
<1>11. QueueType'
  BY <1>1, <1>2, <1>8 DEF QueueType
<1>12. QueueBalances' /\ JobInv'
  BY <1>1, <1>2 DEF QueueBalances, JobInv
<1>. QED  BY <1>10, <1>11, <1>12 DEF QueueInv

LEMMA SettleStep ==
    ASSUME QueueInv, Settle
    PROVE  QueueInv'
<1>1. QueueType /\ StagedInv /\ QueueBalances /\ JobInv
  BY DEF QueueInv
<1>2. PICK judged, bs :
         /\ judged = {b \in Hashes : block[b].status \in {"confirmed", "orphaned"}}
         /\ bs = {b \in judged : block[b].status = "confirmed"}
  OBVIOUS
<1>3. /\ owed' = Applied(bs)
      /\ staged' = [b \in Hashes |-> IF b \in judged THEN NoDeltas ELSE staged[b]]
      /\ block' = [b \in Hashes |-> IF b \in judged THEN NoBlock ELSE block[b]]
      /\ UNCHANGED <<setup, job>>
  BY <1>2 DEF Settle
<1>4. /\ block \in [Hashes -> BlockRecord] /\ staged \in [Hashes -> [Workers -> Int]]
      /\ owed \in [Workers -> Int]
  BY <1>1 DEF QueueType
<1>5. bs \subseteq Hashes
  BY <1>2
<1>6. IsFiniteSet(bs) /\ IsFiniteSet(Workers)
  BY <1>5, NoneFacts, FS_Subset
<1>7. PICK col : col = [w \in Workers |-> [b \in bs |-> staged[b][w]]]
  OBVIOUS
<1>8. PICK h : h = [w \in Workers |-> SumFunctionOnSet(col[w], bs)]
  OBVIOUS
<1>9. \A b \in bs : \A w \in Workers : staged[b][w] \in Int /\ col[w][b] = staged[b][w]
  BY <1>4, <1>5, <1>7
<1>10. \A w \in Workers : h[w] \in Int
  <2>1. SUFFICES ASSUME NEW w \in Workers PROVE h[w] \in Int
    OBVIOUS
  <2>2. PICK k : k = col[w]
    OBVIOUS
  <2>3. \A b \in bs : k[b] \in Int
    BY <1>9, <2>2
  <2>4. SumFunctionOnSet(k, bs) \in Int
    BY <1>6, <2>3, SumType
  <2>. QED  BY <1>8, <2>2, <2>4
<1>11. owed' = [w \in Workers |-> owed[w] + h[w]]
  <2>1. \A w \in Workers : col[w] = [b \in bs |-> staged[b][w]]
    BY <1>7
  <2>. QED  BY <1>3, <1>8, <2>1 DEF Applied, Sum
<1>12. SumFunctionOnSet(h, Workers) = 0
  <2>1. \A b \in bs : SumFunctionOnSet(staged[b], Workers) = 0
    BY <1>1, <1>5 DEF QueueBalances, Sum
  <2>2. \A w \in Workers : h[w] = SumFunctionOnSet(col[w], bs)
    BY <1>8
  <2>. QED  BY <1>6, <1>9, <2>1, <2>2, SumSwap
<1>13. SumFunctionOnSet(owed', Workers) = 0
  <2>1. PICK o : o = owed'
    OBVIOUS
  <2>2. \A w \in Workers : owed[w] \in Int /\ h[w] \in Int /\ o[w] = owed[w] + h[w]
    BY <1>4, <1>10, <1>11, <2>1
  <2>3. SumFunctionOnSet(o, Workers) = SumFunctionOnSet(owed, Workers) + SumFunctionOnSet(h, Workers)
    BY <1>6, <2>2, SumPlus
  <2>4. SumFunctionOnSet(owed, Workers) = 0
    BY <1>1 DEF QueueBalances, Sum
  <2>. QED  BY <1>12, <2>1, <2>3, <2>4
<1>14. QueueType'
  <2>1. owed' \in [Workers -> Int]
    BY <1>4, <1>10, <1>11
  <2>2. staged' \in [Hashes -> [Workers -> Int]]
    BY <1>3, <1>4, NoneFacts
  <2>3. block' \in [Hashes -> BlockRecord]
    BY <1>3, <1>4, NoneFacts
  <2>. QED  BY <1>1, <1>3, <2>1, <2>2, <2>3 DEF QueueType
<1>15. JobInv'
  BY <1>1, <1>3 DEF JobInv
<1>16. StagedInv'
  BY <1>1, <1>3, StagedStays
<1>17. QueueBalances'
  <2>1. \A b \in Hashes : SumFunctionOnSet(staged'[b], Workers) = 0
    <3>1. SUFFICES ASSUME NEW b \in Hashes PROVE SumFunctionOnSet(staged'[b], Workers) = 0
      OBVIOUS
    <3>2. staged'[b] = NoDeltas \/ staged'[b] = staged[b]
      BY <1>3
    <3>3. SumFunctionOnSet(staged[b], Workers) = 0
      BY <1>1 DEF QueueBalances, Sum
    <3>. QED  BY <3>2, <3>3, NoneFacts
  <2>. QED  BY <1>13, <2>1 DEF QueueBalances, Sum
<1>. QED  BY <1>14, <1>15, <1>16, <1>17 DEF QueueInv

LEMMA QueueStep == QueueInv /\ [Next]_vars => QueueInv'
<1>. SUFFICES ASSUME QueueInv, [Next]_vars PROVE QueueInv'
  OBVIOUS
<1>1. ASSUME NEW win \in Windows, NEW value \in Rewards, NewTemplate(win, value) PROVE QueueInv'
  BY <1>1, TemplateStep
<1>2. ASSUME NEW c \in setup.ceilings, FindWindowBlock(c) PROVE QueueInv'
  <2>1. GoodJob(job)
    BY <1>2 DEF FindWindowBlock, QueueInv, JobInv
  <2>2. FindBlock(c, Deltas(job.payees, c))
    BY <1>2 DEF FindWindowBlock
  <2>3. PICK d : d = Deltas(job.payees, c)
    OBVIOUS
  <2>. QED  BY <2>1, <2>2, <2>3, FindStep
<1>3. ASSUME NEW c \in setup.ceilings, FindUnstagedBlock(c) \/ FindFinderBlock(c) PROVE QueueInv'
  <2>1. FindBlock(c, NoDeltas)
    BY <1>3 DEF FindUnstagedBlock, FindFinderBlock
  <2>. QED  BY <2>1, FindStep
<1>4. ASSUME NEW b \in Hashes, Confirm(b) \/ Orphan(b) PROVE QueueInv'
  BY <1>4, VerdictStep
<1>5. CASE Settle
  BY <1>5, SettleStep
<1>6. CASE UNCHANGED vars
  <2>1. UNCHANGED <<setup, job, block, staged, owed>>
    BY <1>6 DEF vars
  <2>2. StagedInv'
    BY <2>1, StagedStays DEF QueueInv
  <2>. QED  BY <2>1, <2>2 DEF QueueInv, QueueType, JobInv, QueueBalances
<1>. QED  BY <1>1, <1>2, <1>3, <1>4, <1>5, <1>6 DEF Next

LEMMA QueueInvariant == Spec => []QueueInv
<1>1. Init => QueueInv
  BY QueueInit
<1>2. QueueInv /\ [Next]_vars => QueueInv'
  BY QueueStep
<1>. QED  BY <1>1, <1>2, PTL DEF Spec

-----------------------------------------------------------------------------
(* The properties. *)

\* The payout queue is a zero-sum account: what store_stage_block_fractions books
\* as paid to some and passed over for others cancels out block by block, and
\* store_settle_block_fractions applies whole blocks, so the balances cancel out
\* whatever mix of confirmed and orphaned blocks settles, in any order.
THEOREM QueueCancels == Spec => []QueueBalances
<1>1. QueueInv => QueueBalances
  BY DEF QueueInv
<1>. QED  BY <1>1, QueueInvariant, PTL

LEMMA GoodJobRenders ==
    ASSUME setup \in Setups, NEW j, GoodJob(j), NEW c \in setup.ceilings
    PROVE  Renders(j, c)
<1>1. PICK ps, P : ps = j.payees /\ P = Paid(ps, c)
  OBVIOUS
<1>2. GoodPayees(ps) /\ P # {} /\ DOMAIN ps = 1..Len(ps)
  BY <1>1, GoodJobFacts
<1>3. Claimed(ps, DOMAIN ps) = j.value - Fee(j.value)
  BY <1>1 DEF GoodJob
<1>4. SumFunctionOnSet(Outputs(ps, c), P) = j.value - Fee(j.value)
  BY <1>1, <1>2, <1>3, OutputsFacts
<1>5. j.value \in Nat /\ Fee(j.value) \in Nat
  BY FeeFacts DEF GoodJob
<1>6. SumFunctionOnSet(Outputs(ps, c), P) + Fee(j.value) = j.value
  BY <1>4, <1>5
<1>. QED  BY <1>1, <1>2, <1>3, <1>6 DEF Renders, Sum

\* No listener is handed a job it cannot render: for every window, reward and set
\* of ceilings, the claims that attach_pplns_window splits are claims that
\* coinbase_build_window can pay to the satoshi, and somebody is always left to pay.
THEOREM JobsRender == Spec => []EveryJobRenders
<1>1. QueueInv => EveryJobRenders
  BY GoodJobRenders DEF QueueInv, QueueType, JobInv, EveryJobRenders
<1>. QED  BY <1>1, QueueInvariant, PTL

LEMMA GoodJobFits ==
    ASSUME setup \in Setups, ~setup.fromTemplate, NEW j, GoodJob(j), NEW c \in setup.ceilings
    PROVE  CoinbaseBytes(j, c) <= c
<1>1. PICK ps, P : ps = j.payees /\ P = Paid(ps, c)
  OBVIOUS
<1>2. GoodPayees(ps) /\ P # {} /\ DOMAIN ps = 1..Len(ps)
  BY <1>1, GoodJobFacts
<1>3. PICK b : Charged(b, ps, c)
  BY <1>2, PaidCharges
<1>4. PICK f : f = [k \in DOMAIN ps |-> OutputBytes[ps[k].worker]]
  OBVIOUS
<1>5. SumFunctionOnSet(f, P) = b[Len(ps)] - FixedBytes
  <2>1. \A k \in 1..Len(ps) : f[k] = CostAt(ps, k)
    BY <1>2, <1>4 DEF CostAt
  <2>. QED  BY <1>1, <1>2, <1>3, <2>1, ChargedSum
<1>6. Len(ps) \in Nat /\ Len(ps) \in 0..Len(ps)
  BY <1>2, PayeesFacts
<1>7. c \in Nat /\ FixedBytes <= c
  <2>1. PICK k \in 1..Len(ps) : TRUE
    BY <1>1, <1>2, PaidFacts
  <2>2. PICK w \in Workers : w = ps[k].worker
    BY <1>2, <2>1, PayeesFacts
  <2>3. FixedBytes + OutputBytes[w] <= c /\ FixedBytes \in Nat /\ c \in Nat
    BY FixedFacts
  <2>4. OutputBytes[w] \in Nat
    BY QueueAssumption
  <2>. QED  BY <2>3, <2>4
<1>8. b[Len(ps)] <= c /\ b[Len(ps)] \in Nat
  BY <1>2, <1>3, <1>6, <1>7, ChargedWithin DEF Charged
<1>9. FixedBytes = setup.envelope + OperatorReserve /\ setup.envelope \in Nat
  BY FixedFacts
<1>10. PICK op : op = IF Fee(j.value) > 0 THEN OperatorBytes ELSE 0
  OBVIOUS
<1>11. op \in Nat /\ op <= OperatorReserve
  BY <1>10, QueueAssumption DEF OperatorReserve
<1>12. CoinbaseBytes(j, c) = setup.envelope - 2 + op + SumFunctionOnSet(f, P)
  BY <1>1, <1>4, <1>10 DEF CoinbaseBytes, Sum
<1>. QED  BY <1>5, <1>7, <1>8, <1>9, <1>11, <1>12 DEF OperatorReserve

\* A coinbase that coinbase_build_window builds never outgrows the ceiling of its
\* listener: what the walk charges for each payout, with the reserve for the
\* operator's output and the longest count, is never less than the bytes written.
THEOREM CoinbaseKeepsWithin == Spec => []CoinbaseFits
<1>1. QueueInv => CoinbaseFits
  BY GoodJobFits DEF QueueInv, QueueType, JobInv, CoinbaseFits
<1>. QED  BY <1>1, QueueInvariant, PTL

LEMMA DivUnique ==
    ASSUME NEW a \in Nat, NEW b \in Nat, b > 0, NEW q \in Nat, q * b <= a, a < (q + 1) * b
    PROVE  a \div b = q
<1>1. PICK r : r = a \div b
  OBVIOUS
<1>2. r \in Nat /\ r * b <= a /\ a < (r + 1) * b
  BY <1>1, DivFacts
<1>3. ~(r + 1 <= q)
  <2>1. SUFFICES ASSUME r + 1 <= q PROVE FALSE
    OBVIOUS
  <2>2. (r + 1) * b <= q * b
    BY <1>2, <2>1, TimesMono
  <2>3. (r + 1) * b \in Int /\ q * b \in Int
    BY <1>2
  <2>. QED  BY <1>2, <2>2, <2>3
<1>4. ~(q + 1 <= r)
  <2>1. SUFFICES ASSUME q + 1 <= r PROVE FALSE
    OBVIOUS
  <2>2. (q + 1) * b <= r * b
    BY <1>2, <2>1, TimesMono
  <2>3. (q + 1) * b \in Int /\ r * b \in Int
    BY <1>2
  <2>. QED  BY <1>2, <2>2, <2>3
<1>. QED  BY <1>1, <1>2, <1>3, <1>4

LEMMA DivCancel ==
    ASSUME NEW a \in Nat, NEW b \in Nat, b > 0, NEW p \in Nat, p > 0
    PROVE  (a * p) \div (b * p) = a \div b
<1>1. PICK q : q = a \div b
  OBVIOUS
<1>2. q \in Nat /\ q * b <= a /\ a < (q + 1) * b
  BY <1>1, DivFacts
<1>3. PICK x, y : x = a * p /\ y = b * p
  OBVIOUS
<1>4. x \in Nat /\ y \in Nat /\ y > 0
  BY <1>3
<1>5. q * y <= x
  <2>1. PICK u : u = q * b
    OBVIOUS
  <2>2. u \in Nat /\ u <= a
    BY <1>2, <2>1
  <2>3. u * p <= a * p
    BY <2>2, TimesMono
  <2>4. u * p = q * y
    BY <1>2, <1>3, <2>1
  <2>. QED  BY <1>3, <2>3, <2>4
<1>6. x < (q + 1) * y
  <2>1. PICK u : u = (q + 1) * b
    OBVIOUS
  <2>2. u \in Nat /\ a + 1 <= u
    BY <1>2, <2>1
  <2>3. (a + 1) * p <= u * p
    BY <2>2, TimesMono
  <2>4. u * p = (q + 1) * y
    BY <1>2, <1>3, <2>1
  <2>5. (a + 1) * p = a * p + p
    OBVIOUS
  <2>6. u * p \in Int /\ a * p \in Int
    BY <2>2
  <2>. QED  BY <1>3, <2>3, <2>4, <2>5, <2>6
<1>7. x \div y = q
  BY <1>2, <1>4, <1>5, <1>6, DivUnique
<1>. QED  BY <1>1, <1>3, <1>7

LEMMA DivExact ==
    ASSUME NEW a \in Nat, a > 0, NEW b \in Nat, b > 0, a % b = 0
    PROVE  a = (a \div b) * b /\ a \div b \in Nat /\ a \div b > 0
<1>1. a \div b \in Nat
  BY DivFacts
<1>2. a = b * (a \div b) + (a % b)
  OBVIOUS
<1>3. PICK q : q = a \div b
  OBVIOUS
<1>4. q \in Nat /\ a = b * q
  BY <1>1, <1>2, <1>3
<1>5. q # 0
  BY <1>4
<1>6. a = q * b
  BY <1>4
<1>. QED  BY <1>3, <1>4, <1>5, <1>6

\* One reward divides without rest by what the payees claim, and by what those
\* paid claim.
LEMMA UnitFacts ==
    ASSUME NEW j, GoodJob(j), NEW s \in Nat, s > 0, s <= Claimed(j.payees, DOMAIN j.payees)
    PROVE  Unit \in Nat /\ Unit > 0 /\ Unit = (Unit \div s) * s /\ Unit \div s \in Nat /\ Unit \div s > 0
<1>1. Unit \in Nat /\ Unit > 0
  BY QueueAssumption
<1>2. j.value \in Rewards /\ Claimed(j.payees, DOMAIN j.payees) = j.value - Fee(j.value)
  BY DEF GoodJob
<1>3. s \in 1..(j.value - Fee(j.value))
  BY <1>2, FeeFacts
<1>4. Unit % s = 0
  BY <1>2, <1>3, UnitAssumption
<1>. QED  BY <1>1, <1>4, DivExact

\* From the deltas, what was paid is read back: nothing to those left out, its
\* scaled claim to each of the others.
LEMMA ReadBack ==
    ASSUME NEW U \in Nat, U > 0, NEW total \in Nat, NEW own \in Nat, own > 0, NEW whole \in Nat,
           NEW part \in Nat, part > 0, U = whole * total, U = part * own, NEW s \in Nat
    PROVE  /\ (U * s - total * (s * whole - s * part)) \div U = (total * s) \div own
           /\ (U * s - total * (s * whole - 0)) \div U = 0
<1>1. PICK a : a = total * s
  OBVIOUS
<1>2. a \in Nat
  BY <1>1
<1>3. U * s = total * (s * whole)
  BY U = whole * total
<1>4. U * s - total * (s * whole - s * part) = a * part
  <2>1. total * (s * whole - s * part) = total * (s * whole) - total * (s * part)
    OBVIOUS
  <2>2. total * (s * part) = a * part
    BY <1>1
  <2>. QED  BY <1>2, <1>3, <2>1, <2>2
<1>5. U = own * part
  BY U = part * own
<1>6. (a * part) \div (own * part) = a \div own
  BY <1>2, DivCancel
<1>7. (U * s - total * (s * whole - s * part)) \div U = a \div own
  BY <1>4, <1>5, <1>6
<1>8. U * s - total * (s * whole - 0) = 0
  BY <1>3
<1>9. 0 \div U = 0
  BY DivUnique
<1>. QED  BY <1>1, <1>7, <1>8, <1>9

LEMMA RecordedIs ==
    ASSUME setup \in Setups, NEW b \in Hashes, NEW j, GoodJob(j), NEW c \in setup.ceilings,
           j = block[b].job, c = block[b].ceiling, staged[b] = Deltas(j.payees, c),
           NEW k \in 1..Len(j.payees)
    PROVE  LET ps == j.payees
               P  == Paid(ps, c)
           IN  Recorded(b, k) = IF k \in P
                                THEN (Claimed(ps, 1..Len(ps)) * ps[k].sats) \div Claimed(ps, P)
                                ELSE 0
<1>1. PICK ps, P, total, own : /\ ps = j.payees /\ P = Paid(ps, c)
                               /\ total = Claimed(ps, 1..Len(ps)) /\ own = Claimed(ps, P)
  OBVIOUS
<1>2. GoodPayees(ps) /\ P # {} /\ DOMAIN ps = 1..Len(ps)
  BY <1>1, GoodJobFacts
<1>3. total \in Nat /\ own \in Nat /\ own > 0 /\ own <= total /\ total > 0
  BY <1>1, <1>2, OutputsFacts
<1>4. PICK whole, part : whole = Unit \div total /\ part = Unit \div own
  OBVIOUS
<1>5. /\ Unit \in Nat /\ Unit > 0 /\ whole \in Nat /\ part \in Nat /\ part > 0
      /\ Unit = whole * total /\ Unit = part * own
  <2>1. total = Claimed(j.payees, DOMAIN j.payees)
    BY <1>1, <1>2
  <2>2. total <= Claimed(j.payees, DOMAIN j.payees) /\ own <= Claimed(j.payees, DOMAIN j.payees)
    BY <1>3, <2>1
  <2>3. Unit \in Nat /\ Unit > 0 /\ Unit = (Unit \div total) * total /\ Unit \div total \in Nat
    BY <1>3, <2>2, UnitFacts
  <2>4. Unit = (Unit \div own) * own /\ Unit \div own \in Nat /\ Unit \div own > 0
    BY <1>3, <2>2, UnitFacts
  <2>. QED  BY ONLY <1>4, <2>3, <2>4
<1>6. PICK s : s = ps[k].sats
  OBVIOUS
<1>7. s \in Nat
  BY <1>1, <1>2, <1>6, PayeesFacts
<1>8. PICK d : d = staged[b][ps[k].worker]
  OBVIOUS
<1>9. d = s * whole - (IF k \in P THEN s * part ELSE 0)
  BY <1>1, <1>2, <1>4, <1>6, <1>8, DeltasFacts
<1>10. Recorded(b, k) = (Unit * s - total * d) \div Unit
  BY <1>1, <1>2, <1>6, <1>8 DEF Recorded
<1>11. /\ (Unit * s - total * (s * whole - s * part)) \div Unit = (total * s) \div own
       /\ (Unit * s - total * (s * whole - 0)) \div Unit = 0
  <2>1. PICK U : U = Unit
    OBVIOUS
  <2>2. U \in Nat /\ U > 0 /\ U = whole * total /\ U = part * own
    BY <1>5, <2>1
  <2>3. total \in Nat /\ own \in Nat /\ own > 0 /\ whole \in Nat /\ part \in Nat /\ part > 0
    BY <1>3, <1>5
  <2>4. /\ (U * s - total * (s * whole - s * part)) \div U = (total * s) \div own
        /\ (U * s - total * (s * whole - 0)) \div U = 0
    BY ONLY <1>7, <2>2, <2>3, ReadBack
  <2>. QED  BY <2>1, <2>4
<1>12. CASE k \in P
  <2>1. d = s * whole - s * part
    BY <1>9, <1>12
  <2>2. Recorded(b, k) = (total * s) \div own
    BY <1>10, <1>11, <2>1
  <2>. QED  BY <1>1, <1>6, <1>12, <2>2
<1>13. CASE k \notin P
  <2>1. d = s * whole - 0
    BY <1>9, <1>13
  <2>2. Recorded(b, k) = 0
    BY <1>10, <1>11, <2>1
  <2>. QED  BY <1>1, <1>13, <2>2
<1>. QED  BY <1>12, <1>13

\* What submit_with_job stages for a block is what the block's coinbase pays, to
\* the truncated satoshi, although the deltas are fractions of a unit and the
\* outputs whole sats: only the payee that takes the remainder got more.
THEOREM QueueRecords == Spec => []QueueRecordsCoinbase
<1>1. ASSUME QueueInv PROVE QueueRecordsCoinbase
  <2>. DEFINE ps(b) == block[b].job.payees
              outs(b) == Outputs(ps(b), block[b].ceiling)
              got(b, k) == IF k \in DOMAIN outs(b) THEN outs(b)[k] ELSE 0
  <2>1. SUFFICES ASSUME NEW b \in Hashes, staged[b] # NoDeltas
                 PROVE  /\ \A k \in DOMAIN ps(b) : got(b, k) >= Recorded(b, k)
                        /\ Cardinality({k \in DOMAIN ps(b) : got(b, k) > Recorded(b, k)}) <= 1
    BY DEF QueueRecordsCoinbase
  <2>2. PICK j, c : j = block[b].job /\ c = block[b].ceiling
    OBVIOUS
  <2>3. setup \in Setups /\ GoodJob(j) /\ c \in setup.ceilings /\ staged[b] = Deltas(j.payees, c)
    BY <1>1, <2>1, <2>2 DEF QueueInv, QueueType, StagedInv
  <2>4. PICK q, P, o, total, own :
           /\ q = j.payees /\ P = Paid(q, c) /\ o = Outputs(q, c)
           /\ total = Claimed(q, 1..Len(q)) /\ own = Claimed(q, P)
    OBVIOUS
  <2>5. GoodPayees(q) /\ P # {} /\ DOMAIN q = 1..Len(q) /\ P \subseteq DOMAIN q
    BY <2>3, <2>4, GoodJobFacts, PaidFacts
  <2>6. ps(b) = q /\ outs(b) = o
    BY <2>2, <2>4
  <2>7. DOMAIN o = P
    BY <2>4, <2>5, OutputsFacts
  <2>8. PICK l : \A k \in P : /\ o[k] \in Nat
                              /\ o[k] >= (total * q[k].sats) \div own
                              /\ k # l => o[k] = (total * q[k].sats) \div own
    BY <2>4, <2>5, OutputsFacts
  <2>9. \A k \in DOMAIN q : got(b, k) = IF k \in P THEN o[k] ELSE 0
    BY <2>6, <2>7
  <2>. HIDE DEF got, ps, outs
  <2>10. \A k \in DOMAIN q : Recorded(b, k) = IF k \in P THEN (total * q[k].sats) \div own ELSE 0
    BY <2>2, <2>3, <2>4, <2>5, RecordedIs
  <2>11. \A k \in DOMAIN q : got(b, k) >= Recorded(b, k) /\ (got(b, k) > Recorded(b, k) => k = l)
    <3>1. SUFFICES ASSUME NEW k \in DOMAIN q
                   PROVE  got(b, k) >= Recorded(b, k) /\ (got(b, k) > Recorded(b, k) => k = l)
      OBVIOUS
    <3>2. CASE k \in P
      <4>1. got(b, k) = o[k] /\ Recorded(b, k) = (total * q[k].sats) \div own
        BY <2>9, <2>10, <3>2
      <4>2. o[k] \in Nat /\ o[k] >= Recorded(b, k) /\ (k # l => o[k] = Recorded(b, k))
        BY <2>8, <3>2, <4>1
      <4>. QED  BY <4>1, <4>2
    <3>3. CASE k \notin P
      <4>1. got(b, k) = 0 /\ Recorded(b, k) = 0
        BY <2>9, <2>10, <3>3
      <4>. QED  BY <4>1
    <3>. QED  BY <3>2, <3>3
  <2>12. PICK more : more = {k \in DOMAIN q : got(b, k) > Recorded(b, k)}
    OBVIOUS
  <2>13. more \subseteq {l}
    BY <2>11, <2>12
  <2>14. IsFiniteSet({l}) /\ Cardinality({l}) = 1
    BY FS_Singleton
  <2>15. Cardinality(more) <= 1
    BY <2>13, <2>14, FS_Subset
  <2>. QED  BY <2>6, <2>11, <2>12, <2>15
<1>2. QueueInv => QueueRecordsCoinbase
  BY <1>1
<1>. QED  BY <1>2, QueueInvariant, PTL

-----------------------------------------------------------------------------
(* The largest claim. *)

LEMMA TightestIs ==
    ASSUME setup \in Setups
    PROVE  TightestBudget \in setup.ceilings /\ \A c \in setup.ceilings : TightestBudget <= c
<1>1. setup.ceilings \in SUBSET Nat /\ setup.ceilings # {}
  BY FixedFacts
<1>2. \E n \in setup.ceilings : \A m \in setup.ceilings : n <= m
  BY <1>1, LeastNat
<1>. QED  BY <1>2 DEF TightestBudget, Min

LEMMA BytesFacts ==
    ASSUME Workers # {}
    PROVE  /\ \A w \in Workers : OutputBytes[w] \in Nat /\ OutputBytes[w] > 0
           /\ \E v \in Workers : \A w \in Workers : OutputBytes[w] <= OutputBytes[v]
           /\ \E v \in Workers : \A w \in Workers : OutputBytes[v] <= OutputBytes[w]
<1>1. IsFiniteSet(Workers) /\ Workers \subseteq Nat /\ OutputBytes \in [Workers -> Nat \ {0}]
  BY QueueAssumption
<1>2. \A w \in Workers : OutputBytes[w] \in Nat /\ OutputBytes[w] > 0
  BY <1>1
<1>3. PICK v \in Workers : \A w \in Workers : OutputBytes[w] < OutputBytes[v]
                                              \/ (OutputBytes[w] = OutputBytes[v] /\ v <= w)
  BY <1>1, <1>2, FirstLargest
<1>4. \A w \in Workers : OutputBytes[w] <= OutputBytes[v]
  BY <1>2, <1>3
<1>5. PICK N : N = {OutputBytes[w] : w \in Workers}
  OBVIOUS
<1>6. N \in SUBSET Nat /\ N # {}
  BY <1>2, <1>5
<1>7. PICK n \in N : \A m \in N : n <= m
  BY <1>6, LeastNat
<1>8. \E u \in Workers : \A w \in Workers : OutputBytes[u] <= OutputBytes[w]
  BY <1>5, <1>7
<1>. QED  BY <1>2, <1>4, <1>8

\* k outputs cost at least k times the smallest.
LEMMA CostAtLeast ==
    ASSUME NEW win \in Windows, win # EmptyWindow, NEW m \in Nat,
           \A w \in Workers : m <= OutputBytes[w], NEW n \in 0..Cardinality(Active(win))
    PROVE  CostOf(LargestFirst(win), n) \in Nat /\ CostOf(LargestFirst(win), n) >= n * m
<1>1. PICK claims, N : claims = LargestFirst(win) /\ N = Cardinality(Active(win))
  OBVIOUS
<1>2. N \in Nat /\ DOMAIN claims = 1..N /\ Range(claims) = Active(win)
  BY <1>1, ClaimsFacts
<1>3. PICK f : f = [i \in DOMAIN claims |-> OutputBytes[claims[i]]]
  OBVIOUS
<1>4. \A i \in 1..N : f[i] \in Nat /\ f[i] >= m
  <2>1. \A i \in 1..N : claims[i] \in Workers
    BY <1>2, WindowFacts DEF Range
  <2>2. \A w \in Workers : OutputBytes[w] \in Nat
    BY QueueAssumption
  <2>. QED  BY <1>2, <1>3, <2>1, <2>2
<1>. DEFINE Q == {k \in Nat : k \in 0..N => SumFunctionOnSet(f, 1..k) \in Nat /\ SumFunctionOnSet(f, 1..k) >= k * m}
<1>5. 0 \in Q
  <2>1. 1..0 = {}
    OBVIOUS
  <2>. QED  BY <2>1, SumEmpty
<1>6. ASSUME NEW k \in Nat, k \in Q PROVE k + 1 \in Q
  <2>1. SUFFICES ASSUME k + 1 \in 0..N
                 PROVE  SumFunctionOnSet(f, 1..(k + 1)) \in Nat /\ SumFunctionOnSet(f, 1..(k + 1)) >= (k + 1) * m
    OBVIOUS
  <2>2. PICK D : D = 1..k
    OBVIOUS
  <2>3. /\ IsFiniteSet(D) /\ 1..(k + 1) = D \cup {k + 1} /\ k + 1 \notin D
        /\ D \cup {k + 1} \subseteq 1..N
    <3>1. IsFiniteSet(D)
      BY <2>2, FS_Interval
    <3>2. 1..(k + 1) = D \cup {k + 1} /\ k + 1 \notin D
      BY <2>2
    <3>3. 1..(k + 1) \subseteq 1..N
      BY <1>2, <2>1
    <3>. QED  BY <3>1, <3>2, <3>3
  <2>4. \A i \in D \cup {k + 1} : f[i] \in Int
    BY <1>4, <2>3
  <2>5. SumFunctionOnSet(f, D \cup {k + 1}) = f[k + 1] + SumFunctionOnSet(f, D)
    BY <2>3, <2>4, SumAdd
  <2>6. SumFunctionOnSet(f, D) \in Nat /\ SumFunctionOnSet(f, D) >= k * m
    BY <1>2, <1>6, <2>1, <2>2
  <2>7. f[k + 1] \in Nat /\ f[k + 1] >= m
    BY <1>2, <1>4, <2>1
  <2>8. (k + 1) * m = k * m + m /\ k * m \in Nat
    OBVIOUS
  <2>9. PICK x, y : x = SumFunctionOnSet(f, D) /\ y = SumFunctionOnSet(f, 1..(k + 1))
    OBVIOUS
  <2>10. y = f[k + 1] + x
    BY <2>3, <2>5, <2>9
  <2>11. x \in Nat /\ x >= k * m
    BY <2>6, <2>9
  <2>12. y \in Nat /\ y >= (k + 1) * m
    BY <2>7, <2>8, <2>10, <2>11
  <2>. QED  BY <2>9, <2>12
<1>. HIDE DEF Q
<1>7. Nat \subseteq Q
  BY <1>5, <1>6, NatRule
<1>8. SumFunctionOnSet(f, 1..n) \in Nat /\ SumFunctionOnSet(f, 1..n) >= n * m
  BY <1>1, <1>2, <1>7 DEF Q
<1>. QED  BY <1>1, <1>3, <1>8 DEF CostOf

\* Whatever was paid before, the first k payees cost at most k of the largest.
LEMMA ChargedAtMost ==
    ASSUME NEW ps, GoodPayees(ps), setup \in Setups, NEW c, NEW b, Charged(b, ps, c),
           NEW m \in Nat, \A w \in Workers : OutputBytes[w] <= m, NEW n \in 0..Len(ps)
    PROVE  b[n] <= FixedBytes + n * m
<1>1. Len(ps) \in Nat /\ \A k \in 1..Len(ps) : CostAt(ps, k) \in Nat /\ CostAt(ps, k) <= m
  BY PayeesFacts DEF CostAt
<1>. DEFINE Q == {k \in Nat : k \in 0..Len(ps) => b[k] <= FixedBytes + k * m}
<1>2. 0 \in Q
  BY FixedFacts DEF Charged
<1>3. ASSUME NEW k \in Nat, k \in Q PROVE k + 1 \in Q
  <2>1. SUFFICES ASSUME k + 1 \in 0..Len(ps) PROVE b[k + 1] <= FixedBytes + (k + 1) * m
    OBVIOUS
  <2>2. k \in 0..Len(ps) /\ k + 1 \in 1..Len(ps) /\ (k + 1) - 1 = k
    BY <1>1, <2>1
  <2>3. b[k + 1] = b[k] + (IF k + 1 \in Paid(ps, c) THEN CostAt(ps, k + 1) ELSE 0)
    BY <2>2 DEF Charged
  <2>5. b[k] <= FixedBytes + k * m /\ b[k] \in Nat /\ FixedBytes \in Nat
    BY <1>3, <2>2, FixedFacts DEF Charged
  <2>6. CostAt(ps, k + 1) \in Nat /\ CostAt(ps, k + 1) <= m
    BY <1>1, <2>2
  <2>7. b[k + 1] <= b[k] + m
    BY <2>3, <2>5, <2>6
  <2>8. (k + 1) * m = k * m + m /\ k * m \in Nat /\ b[k + 1] \in Nat
    BY <2>1 DEF Charged
  <2>. QED  BY <2>5, <2>7, <2>8
<1>. HIDE DEF Q
<1>4. Nat \subseteq Q
  BY <1>2, <1>3, NatRule
<1>. QED  BY <1>1, <1>4 DEF Q


\* A largest claim stands where even the costliest outputs before it leave room.
TopInv ==
    job # NoWindow =>
        \E k \in DOMAIN job.payees :
            /\ \A i \in DOMAIN job.payees : job.payees[i].sats <= job.payees[k].sats
            /\ k = 1 \/ \A v \in Workers : FixedBytes + k * OutputBytes[v] <= TightestBudget

LEMMA TopOfOrder ==
    ASSUME ReservedFit, NEW win \in Windows, win # EmptyWindow, setup \in Setups,
           NEW k \in 1..Cardinality(Active(win)), k # 1,
           k - 1 <= ExpectedSlots(LargestFirst(win)) \div 4, NEW v \in Workers
    PROVE  FixedBytes + k * OutputBytes[v] <= TightestBudget
<1>1. PICK n, r : n = ExpectedSlots(LargestFirst(win)) /\ r = k - 1
  OBVIOUS
<1>2. /\ Cardinality(Active(win)) \in Nat
      /\ n \in 1..Cardinality(Active(win))
      /\ n = 1 \/ CostOf(LargestFirst(win), n) <= TightestBudget - setup.guess
  BY <1>1, ClaimsFacts, ExpectedSlotsIs
<1>3. r \in Nat /\ r >= 1 /\ n \in Nat /\ n >= 4 * r
  <2>1. r \in Nat /\ r >= 1 /\ n \in Nat
    BY <1>1, <1>2
  <2>2. PICK q : q = n \div 4
    OBVIOUS
  <2>3. q \in Nat /\ q * 4 <= n
    BY <2>1, <2>2, DivFacts
  <2>4. r <= q
    BY <1>1, <2>2
  <2>. QED  BY <2>1, <2>3, <2>4
<1>4. PICK w \in Workers : \A u \in Workers : OutputBytes[w] <= OutputBytes[u]
  BY BytesFacts
<1>5. PICK m, M : m = OutputBytes[w] /\ M = OutputBytes[v]
  OBVIOUS
<1>6. m \in Nat /\ M \in Nat
  BY <1>5, BytesFacts
<1>7. FixedBytes + 2 * M <= setup.guess + 4 * m /\ M <= 4 * m
  BY <1>5 DEF ReservedFit, FixedBytes
<1>8. PICK cost : cost = CostOf(LargestFirst(win), n)
  OBVIOUS
<1>9. cost \in Nat /\ cost >= n * m
  <2>1. n \in 0..Cardinality(Active(win))
    BY <1>2
  <2>. QED  BY <1>4, <1>5, <1>6, <1>8, <2>1, CostAtLeast
<1>10. cost <= TightestBudget - setup.guess
  BY <1>2, <1>3, <1>8
<1>11. FixedBytes \in Nat /\ setup.guess \in Nat /\ TightestBudget \in Nat
  BY FixedFacts, TightestIs
<1>12. (4 * r) * m <= n * m
  BY <1>3, <1>6, TimesMono
<1>13. (r - 1) * M <= (r - 1) * (4 * m)
  <2>1. M * (r - 1) <= (4 * m) * (r - 1)
    BY <1>3, <1>6, <1>7, TimesMono
  <2>. QED  BY <1>3, <1>6, <2>1
<1>14. k * M = (r - 1) * M + 2 * M
  BY <1>1, <1>3, <1>6
<1>15. (4 * r) * m = (r - 1) * (4 * m) + 4 * m
  BY <1>3, <1>6
<1>16. PICK a, x, y, z : a = k * M /\ x = (r - 1) * M /\ y = (r - 1) * (4 * m) /\ z = n * m
  OBVIOUS
<1>17. a \in Int /\ x \in Int /\ y \in Int /\ z \in Int
  BY <1>2, <1>3, <1>6, <1>16
<1>18. a = x + 2 * M /\ x <= y /\ y + 4 * m <= z /\ z <= cost
  BY <1>9, <1>12, <1>13, <1>14, <1>15, <1>16
<1>19. FixedBytes + a <= TightestBudget
  BY ONLY <1>6, <1>7, <1>9, <1>10, <1>11, <1>17, <1>18
<1>. QED  BY <1>5, <1>16, <1>19

LEMMA TopStep ==
    ASSUME ReservedFit, QueueInv, TopInv, [Next]_vars
    PROVE  TopInv'
<1>1. setup \in Setups /\ owed \in [Workers -> Int]
  BY DEF QueueInv, QueueType
<1>2. setup' = setup
  BY DEF Next, vars, NewTemplate, FindWindowBlock, FindUnstagedBlock, FindFinderBlock, FindBlock,
         Confirm, Orphan, Settle
<1>3. FixedBytes' = FixedBytes /\ TightestBudget' = TightestBudget
  BY <1>2 DEF FixedBytes, TightestBudget
<1>4. CASE job' = job
  BY <1>3, <1>4 DEF TopInv
<1>5. CASE job' # job /\ job' # NoWindow
  <2>1. PICK win \in Windows, value \in Rewards : NewTemplate(win, value)
    BY <1>5 DEF Next, vars, FindWindowBlock, FindUnstagedBlock, FindFinderBlock, FindBlock,
                Confirm, Orphan, Settle
  <2>2. PICK ps : ps = PaymentOrder(win, value)
    OBVIOUS
  <2>3. win # EmptyWindow /\ job' = [payees |-> ps, value |-> value]
    BY <1>5, <2>1, <2>2 DEF NewTemplate
  <2>4. PICK N : N = Cardinality(Active(win))
    OBVIOUS
  <2>5. /\ DOMAIN ps = 1..N
        /\ \E k \in 1..N : /\ \A i \in 1..N : ps[i].sats <= ps[k].sats
                           /\ k - 1 <= ExpectedSlots(LargestFirst(win)) \div 4
    BY <1>1, <2>2, <2>3, <2>4, PaymentOrderFacts
  <2>6. PICK k \in 1..N : /\ \A i \in 1..N : ps[i].sats <= ps[k].sats
                          /\ k - 1 <= ExpectedSlots(LargestFirst(win)) \div 4
    BY <2>5
  <2>7. k = 1 \/ \A v \in Workers : FixedBytes + k * OutputBytes[v] <= TightestBudget
    BY <1>1, <2>3, <2>4, <2>6, TopOfOrder
  <2>8. job'.payees = ps
    BY <2>3
  <2>. QED  BY <1>3, <2>5, <2>6, <2>7, <2>8 DEF TopInv
<1>6. CASE job' = NoWindow
  BY <1>6 DEF TopInv
<1>. QED  BY <1>4, <1>5, <1>6

LEMMA TopIsPaid ==
    ASSUME QueueInv, TopInv, job # NoWindow, NEW c \in setup.ceilings
    PROVE  \E k \in Paid(job.payees, c) :
              job.payees[k].sats = Max({job.payees[i].sats : i \in DOMAIN job.payees})
<1>1. setup \in Setups /\ GoodJob(job)
  BY DEF QueueInv, QueueType, JobInv
<1>2. PICK ps : ps = job.payees
  OBVIOUS
<1>3. GoodPayees(ps) /\ DOMAIN ps = 1..Len(ps) /\ \E i \in 1..Len(ps) : ps[i].sats >= PayoutFloor
  BY <1>1, <1>2, PayeesFacts DEF GoodJob
<1>4. PICK k \in 1..Len(ps) :
         /\ \A i \in 1..Len(ps) : ps[i].sats <= ps[k].sats
         /\ k = 1 \/ \A v \in Workers : FixedBytes + k * OutputBytes[v] <= TightestBudget
  BY <1>2, <1>3 DEF TopInv
<1>5. Len(ps) \in Nat /\ \A i \in 1..Len(ps) : ps[i].sats \in Nat /\ ps[i].worker \in Workers
  BY <1>3, PayeesFacts
<1>6. ps[k].sats >= PayoutFloor
  BY <1>3, <1>4, <1>5, FloorFacts
<1>7. PICK b : Charged(b, ps, c)
  BY <1>1, <1>3, PaidCharges
<1>8. b[k - 1] + CostAt(ps, k) <= c
  <2>1. k - 1 \in 0..Len(ps) /\ k \in Nat
    BY <1>5
  <2>2. CASE k = 1
    <3>1. b[k - 1] = FixedBytes
      BY <1>7, <2>2 DEF Charged
    <3>2. FixedBytes + CostAt(ps, k) <= c
      BY <1>1, <1>5, FixedFacts DEF CostAt
    <3>. QED  BY <3>1, <3>2
  <2>3. CASE k # 1
    <3>1. PICK v \in Workers : \A w \in Workers : OutputBytes[w] <= OutputBytes[v]
      BY <1>5, BytesFacts
    <3>2. PICK m : m = OutputBytes[v]
      OBVIOUS
    <3>3. m \in Nat /\ \A w \in Workers : OutputBytes[w] <= m
      BY <3>1, <3>2, BytesFacts
    <3>4. b[k - 1] <= FixedBytes + (k - 1) * m
      BY <1>1, <1>3, <1>7, <2>1, <3>3, ChargedAtMost
    <3>5. CostAt(ps, k) <= m /\ CostAt(ps, k) \in Nat
      BY <1>3, <1>5, <3>3, PayeesFacts DEF CostAt
    <3>6. FixedBytes + k * m <= TightestBudget
      BY <1>4, <2>3, <3>1, <3>2
    <3>7. TightestBudget <= c /\ TightestBudget \in Nat /\ FixedBytes \in Nat /\ c \in Nat
      BY <1>1, TightestIs, FixedFacts
    <3>8. (k - 1) * m = k * m - m /\ k * m \in Int
      BY <2>1, <3>3
    <3>9. b[k - 1] \in Nat
      BY <1>7, <2>1 DEF Charged
    <3>10. PICK x, y : x = (k - 1) * m /\ y = k * m
      OBVIOUS
    <3>. QED  BY <3>3, <3>4, <3>5, <3>6, <3>7, <3>8, <3>9
  <2>. QED  BY <2>2, <2>3
<1>9. k \in Paid(ps, c)
  BY <1>6, <1>7, <1>8 DEF Charged, RoomAt
<1>10. PICK S : S = {ps[i].sats : i \in DOMAIN ps}
  OBVIOUS
<1>11. ps[k].sats \in S /\ S \subseteq Nat /\ \A x \in S : ps[k].sats >= x
  BY <1>3, <1>4, <1>5, <1>10
<1>12. Max(S) \in S /\ \A x \in S : Max(S) >= x
  BY <1>11 DEF Max
<1>13. ps[k].sats = Max(S)
  <2>1. PICK x, y : x = ps[k].sats /\ y = Max(S)
    OBVIOUS
  <2>2. x \in Nat /\ y \in Nat /\ x >= y /\ y >= x
    BY <1>11, <1>12, <2>1
  <2>. QED  BY <2>1, <2>2
<1>. QED  BY <1>2, <1>9, <1>10, <1>13

\* The reserved slots of pplns_order_claims never cost the largest miner its output
\* on any listener, provided that coinbase_expected_payout_slots guesses the
\* transaction's own bytes well enough (ReservedFit).
THEOREM LargestIsServed ==
    ASSUME ReservedFit
    PROVE  Spec => []LargestIsPaid
<1>1. Init => TopInv
  BY DEF Init, TopInv
<1>2. QueueInv /\ TopInv /\ [Next]_vars => TopInv'
  BY TopStep
<1>3. QueueInv /\ TopInv => LargestIsPaid
  BY TopIsPaid DEF LargestIsPaid
<1>. QED  BY <1>1, <1>2, <1>3, QueueInvariant, PTL DEF Spec

-----------------------------------------------------------------------------
(* The window of a template. *)

Row == [worker : Miners, difficulty : Nat \ {0}]

\* What the rows ids of the table s weigh.
Weight(s, ids) == SumFunctionOnSet([i \in DOMAIN s |-> s[i].difficulty], ids)

\* The window at row t of the table s begins at row lo.
WindowFrom(s, lo, t) ==
    /\ t \in 1..Len(s) /\ lo \in 1..t
    /\ \A i \in 1..t : Weight(s, (i + 1)..t) < Window <=> lo <= i

\* What the walk has pinned is still there, and is a window once it has settled.
PinInv ==
    pc \in {"walk", "select"} /\ cutoff # 0 /\ ~gone =>
        /\ top \in since..Len(shares) /\ top > 0
        /\ pc = "select" => WindowFrom(shares, cutoff, top)

WinInv ==
    /\ shares \in Seq(Row) /\ Len(shares) <= MaxShares
    /\ durable \in 0..Len(shares) /\ since \in 0..Len(shares)
    /\ batch \in Nat \ {0} /\ cutoff \in Nat
    /\ PinInv

LEMMA RowFacts ==
    ASSUME NEW s \in Seq(Row)
    PROVE  /\ DOMAIN s = 1..Len(s) /\ Len(s) \in Nat
           /\ \A x \in 1..Len(s) : /\ s[x].difficulty \in Nat /\ s[x].difficulty \in Int
                                   /\ s[x].difficulty > 0 /\ s[x].worker \in Miners
<1>1. DOMAIN s = 1..Len(s) /\ Len(s) \in Nat /\ \A x \in 1..Len(s) : s[x] \in Row
  OBVIOUS
<1>2. \A r \in Row : r.difficulty \in Nat /\ r.difficulty \in Int /\ r.difficulty > 0 /\ r.worker \in Miners
  BY DEF Row
<1>. QED  BY <1>1, <1>2

LEMMA WeightNat ==
    ASSUME NEW s \in Seq(Row), NEW ids \in SUBSET (1..Len(s))
    PROVE  Weight(s, ids) \in Nat /\ IsFiniteSet(ids)
<1>1. IsFiniteSet(ids)
  <2>1. Len(s) \in Nat
    OBVIOUS
  <2>2. IsFiniteSet(1..Len(s))
    BY <2>1, FS_Interval
  <2>. QED  BY <2>2, FS_Subset
<1>2. PICK f : f = [i \in DOMAIN s |-> s[i].difficulty]
  OBVIOUS
<1>3. \A x \in ids : f[x] \in Nat
  BY <1>2, RowFacts
<1>4. SumFunctionOnSet(f, ids) \in Nat
  BY <1>1, <1>3, SumNat
<1>. QED  BY <1>1, <1>2, <1>4 DEF Weight

LEMMA WeightSplits ==
    ASSUME NEW s \in Seq(Row), NEW S \in SUBSET (1..Len(s)), NEW T \in SUBSET (1..Len(s)),
           S \cap T = {}
    PROVE  Weight(s, S \cup T) = Weight(s, S) + Weight(s, T)
<1>1. IsFiniteSet(S) /\ IsFiniteSet(T)
  BY WeightNat
<1>2. PICK f : f = [i \in DOMAIN s |-> s[i].difficulty]
  OBVIOUS
<1>3. \A x \in S \cup T : f[x] \in Int
  BY <1>2, RowFacts
<1>4. SumFunctionOnSet(f, S \cup T) = SumFunctionOnSet(f, S) + SumFunctionOnSet(f, T)
  BY <1>1, <1>3, SumUnion
<1>. QED  BY <1>2, <1>4 DEF Weight

\* More rows weigh no less.
LEMMA WeightGrows ==
    ASSUME NEW s \in Seq(Row), NEW t \in 0..Len(s), NEW a \in Nat, NEW b \in Nat, 1 <= a, a <= b
    PROVE  Weight(s, b..t) <= Weight(s, a..t)
<1>1. PICK S, T, U : S = b..t /\ U = a..t /\ T = U \ S
  OBVIOUS
<1>2. S \in SUBSET (1..Len(s)) /\ T \in SUBSET (1..Len(s)) /\ S \cap T = {} /\ S \cup T = U
  BY <1>1
<1>3. Weight(s, U) = Weight(s, S) + Weight(s, T)
  BY <1>2, WeightSplits
<1>4. Weight(s, S) \in Nat /\ Weight(s, T) \in Nat
  BY <1>2, WeightNat
<1>5. Weight(s, S) <= Weight(s, U)
  BY <1>3, <1>4
<1>. QED  BY <1>1, <1>5

LEMMA WeightOfOne ==
    ASSUME NEW s \in Seq(Row), NEW t \in 1..Len(s), NEW i \in 1..t
    PROVE  /\ Weight(s, i..t) = s[i].difficulty + Weight(s, (i + 1)..t)
           /\ Weight(s, i..t) \in Nat /\ Weight(s, (i + 1)..t) \in Nat
           /\ s[i].difficulty \in Nat
<1>1. PICK S : S = i..t
  OBVIOUS
<1>2. S \in SUBSET (1..Len(s)) /\ i \in S /\ S \ {i} = (i + 1)..t /\ (i + 1)..t \in SUBSET (1..Len(s))
  BY <1>1
<1>3. IsFiniteSet(S) /\ Weight(s, S) \in Nat /\ Weight(s, (i + 1)..t) \in Nat
  BY <1>2, WeightNat
<1>4. PICK f : f = [j \in DOMAIN s |-> s[j].difficulty]
  OBVIOUS
<1>5. \A x \in S : f[x] \in Int
  BY <1>2, <1>4, RowFacts
<1>6. SumFunctionOnSet(f, S) = f[i] + SumFunctionOnSet(f, S \ {i})
  BY <1>2, <1>3, <1>5, SumTake
<1>7. f[i] = s[i].difficulty /\ s[i].difficulty \in Nat
  BY <1>2, <1>4, RowFacts
<1>. QED  BY <1>1, <1>2, <1>3, <1>4, <1>6, <1>7 DEF Weight

\* What two tables agree on weighs the same in both.
LEMMA WeightSame ==
    ASSUME NEW s \in Seq(Row), NEW u \in Seq(Row), NEW n \in 0..Len(s), n <= Len(u),
           \A i \in 1..n : u[i] = s[i], NEW ids \in SUBSET (1..n)
    PROVE  Weight(u, ids) = Weight(s, ids)
<1>1. ids \in SUBSET (1..Len(s)) /\ ids \in SUBSET (1..Len(u))
  OBVIOUS
<1>2. IsFiniteSet(ids)
  BY <1>1, WeightNat
<1>3. PICK f, g : f = [j \in DOMAIN s |-> s[j].difficulty] /\ g = [j \in DOMAIN u |-> u[j].difficulty]
  OBVIOUS
<1>4. \A x \in ids : f[x] \in Int /\ g[x] = f[x]
  BY <1>1, <1>3, RowFacts
<1>5. SumFunctionOnSet(f, ids) = SumFunctionOnSet(g, ids)
  BY <1>2, <1>4, SumSame
<1>. QED  BY <1>3, <1>5 DEF Weight

LEMMA WindowSame ==
    ASSUME NEW s \in Seq(Row), NEW u \in Seq(Row), NEW lo, NEW t \in 1..Len(u),
           \A i \in 1..t : u[i] = s[i], WindowFrom(s, lo, t)
    PROVE  WindowFrom(u, lo, t)
<1>1. t \in 1..Len(s) /\ lo \in 1..t
  BY DEF WindowFrom
<1>2. ASSUME NEW i \in 1..t PROVE Weight(u, (i + 1)..t) < Window <=> lo <= i
  <2>1. PICK ids : ids = (i + 1)..t
    OBVIOUS
  <2>2. ids \in SUBSET (1..t)
    BY <2>1
  <2>3. Weight(u, ids) = Weight(s, ids)
    BY <1>1, <2>2, WeightSame
  <2>. QED  BY <2>1, <2>3 DEF WindowFrom
<1>. QED  BY <1>1, <1>2 DEF WindowFrom

LEMMA MinIs ==
    ASSUME NEW S \in SUBSET Nat, S # {}
    PROVE  Min(S) \in S /\ \A x \in S : Min(S) <= x
<1>1. \E m \in S : \A x \in S : m <= x
  BY LeastNat
<1>. QED  BY <1>1 DEF Min

LEMMA SumIsWeight ==
    ASSUME NEW ids
    PROVE  Difficulty(ids) = Weight(shares, ids)
BY DEF Difficulty, Weight

\* What one step of the walk has read.
Read(rows) ==
    /\ rows = {i \in Max({1, Len(shares) - batch + 1})..Len(shares) : Counts(i, Len(shares))}
    /\ rows # {}

\* A batch reaches up to the newest row, and has no gaps.
LEMMA BatchFacts ==
    ASSUME WinInv, NEW rows, Read(rows)
    PROVE  /\ Len(shares) \in Nat \ {0}
           /\ Max(rows) = Len(shares) /\ Min(rows) \in rows /\ rows = Min(rows)..Len(shares)
           /\ Min(rows) \in 1..Len(shares)
           /\ \A i \in Min(rows)..Len(shares) : Weight(shares, (i + 1)..Len(shares)) < Window
           /\ \A i \in 1..Min(rows) - 1 :
                 i >= Len(shares) - batch + 1 => ~(Weight(shares, (i + 1)..Len(shares)) < Window)
<1>1. PICK L, s : L = Len(shares) /\ s = shares
  OBVIOUS
<1>2. s \in Seq(Row) /\ L \in Nat /\ L = Len(s) /\ batch \in Nat /\ batch > 0 /\ Window \in Nat /\ Window > 0
  BY <1>1, RowFacts, WindowAssumption DEF WinInv
<1>3. PICK from : from = Max({1, L - batch + 1})
  OBVIOUS
<1>4. from \in Nat /\ from >= 1 /\ from >= L - batch + 1 /\ (from = 1 \/ from = L - batch + 1)
  <2>1. PICK S : S = {1, L - batch + 1}
    OBVIOUS
  <2>2. S # {} /\ S \subseteq Int
    BY <1>2, <2>1
  <2>3. IsFiniteSet(S)
    <3>1. IsFiniteSet({1}) /\ S = {1} \cup {L - batch + 1}
      BY <2>1, FS_Singleton
    <3>. QED  BY <3>1, FS_AddElement
  <2>4. Max(S) \in S /\ \A x \in S : x <= Max(S)
    BY <2>2, <2>3, MaxIs
  <2>. QED  BY <1>2, <1>3, <2>1, <2>4
<1>5. \A i : i \in rows <=> i \in from..L /\ Weight(s, (i + 1)..L) < Window
  BY <1>1, <1>3, SumIsWeight DEF Read, Counts
<1>6. rows \in SUBSET (1..L) /\ rows \in SUBSET Nat /\ rows \in SUBSET Int /\ rows # {} /\ L >= 1 /\ from <= L
  <2>1. \A i \in rows : i \in 1..L /\ i \in Nat /\ i \in Int /\ from <= i /\ i <= L
    BY <1>2, <1>4, <1>5
  <2>2. PICK i \in rows : TRUE
    BY DEF Read
  <2>3. L >= 1 /\ from <= L
    BY <1>2, <1>4, <2>1, <2>2
  <2>. QED  BY <2>1, <2>2, <2>3
<1>7. PICK m : m = Min(rows)
  OBVIOUS
<1>8. m \in rows /\ \A x \in rows : m <= x
  BY <1>6, <1>7, MinIs
<1>9. m \in 1..L /\ m >= from /\ Weight(s, (m + 1)..L) < Window
  BY <1>2, <1>4, <1>5, <1>6, <1>8
<1>10. ASSUME NEW i \in m..L PROVE i \in rows /\ Weight(s, (i + 1)..L) < Window
  <2>1. PICK a, b : a = m + 1 /\ b = i + 1
    OBVIOUS
  <2>2. L \in 0..Len(s) /\ a \in Nat /\ b \in Nat /\ 1 <= a /\ a <= b
    BY <1>2, <1>9, <2>1
  <2>3. Weight(s, b..L) <= Weight(s, a..L)
    BY <1>2, <2>2, WeightGrows
  <2>4. Weight(s, b..L) \in Nat /\ Weight(s, a..L) \in Nat
    <3>1. b..L \in SUBSET (1..Len(s)) /\ a..L \in SUBSET (1..Len(s))
      BY <1>2, <2>2
    <3>. QED  BY <1>2, <3>1, WeightNat
  <2>5. Weight(s, b..L) < Window
    BY <1>2, <1>9, <2>1, <2>3, <2>4
  <2>. QED  BY <1>2, <1>4, <1>5, <1>9, <2>1, <2>5
<1>11. rows = m..L
  <2>1. \A i \in rows : i \in m..L
    BY <1>2, <1>6, <1>8, <1>9
  <2>2. \A i \in m..L : i \in rows
    BY <1>10
  <2>. QED  BY <2>1, <2>2
<1>12. Max(rows) = L
  <2>1. IsFiniteSet(rows)
    BY <1>2, <1>6, WeightNat
  <2>2. Max(rows) \in rows /\ \A x \in rows : x <= Max(rows)
    BY <1>6, <2>1, MaxIs
  <2>3. L \in rows
    BY <1>2, <1>9, <1>11
  <2>4. PICK x : x = Max(rows)
    OBVIOUS
  <2>5. x \in 1..L /\ L <= x
    BY <1>6, <2>2, <2>3, <2>4
  <2>6. x = L
    BY <1>2, <2>5
  <2>. QED  BY <2>4, <2>6
<1>13. ASSUME NEW i \in 1..m - 1, i >= L - batch + 1 PROVE ~(Weight(s, (i + 1)..L) < Window)
  <2>1. i \in from..L
    BY <1>2, <1>4, <1>9, <1>13
  <2>2. i \notin rows
    BY <1>8, <1>9
  <2>. QED  BY <1>5, <2>1, <2>2
<1>. QED  BY <1>1, <1>2, <1>6, <1>7, <1>8, <1>9, <1>10, <1>11, <1>12, <1>13

\* Where the walk settles is where the window begins.
LEMMA WalkFinds ==
    ASSUME WinInv, NEW rows, Read(rows), Difficulty(rows) >= Window \/ Cardinality(rows) < batch
    PROVE  WindowFrom(shares, Min(rows), Max(rows))
<1>1. PICK L, s, m : L = Len(shares) /\ s = shares /\ m = Min(rows)
  OBVIOUS
<1>2. /\ L \in Nat \ {0} /\ Max(rows) = L /\ rows = m..L /\ m \in 1..L
      /\ \A i \in m..L : Weight(s, (i + 1)..L) < Window
      /\ \A i \in 1..m - 1 : i >= L - batch + 1 => ~(Weight(s, (i + 1)..L) < Window)
  BY <1>1, BatchFacts
<1>3. s \in Seq(Row) /\ L = Len(s) /\ batch \in Nat /\ batch > 0 /\ Window \in Nat
  BY <1>1, WindowAssumption DEF WinInv
<1>4. ASSUME NEW i \in 1..m - 1, NEW k \in i..m, ~(Weight(s, k..L) < Window), k > i
      PROVE  ~(Weight(s, (i + 1)..L) < Window)
  <2>1. PICK a : a = i + 1
    OBVIOUS
  <2>2. L \in 0..Len(s) /\ a \in Nat /\ k \in Nat /\ 1 <= a /\ a <= k
    BY <1>2, <1>3, <1>4, <2>1
  <2>3. Weight(s, k..L) <= Weight(s, a..L)
    BY <1>3, <2>2, WeightGrows
  <2>4. Weight(s, k..L) \in Nat /\ Weight(s, a..L) \in Nat
    <3>1. k..L \in SUBSET (1..Len(s)) /\ a..L \in SUBSET (1..Len(s))
      BY <1>3, <2>2
    <3>. QED  BY <1>3, <3>1, WeightNat
  <2>. QED  BY <1>3, <1>4, <2>1, <2>3, <2>4
<1>5. ASSUME NEW i \in 1..m - 1 PROVE ~(Weight(s, (i + 1)..L) < Window)
  <2>1. CASE Difficulty(rows) >= Window
    <3>1. Weight(s, m..L) >= Window
      BY <1>1, <1>2, <2>1, SumIsWeight
    <3>2. Weight(s, m..L) \in Nat
      <4>1. m..L \in SUBSET (1..Len(s))
        BY <1>2, <1>3
      <4>. QED  BY <1>3, <4>1, WeightNat
    <3>3. m \in i..m /\ m > i
      BY <1>2
    <3>. QED  BY <1>3, <1>4, <3>1, <3>2, <3>3
  <2>2. CASE Cardinality(rows) < batch
    <3>1. L - m + 1 < batch
      BY <1>2, <2>2, FS_Interval
    <3>2. CASE i >= L - batch + 1
      BY <1>2, <3>2
    <3>3. CASE i < L - batch + 1
      <4>1. PICK j : j = L - batch + 1
        OBVIOUS
      <4>2. j \in 1..m - 1 /\ j + 1 \in i..m /\ j + 1 > i /\ j >= L - batch + 1
        BY <1>2, <1>3, <3>1, <3>3, <4>1
      <4>3. ~(Weight(s, (j + 1)..L) < Window)
        BY <1>2, <4>2
      <4>. QED  BY <1>4, <4>2, <4>3
    <3>. QED  BY <1>2, <1>3, <3>2, <3>3
  <2>. QED  BY <2>1, <2>2
<1>6. ASSUME NEW i \in 1..L PROVE Weight(s, (i + 1)..L) < Window <=> m <= i
  <2>1. CASE m <= i
    BY <1>2, <2>1
  <2>2. CASE ~(m <= i)
    <3>1. i \in 1..m - 1
      BY <1>2, <2>2
    <3>. QED  BY <1>5, <2>2, <3>1
  <2>. QED  BY <2>1, <2>2
<1>. QED  BY <1>1, <1>2, <1>3, <1>6 DEF WindowFrom

\* The rows of worker w among ids, what they make of him, and everybody's.
Of(ids, w) == {i \in ids : shares[i].worker = w}
ClaimOf(ids, w) == [worker |-> w, difficulty |-> Difficulty(Of(ids, w))]
Present(ids) == {w \in WithAddress : Of(ids, w) # {}}
ClaimSet(ids) == {ClaimOf(ids, w) : w \in Present(ids)}
ClaimOrder(ids) == {p \in ClaimSet(ids) \X ClaimSet(ids) : Before(p[1], p[2])}

LEMMA ClaimsIs ==
    ASSUME NEW ids
    PROVE  Claims(ids) = [k \in 1..Cardinality(ClaimSet(ids)) |->
              CHOOSE c \in ClaimSet(ids) : Cardinality({d \in ClaimSet(ids) : Before(d, c)}) = k - 1]
BY DEF Claims, ClaimSet, ClaimOf, Present, Of

LEMMA ClaimSetFacts ==
    ASSUME WinInv, NEW ids \in SUBSET (1..Len(shares))
    PROVE  /\ IsFiniteSet(ClaimSet(ids))
           /\ \A c \in ClaimSet(ids) :
                 /\ c.worker \in WithAddress /\ c.worker \in Nat /\ c.difficulty \in Nat
                 /\ c = ClaimOf(ids, c.worker)
<1>1. WithAddress \subseteq Nat /\ IsFiniteSet(WithAddress)
  BY WindowAssumption, FS_Subset
<1>2. IsFiniteSet(Present(ids)) /\ Present(ids) \subseteq WithAddress
  BY <1>1, FS_Subset DEF Present
<1>3. IsFiniteSet(ClaimSet(ids))
  <2>1. PICK P, S, f : P = Present(ids) /\ S = ClaimSet(ids) /\ f = [w \in P |-> ClaimOf(ids, w)]
    OBVIOUS
  <2>2. f \in Surjection(P, S)
    BY <2>1 DEF Surjection, ClaimSet
  <2>. QED  BY <1>2, <2>1, <2>2, FS_Surjection
<1>4. ASSUME NEW c \in ClaimSet(ids)
      PROVE  /\ c.worker \in WithAddress /\ c.worker \in Nat /\ c.difficulty \in Nat
             /\ c = ClaimOf(ids, c.worker)
  <2>1. PICK w \in Present(ids) : c = ClaimOf(ids, w)
    BY DEF ClaimSet
  <2>2. c.worker = w /\ c.difficulty = Difficulty(Of(ids, w))
    BY <2>1 DEF ClaimOf
  <2>3. Difficulty(Of(ids, w)) \in Nat
    <3>1. Of(ids, w) \in SUBSET (1..Len(shares)) /\ shares \in Seq(Row)
      BY DEF Of, WinInv
    <3>. QED  BY <3>1, WeightNat, SumIsWeight
  <2>. QED  BY <1>1, <1>2, <2>1, <2>2, <2>3
<1>. QED  BY <1>3, <1>4

LEMMA ClaimsList ==
    ASSUME WinInv, NEW ids \in SUBSET (1..Len(shares))
    PROVE  Lists(Claims(ids), ClaimSet(ids), ClaimOrder(ids))
<1>. DEFINE S == ClaimSet(ids)
            R == ClaimOrder(ids)
<1>1. IsFiniteSet(S)
  BY ClaimSetFacts
<1>2. \A c \in S : c.worker \in Nat /\ c.difficulty \in Nat /\ c = ClaimOf(ids, c.worker)
  BY ClaimSetFacts
<1>3. \A c, d \in S : <<c, d>> \in R <=> Before(c, d)
  BY DEF ClaimOrder
<1>4. Orders(R, S)
  <2>. HIDE DEF S, R
  <2>1. \A x \in S : ~Before(x, x)
    BY <1>2 DEF Before
  <2>2. ASSUME NEW x \in S, NEW y \in S PROVE x = y \/ Before(x, y) \/ Before(y, x)
    <3>1. x.worker = y.worker => x = y
      BY <1>2
    <3>2. PICK a, b, i, j : a = x.difficulty /\ b = y.difficulty /\ i = x.worker /\ j = y.worker
      OBVIOUS
    <3>3. a \in Nat /\ b \in Nat /\ i \in Nat /\ j \in Nat
      BY <1>2, <3>2
    <3>4. i = j \/ (a > b \/ (a = b /\ i < j)) \/ (b > a \/ (b = a /\ j < i))
      BY <3>3
    <3>. QED  BY <3>1, <3>2, <3>4 DEF Before
  <2>3. ASSUME NEW x \in S, NEW y \in S, NEW z \in S, Before(x, y), Before(y, z) PROVE Before(x, z)
    <3>1. PICK a, b, c, i, j, k : a = x.difficulty /\ b = y.difficulty /\ c = z.difficulty
                               /\ i = x.worker /\ j = y.worker /\ k = z.worker
      OBVIOUS
    <3>2. a \in Nat /\ b \in Nat /\ c \in Nat /\ i \in Nat /\ j \in Nat /\ k \in Nat
      BY <1>2, <3>1
    <3>3. (a > b \/ (a = b /\ i < j)) /\ (b > c \/ (b = c /\ j < k))
      BY <2>3, <3>1 DEF Before
    <3>4. a > c \/ (a = c /\ i < k)
      BY <3>2, <3>3
    <3>. QED  BY <3>1, <3>4 DEF Before
  <2>. QED  BY <1>3, <2>1, <2>2, <2>3 DEF Orders
<1>5. \A x \in S : {y \in S : Before(y, x)} = Below(S, R, x)
  BY <1>3 DEF Below
<1>6. PICK q : q = Claims(ids)
  OBVIOUS
<1>7. q = [k \in 1..Cardinality(S) |->
             CHOOSE x \in S : Cardinality({y \in S : Before(y, x)}) = k - 1]
  BY <1>6, ClaimsIs
<1>. HIDE DEF S, R
<1>8. ASSUME NEW k \in 1..Cardinality(S)
      PROVE  q[k] \in S /\ Cardinality(Below(S, R, q[k])) = k - 1
  <2>0. Cardinality(S) \in Nat
    BY <1>1, FS_CardinalityType
  <2>1. k - 1 \in 0..Cardinality(S) - 1
    BY <2>0
  <2>2. PICK x \in S : Cardinality(Below(S, R, x)) = k - 1
    BY <1>1, <1>4, <2>1, EveryRank
  <2>3. Cardinality({y \in S : Before(y, x)}) = k - 1
    BY <1>5, <2>2
  <2>4. q[k] \in S /\ Cardinality({y \in S : Before(y, q[k])}) = k - 1
    BY <1>7, <2>3
  <2>. QED  BY <1>5, <2>4
<1>9. q \in [1..Cardinality(S) -> S]
  BY <1>7, <1>8
<1>10. Lists(q, S, R)
  BY <1>1, <1>4, <1>8, <1>9, RankedLists
<1>. QED  BY <1>6, <1>10 DEF S, R

\* The rows between the ends of a window are the ones the distributor counts.
LEMMA AnchoredRows ==
    ASSUME WinInv, NEW lo, NEW t, WindowFrom(shares, lo, t)
    PROVE  /\ {i \in DOMAIN shares : lo <= i /\ i <= t} = Anchored(t)
           /\ Anchored(t) \in SUBSET (1..Len(shares))
<1>1. shares \in Seq(Row) /\ t \in 1..Len(shares) /\ lo \in 1..t /\ DOMAIN shares = 1..Len(shares)
      /\ Len(shares) \in Nat /\ Window \in Nat
  BY RowFacts, WindowAssumption DEF WinInv, WindowFrom
<1>2. ASSUME NEW i \in 1..t
      PROVE  Difficulty(i..t) - shares[i].difficulty < Window <=> lo <= i
  <2>1. PICK a, b, d : a = Weight(shares, i..t) /\ b = Weight(shares, (i + 1)..t) /\ d = shares[i].difficulty
    OBVIOUS
  <2>2. a = d + b /\ a \in Nat /\ b \in Nat /\ d \in Nat
    BY <1>1, <2>1, WeightOfOne
  <2>3. b < Window <=> lo <= i
    BY <2>1 DEF WindowFrom
  <2>4. Difficulty(i..t) = a
    BY <2>1, SumIsWeight
  <2>5. a - d < Window <=> b < Window
    BY <1>1, <2>2
  <2>. QED  BY <2>1, <2>3, <2>4, <2>5
<1>3. \A i : i \in Anchored(t) <=> i \in 1..t /\ lo <= i
  BY <1>2 DEF Anchored
<1>4. \A i : i \in DOMAIN shares /\ lo <= i /\ i <= t <=> i \in 1..t /\ lo <= i
  BY <1>1
<1>5. \A i : i \in Anchored(t) => i \in 1..Len(shares)
  BY <1>1, <1>3
<1>. QED  BY <1>3, <1>4, <1>5

LEMMA SelectGives ==
    ASSUME WinInv, NEW t, NEW rows, rows = Anchored(t), rows \in SUBSET (1..Len(shares))
    PROVE  IsWindowAt(Kept(Claims(rows), Cap), t)
<1>1. PICK S, q, n, m, e : /\ S = ClaimSet(rows) /\ q = Claims(rows) /\ n = Cardinality(S)
                           /\ m = Min({Cap, Cap, Len(q)}) /\ e = Kept(q, Cap)
  OBVIOUS
<1>2. Lists(q, S, ClaimOrder(rows)) /\ IsFiniteSet(S)
  BY <1>1, ClaimsList, ClaimSetFacts
<1>3. q \in Seq(S) /\ Len(q) = n /\ n \in Nat
  BY <1>1, <1>2, FS_CardinalityType DEF Lists
<1>4. m \in Nat /\ m <= n /\ m <= Cap /\ (m = n \/ m = Cap) /\ Cap \in Nat
  <2>1. PICK M : M = {Cap, Cap, Len(q)}
    OBVIOUS
  <2>2. M \in SUBSET Nat /\ M # {} /\ Cap \in Nat
    BY <1>3, <2>1, WindowAssumption
  <2>3. Min(M) \in M /\ \A x \in M : Min(M) <= x
    BY <2>2, MinIs
  <2>. QED  BY <1>1, <1>3, <2>1, <2>2, <2>3
<1>5. e = SubSeq(q, 1, m)
  BY <1>1 DEF Kept
<1>6. DOMAIN e = 1..m /\ Len(e) = m /\ \A k \in 1..m : e[k] = q[k]
  BY <1>3, <1>4, <1>5
<1>7. \A w : Earned(w, t) = Difficulty(Of(rows, w))
  BY DEF Earned, Of
<1>8. \A k \in 1..n : q[k] \in S
  BY <1>1, <1>2 DEF Lists
<1>9. \A c \in S : c.difficulty = Earned(c.worker, t) /\ c.difficulty \in Nat
  BY <1>1, <1>7, ClaimSetFacts DEF ClaimOf
<1>10. ASSUME NEW k \in DOMAIN e PROVE e[k] \in S /\ e[k].difficulty = Earned(e[k].worker, t)
  BY <1>3, <1>4, <1>6, <1>8, <1>9
<1>11. ASSUME NEW w \in WithAddress, Earned(w, t) # 0, ~\E k \in DOMAIN e : e[k].worker = w
       PROVE  Len(e) = Cap /\ \A k \in DOMAIN e : e[k].difficulty >= Earned(w, t)
  <2>1. Of(rows, w) # {}
    <3>1. SUFFICES ASSUME Of(rows, w) = {} PROVE FALSE
      OBVIOUS
    <3>2. Difficulty({}) = 0
      BY SumEmpty DEF Difficulty
    <3>. QED  BY <1>7, <1>11, <3>1, <3>2
  <2>2. PICK c : c = ClaimOf(rows, w)
    OBVIOUS
  <2>3. c \in S /\ c.worker = w /\ c.difficulty = Earned(w, t)
    BY <1>1, <1>7, <2>1, <2>2 DEF ClaimSet, Present, ClaimOf
  <2>4. PICK p \in 1..n : q[p] = c
    BY <1>1, <1>2, <2>3 DEF Lists
  <2>5. ~(p <= m)
    BY <1>3, <1>4, <1>6, <1>11, <2>3, <2>4
  <2>6. m = Cap
    BY <1>3, <1>4, <2>4, <2>5
  <2>7. ASSUME NEW k \in DOMAIN e PROVE e[k].difficulty >= Earned(w, t)
    <3>1. k \in 1..n /\ k < p /\ e[k] = q[k]
      BY <1>3, <1>4, <1>6, <2>4, <2>5
    <3>2. <<q[k], q[p]>> \in ClaimOrder(rows)
      BY <1>1, <1>2, <2>4, <3>1 DEF Lists
    <3>3. Before(q[k], c)
      BY <2>4, <3>2 DEF ClaimOrder
    <3>4. q[k].difficulty \in Nat /\ c.difficulty \in Nat
      BY <1>8, <1>9, <2>3, <3>1
    <3>5. q[k].difficulty >= c.difficulty
      BY <3>3, <3>4 DEF Before
    <3>. QED  BY <2>3, <3>1, <3>5
  <2>. QED  BY <1>6, <2>6, <2>7
<1>12. IsWindowAt(e, t)
  BY <1>10, <1>11 DEF IsWindowAt
<1>. QED  BY <1>1, <1>12

-----------------------------------------------------------------------------
(* The steps of the window. *)

LEMMA WinInit == InitWindow => WinInv
<1>1. <<>> \in Seq(Row) /\ Len(<<>>) = 0
  OBVIOUS
<1>2. MaxShares \in Nat /\ FirstBatch \in Nat \ {0}
  BY WindowAssumption
<1>. QED  BY <1>1, <1>2 DEF InitWindow, WinInv, PinInv

\* The table grows or is cut back, but not below what is pinned.
LEMMA PinStays ==
    ASSUME WinInv, shares' \in Seq(Row), UNCHANGED <<pc, cutoff, top>>,
           since' \in Nat, since' <= since, ~gone' => ~gone,
           pc \in {"walk", "select"} /\ cutoff # 0 /\ ~gone' =>
              top <= Len(shares') /\ \A i \in 1..top : shares'[i] = shares[i]
    PROVE  PinInv'
<1>1. SUFFICES ASSUME (pc \in {"walk", "select"} /\ cutoff # 0 /\ ~gone)'
               PROVE  /\ (top \in since..Len(shares) /\ top > 0)'
                      /\ (pc = "select" => WindowFrom(shares, cutoff, top))'
  BY DEF PinInv
<1>2. pc \in {"walk", "select"} /\ cutoff # 0 /\ ~gone' /\ ~gone
  BY <1>1
<1>3. top \in since..Len(shares) /\ top > 0 /\ (pc = "select" => WindowFrom(shares, cutoff, top))
  BY <1>2 DEF WinInv, PinInv
<1>4. PICK s, u, t, lo : s = shares /\ u = shares' /\ t = top /\ lo = cutoff
  OBVIOUS
<1>5. s \in Seq(Row) /\ u \in Seq(Row) /\ Len(s) \in Nat /\ Len(u) \in Nat /\ t <= Len(u)
      /\ since \in Nat /\ \A i \in 1..t : u[i] = s[i]
  BY <1>2, <1>4, RowFacts DEF WinInv
<1>6. (top \in since..Len(shares) /\ top > 0)'
  BY <1>3, <1>4, <1>5
<1>7. ASSUME pc = "select" PROVE WindowFrom(u, lo, t)
  <2>1. WindowFrom(s, lo, t)
    BY <1>3, <1>4, <1>7
  <2>2. t \in 1..Len(u)
    BY <1>5, <2>1 DEF WindowFrom
  <2>. QED  BY <1>5, <2>1, <2>2, WindowSame
<1>8. ASSUME pc' = "select" PROVE WindowFrom(shares, cutoff, top)'
  <2>1. WindowFrom(u, lo, t)
    BY <1>7, <1>8
  <2>2. u = shares' /\ lo = cutoff' /\ t = top'
    BY <1>4
  <2>. QED  BY <2>1, <2>2 DEF WindowFrom, Weight
<1>. QED  BY <1>6, <1>8

LEMMA WinStep == WinInv /\ [NextWindow]_windowVars => WinInv'
<1>. SUFFICES ASSUME WinInv, [NextWindow]_windowVars PROVE WinInv'
  OBVIOUS
<1>0. /\ shares \in Seq(Row) /\ Len(shares) \in Nat /\ Len(shares) <= MaxShares
      /\ durable \in 0..Len(shares) /\ since \in 0..Len(shares)
      /\ batch \in Nat /\ batch > 0 /\ cutoff \in Nat
      /\ MaxShares \in Nat /\ FirstBatch \in Nat /\ FirstBatch > 0
  BY RowFacts, WindowAssumption DEF WinInv
<1>p. pc \in {"walk", "select"} /\ cutoff # 0 /\ ~gone => top \in since..Len(shares) /\ top > 0
  BY DEF WinInv, PinInv
<1>1. ASSUME NEW w \in Miners, Insert(w) PROVE WinInv'
  <2>1. PICK r : r = [worker |-> w, difficulty |-> Assigned[w]]
    OBVIOUS
  <2>2. r \in Row
    BY <2>1, WindowAssumption DEF Row
  <2>3. shares' = Append(shares, r) /\ UNCHANGED <<durable, pc, batch, cutoff, top, since, gone>>
        /\ Len(shares) < MaxShares
    BY <1>1, <2>1 DEF Insert
  <2>4. shares' \in Seq(Row) /\ Len(shares') = Len(shares) + 1
        /\ \A i \in 1..Len(shares) : shares'[i] = shares[i]
    BY <1>0, <2>2, <2>3
  <2>5. pc \in {"walk", "select"} /\ cutoff # 0 /\ ~gone' =>
          top <= Len(shares') /\ \A i \in 1..top : shares'[i] = shares[i]
    BY <1>0, <1>p, <2>3, <2>4
  <2>6. PinInv'
    <3>1. since' \in Nat /\ since' <= since /\ (~gone' => ~gone)
      BY <1>0, <2>3
    <3>. QED  BY <2>3, <2>4, <2>5, <3>1, PinStays
  <2>. QED  BY <1>0, <2>3, <2>4, <2>6 DEF WinInv
<1>2. CASE Commit
  <2>1. UNCHANGED <<shares, pc, batch, cutoff, top, since, gone>> /\ durable' = Len(shares)
    BY <1>2 DEF Commit
  <2>2. PinInv'
    BY <1>0, <1>p, <2>1, PinStays
  <2>. QED  BY <1>0, <2>1, <2>2 DEF WinInv
<1>3. CASE Rollback
  <2>1. /\ shares' = SubSeq(shares, 1, durable) /\ since' = Min({since, durable})
        /\ gone' = (gone \/ (top # Unpinned /\ top > durable))
        /\ UNCHANGED <<durable, pc, batch, cutoff, top>>
    BY <1>3 DEF Rollback
  <2>2. shares' \in Seq(Row) /\ Len(shares') = durable
        /\ \A i \in 1..durable : shares'[i] = shares[i]
    BY <1>0, <2>1
  <2>3. since' \in Nat /\ since' <= since /\ since' <= durable
    <3>1. PICK M : M = {since, durable}
      OBVIOUS
    <3>2. M \in SUBSET Nat /\ M # {}
      BY <1>0, <3>1
    <3>3. Min(M) \in M /\ \A x \in M : Min(M) <= x
      BY <3>2, MinIs
    <3>. QED  BY <1>0, <2>1, <3>1, <3>3
  <2>4. pc \in {"walk", "select"} /\ cutoff # 0 /\ ~gone' =>
          top <= Len(shares') /\ \A i \in 1..top : shares'[i] = shares[i]
    <3>1. SUFFICES ASSUME pc \in {"walk", "select"}, cutoff # 0, ~gone'
                   PROVE  top <= Len(shares') /\ \A i \in 1..top : shares'[i] = shares[i]
      OBVIOUS
    <3>2. ~gone /\ (top = Unpinned \/ ~(top > durable))
      BY <2>1, <3>1
    <3>3. top \in since..Len(shares)
      BY <1>p, <3>1, <3>2
    <3>4. top <= durable /\ top \in Int
      BY <1>0, <3>2, <3>3 DEF Unpinned
    <3>. QED  BY <1>0, <2>2, <3>4
  <2>5. ~gone' => ~gone
    BY <2>1
  <2>6. PinInv'
    BY <2>1, <2>2, <2>3, <2>4, <2>5, PinStays
  <2>. QED  BY <1>0, <2>1, <2>2, <2>3, <2>6 DEF WinInv
<1>4. CASE Call
  <2>1. cutoff' = 0 /\ batch' = FirstBatch /\ since' = Len(shares) /\ UNCHANGED <<shares, durable>>
    BY <1>4 DEF Call
  <2>. QED  BY <1>0, <2>1 DEF WinInv, PinInv
<1>5. CASE Walk
  <2>1. PICK last, rows : /\ last = Len(shares)
                          /\ rows = {i \in Max({1, last - batch + 1})..last : Counts(i, last)}
    OBVIOUS
  <2>2. /\ pc = "walk"
        /\ IF rows = {} THEN UNCHANGED <<cutoff, top>> ELSE cutoff' = Min(rows) /\ top' = Pin(rows)
        /\ UNCHANGED <<shares, durable, since, gone>>
    BY <1>5, <2>1 DEF Walk
  <2>3. pc' = "select" => rows = {} \/ Difficulty(rows) >= Window \/ Cardinality(rows) < batch
    BY <1>5, <2>1 DEF Walk
  <2>4. batch' \in Nat /\ batch' > 0
    <3>1. batch' = batch \/ batch' = batch * 4
      BY <1>5 DEF Walk, Grow, Growth
    <3>. QED  BY <1>0, <3>1
  <2>5. CASE rows = {}
    <3>1. Len(shares) = 0
      <4>1. SUFFICES ASSUME Len(shares) # 0 PROVE FALSE
        OBVIOUS
      <4>2. PICK L : L = Len(shares)
        OBVIOUS
      <4>3. L \in Nat /\ L > 0
        BY <1>0, <4>1, <4>2
      <4>4. PICK from : from = Max({1, L - batch + 1})
        OBVIOUS
      <4>5. from \in Int /\ from <= L
        <5>1. PICK S : S = {1, L - batch + 1}
          OBVIOUS
        <5>2. S # {} /\ S \subseteq Int
          BY <1>0, <4>3, <5>1
        <5>3. IsFiniteSet(S)
          <6>1. IsFiniteSet({1}) /\ S = {1} \cup {L - batch + 1}
            BY <5>1, FS_Singleton
          <6>. QED  BY <6>1, FS_AddElement
        <5>4. Max(S) \in S
          BY <5>2, <5>3, MaxIs
        <5>. QED  BY <1>0, <4>3, <4>4, <5>1, <5>4
      <4>6. Counts(L, L)
        <5>1. (L + 1)..L = {}
          BY <4>3
        <5>2. Difficulty({}) = 0
          BY SumEmpty DEF Difficulty
        <5>3. Window > 0
          BY WindowAssumption
        <5>. QED  BY <5>1, <5>2, <5>3 DEF Counts
      <4>7. L \in rows
        BY <2>1, <4>2, <4>3, <4>4, <4>5, <4>6
      <4>. QED  BY <2>5, <4>7
    <3>2. UNCHANGED <<cutoff, top>>
      BY <2>2, <2>5
    <3>3. cutoff = 0 \/ gone
      BY <1>0, <1>p, <2>2, <3>1
    <3>4. PinInv'
      BY <2>2, <3>2, <3>3 DEF PinInv
    <3>. QED  BY <1>0, <2>2, <2>4, <3>2, <3>4 DEF WinInv
  <2>6. CASE rows # {}
    <3>1. Read(rows)
      BY <2>1, <2>6 DEF Read
    <3>2. /\ Max(rows) = Len(shares) /\ Min(rows) \in 1..Len(shares)
          /\ cutoff' = Min(rows) /\ top' = Max(rows)
      BY <2>2, <2>6, <3>1, BatchFacts DEF Pin
    <3>3. (top \in since..Len(shares) /\ top > 0)' /\ cutoff' \in Nat
      BY <1>0, <2>2, <3>2
    <3>4. ASSUME pc' = "select" PROVE WindowFrom(shares, cutoff, top)'
      <4>1. WindowFrom(shares, Min(rows), Max(rows))
        BY <2>3, <2>6, <3>1, <3>4, WalkFinds
      <4>2. PICK lo, t : lo = Min(rows) /\ t = Max(rows)
        OBVIOUS
      <4>3. WindowFrom(shares, lo, t) /\ lo = cutoff' /\ t = top' /\ shares' = shares
        BY <2>2, <3>2, <4>1, <4>2
      <4>. QED  BY <4>3 DEF WindowFrom, Weight
    <3>5. PinInv'
      BY <3>3, <3>4 DEF PinInv
    <3>. QED  BY <1>0, <2>2, <2>4, <3>3, <3>5 DEF WinInv
  <2>. QED  BY <2>5, <2>6
<1>6. CASE WalkFails
  <2>1. pc' = "error" /\ UNCHANGED <<shares, durable, batch, cutoff, since>>
    BY <1>6 DEF WalkFails
  <2>. QED  BY <1>0, <2>1 DEF WinInv, PinInv
<1>7. CASE Select \/ SelectStepFails
  <2>1. pc' = "done" /\ UNCHANGED <<shares, durable, batch, cutoff, since>>
    BY <1>7 DEF Select, SelectStepFails
  <2>. QED  BY <1>0, <2>1 DEF WinInv, PinInv
<1>8. CASE UNCHANGED windowVars
  <2>1. UNCHANGED <<shares, durable, pc, batch, cutoff, top, since, gone>>
    BY <1>8 DEF windowVars
  <2>2. PinInv'
    BY <1>0, <1>p, <2>1, PinStays
  <2>. QED  BY <1>0, <2>1, <2>2 DEF WinInv
<1>. QED  BY <1>1, <1>2, <1>3, <1>4, <1>5, <1>6, <1>7, <1>8 DEF NextWindow

\* store_pplns_window returns the window of one moment of its call, although it is
\* found by several statements that run beside the writer thread: for any workers,
\* difficulties, window, batch sizes and order of inserts, commits and rollbacks,
\* what the second statement sums between the pinned ends is what the distributor
\* would pay at the pinned top.
THEOREM WindowIsOfOneMoment == WindowSpec => WindowOfOneMoment
<1>1. ASSUME WinInv, [NextWindow]_windowVars
      PROVE  [Returns /\ ~torn' /\ ~gone => WindowOfTheCall]_windowVars
  <2>1. SUFFICES ASSUME NextWindow, Returns, ~torn', ~gone PROVE WindowOfTheCall
    BY <1>1
  <2>2. pc = "select" /\ pc' = "done" /\ cutoff # 0
    BY <2>1 DEF Returns
  <2>3. Select
    BY <2>1, <2>2 DEF NextWindow, Insert, Commit, Rollback, Call, Walk, WalkFails, SelectStepFails
  <2>4. top \in since..Len(shares) /\ WindowFrom(shares, cutoff, top)
    BY <1>1, <2>1, <2>2 DEF WinInv, PinInv
  <2>5. PICK rows : rows = {i \in DOMAIN shares : cutoff <= i /\ i <= top}
    OBVIOUS
  <2>6. rows = Anchored(top) /\ rows \in SUBSET (1..Len(shares))
    BY <1>1, <2>4, <2>5, AnchoredRows
  <2>7. out' = Kept(Claims(rows), Cap)
    BY <2>3, <2>5 DEF Select
  <2>8. IsWindowAt(Kept(Claims(rows), Cap), top)
    BY <1>1, <2>6, SelectGives
  <2>. QED  BY <2>4, <2>7, <2>8 DEF WindowOfTheCall
<1>2. WinInv /\ [NextWindow]_windowVars => [Returns /\ ~torn' /\ ~gone => WindowOfTheCall]_windowVars
  BY <1>1
<1>. QED  BY <1>2, WinInit, WinStep, PTL DEF WindowSpec, WindowOfOneMoment
=============================================================================
