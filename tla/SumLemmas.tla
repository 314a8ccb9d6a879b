------------------------------ MODULE SumLemmas ------------------------------
(***************************************************************************)
(* What the library's sums obey.  SumFunctionOnSet folds in an order       *)
(* nobody knows; the rules below hold in every order.                      *)
(*                                                                         *)
(* The provers cannot instantiate an induction theorem that is about an    *)
(* operator, so the induction rules here are about sets: the set of those  *)
(* numbers, or of those parts of a finite set, for which a claim holds.    *)
(***************************************************************************)
EXTENDS Integers, Functions, FiniteSets, FiniteSetTheorems, WellFoundedInduction, TLAPS

\* A set of naturals has a least member.
LEMMA LeastNat ==
    ASSUME NEW N \in SUBSET Nat, N # {}
    PROVE  \E n \in N : \A m \in N : n <= m
<1>1. PICK n \in N : \A m \in N : ~(<<m, n>> \in OpToRel(<, Nat))
  BY NatLessThanWellFounded, WFMin
<1>2. ASSUME NEW m \in N PROVE n <= m
  <2>1. m < n => <<m, n>> \in OpToRel(<, Nat)
    BY DEF OpToRel
  <2>2. ~(m < n)
    BY ONLY <2>1, <1>1, m \in N
  <2>. QED  BY <2>2
<1>. QED  BY <1>2

\* Induction over the naturals.
LEMMA NatRule ==
    ASSUME NEW Q, 0 \in Q, \A n \in Nat : n \in Q => n + 1 \in Q
    PROVE  Nat \subseteq Q
<1>1. SUFFICES ASSUME Nat \ Q # {} PROVE FALSE
  OBVIOUS
<1>2. PICK n \in Nat \ Q : \A m \in Nat \ Q : n <= m
  BY <1>1, LeastNat
<1>3. n - 1 \in Nat /\ n - 1 \notin Nat \ Q
  BY <1>2
<1>4. (n - 1) + 1 = n
  BY <1>2
<1>. QED  BY <1>2, <1>3, <1>4

\* Induction over the parts of a finite set: from all that are smaller ...
LEMMA PartRule ==
    ASSUME NEW T, IsFiniteSet(T), NEW Q,
           \A s \in SUBSET T : (\A u \in SUBSET s : u # s => u \in Q) => s \in Q
    PROVE  \A s \in SUBSET T : s \in Q
<1>. DEFINE Bad == {s \in SUBSET T : s \notin Q}
            N == {Cardinality(s) : s \in Bad}
<1>0. \A s \in SUBSET T : IsFiniteSet(s) /\ Cardinality(s) \in Nat
  BY FS_Subset, FS_CardinalityType
<1>1. SUFFICES ASSUME Bad # {} PROVE FALSE
  OBVIOUS
<1>2. N \in SUBSET Nat /\ N # {}
  BY <1>0, <1>1
<1>. HIDE DEF N
<1>3. PICK n \in N : \A m \in N : n <= m
  BY <1>2, LeastNat
<1>4. PICK s \in Bad : n = Cardinality(s)
  BY <1>3 DEF N
<1>5. ASSUME NEW u \in SUBSET s, u # s PROVE u \in Q
  <2>1. IsFiniteSet(s) /\ Cardinality(s) \in Nat
    BY <1>0
  <2>3. Cardinality(u) \in Nat /\ u \in SUBSET T
    BY <1>0
  <2>2a. Cardinality(u) <= Cardinality(s) /\ (Cardinality(s) = Cardinality(u) => s = u)
    BY <2>1, FS_Subset
  <2>2. Cardinality(u) < Cardinality(s)
    BY ONLY <1>5, <2>1, <2>2a, <2>3
  <2>4. SUFFICES ASSUME u \in Bad PROVE FALSE
    BY <2>3
  <2>5. Cardinality(u) \in N
    BY <2>4 DEF N
  <2>. QED  BY <2>1, <2>2, <2>3, <2>5, <1>3, <1>4
<1>. QED  BY <1>4, <1>5

\* ... or from one member less.
LEMMA SetRule ==
    ASSUME NEW T, IsFiniteSet(T), NEW Q, {} \in Q,
           \A s \in SUBSET T : \A x \in T \ s : s \in Q => s \cup {x} \in Q
    PROVE  T \in Q
<1>1. ASSUME NEW s \in SUBSET T, \A u \in SUBSET s : u # s => u \in Q PROVE s \in Q
  <2>1. CASE s = {}
    BY <2>1
  <2>2. CASE s # {}
    <3>1. PICK x : x \in s
      BY <2>2
    <3>2. s \ {x} \in Q /\ s \ {x} \in SUBSET T /\ x \in T \ (s \ {x})
      BY <1>1, <3>1
    <3>3. s = (s \ {x}) \cup {x}
      BY <3>1
    <3>. QED  BY <3>2, <3>3
  <2>. QED  BY <2>1, <2>2
<1>2. \A s \in SUBSET T : s \in Q
  BY <1>1, PartRule
<1>. QED  BY <1>2

-----------------------------------------------------------------------------
\* What a fold takes first, and what it leaves.
Pick(s) == CHOOSE x \in s : TRUE
Rest(s) == s \ {Pick(s)}

\* g is the running sum over the members of D.
Sums(g, f, D) == g = [s \in D |-> IF s = {} THEN 0 ELSE f[Pick(s)] + g[Rest(s)]]

\* The sum is what the fold defines.
LEMMA SumIs ==
    ASSUME NEW f, NEW S
    PROVE  SumFunctionOnSet(f, S) = (CHOOSE g : Sums(g, f, SUBSET S))[S]
BY DEF SumFunctionOnSet, FoldFunctionOnSet, MapThenFoldSet, Sums, Pick, Rest

LEMMA PickRest ==
    ASSUME NEW s, s # {}
    PROVE  Pick(s) \in s /\ Rest(s) \subseteq s /\ s = Rest(s) \cup {Pick(s)} /\ Pick(s) \notin Rest(s)
BY DEF Pick, Rest

\* There is a running sum over the subsets with at most n members.
Small(S, n) == {s \in SUBSET S : IsFiniteSet(s) /\ Cardinality(s) <= n}

LEMMA SumsExist ==
    ASSUME NEW S, NEW f, NEW n \in Nat
    PROVE  \E g : Sums(g, f, Small(S, n))
<1>. DEFINE Q == {m \in Nat : \E g : Sums(g, f, Small(S, m))}
<1>1. 0 \in Q
  <2>. DEFINE g == [s \in Small(S, 0) |-> 0]
  <2>1. ASSUME NEW s \in Small(S, 0) PROVE s = {}
    <3>1. Cardinality(s) = 0 /\ IsFiniteSet(s)
      BY FS_CardinalityType DEF Small
    <3>. QED  BY <3>1, FS_EmptySet
  <2>2. Sums(g, f, Small(S, 0))
    BY <2>1 DEF Sums
  <2>. QED  BY <2>2
<1>2. ASSUME NEW m \in Nat, m \in Q PROVE m + 1 \in Q
  <2>1. PICK h : Sums(h, f, Small(S, m))
    BY <1>2
  <2>2. PICK D : D = Small(S, m + 1)
    OBVIOUS
  <2>. DEFINE g == [s \in D |-> IF s = {} THEN 0 ELSE f[Pick(s)] + h[Rest(s)]]
  <2>3. ASSUME NEW s \in D, s # {} PROVE g[Rest(s)] = h[Rest(s)]
    <3>1. IsFiniteSet(s) /\ Cardinality(s) <= m + 1 /\ s \subseteq S
      BY <2>2 DEF Small
    <3>2. IsFiniteSet(Rest(s)) /\ Cardinality(Rest(s)) = Cardinality(s) - 1 /\ Cardinality(s) \in Nat
      BY <2>3, <3>1, PickRest, FS_RemoveElement, FS_CardinalityType DEF Rest
    <3>3. Rest(s) \in Small(S, m) /\ Rest(s) \in D
      BY <2>2, <2>3, <3>1, <3>2, PickRest DEF Small
    <3>4. h[Rest(s)] = IF Rest(s) = {} THEN 0 ELSE f[Pick(Rest(s))] + h[Rest(Rest(s))]
      BY <3>3, <2>1 DEF Sums
    <3>. QED  BY <3>3, <3>4
  <2>4. Sums(g, f, D)
    BY <2>3 DEF Sums
  <2>. QED  BY <2>2, <2>4
<1>. HIDE DEF Q
<1>3. Nat \subseteq Q
  BY <1>1, <1>2, NatRule
<1>. QED  BY <1>3 DEF Q

\* g is a running sum over the parts of S.
Runs(g, f, S) == \A s \in SUBSET S : g[s] = IF s = {} THEN 0 ELSE f[Pick(s)] + g[Rest(s)]

\* What a sum obeys: one is taken from the rest.
LEMMA SumRule ==
    ASSUME NEW f, NEW S, IsFiniteSet(S)
    PROVE  \E g : SumFunctionOnSet(f, S) = g[S] /\ Runs(g, f, S)
<1>1. Cardinality(S) \in Nat
  BY FS_CardinalityType
<1>2. Small(S, Cardinality(S)) = SUBSET S
  BY FS_Subset DEF Small
<1>3. \E g : Sums(g, f, SUBSET S)
  <2>1. \E g : Sums(g, f, Small(S, Cardinality(S)))
    BY <1>1, SumsExist
  <2>. QED  BY <1>2, <2>1
<1>4. Sums(CHOOSE g : Sums(g, f, SUBSET S), f, SUBSET S)
  BY <1>3
<1>5. PICK g : g = CHOOSE h : Sums(h, f, SUBSET S)
  OBVIOUS
<1>6. ASSUME NEW s \in SUBSET S
      PROVE  g[s] = IF s = {} THEN 0 ELSE f[Pick(s)] + g[Rest(s)]
  BY <1>4, <1>5 DEF Sums
<1>7. SumFunctionOnSet(f, S) = g[S]
  BY <1>5, SumIs
<1>8. Runs(g, f, S)
  BY <1>6 DEF Runs
<1>. QED  BY <1>7, <1>8

\* Two running sums agree.
LEMMA SumUnique ==
    ASSUME NEW f, NEW S, IsFiniteSet(S), NEW g, NEW h, Runs(g, f, S), Runs(h, f, S)
    PROVE  \A s \in SUBSET S : g[s] = h[s]
<1>. DEFINE Q == {s \in SUBSET S : g[s] = h[s]}
<1>1. ASSUME NEW s \in SUBSET S, \A u \in SUBSET s : u # s => u \in Q PROVE s \in Q
  <2>1. CASE s = {}
    BY <2>1 DEF Runs
  <2>2. CASE s # {}
    <3>1. Rest(s) \in SUBSET s /\ Rest(s) # s
      BY <2>2, PickRest
    <3>2. g[Rest(s)] = h[Rest(s)]
      BY <1>1, <3>1
    <3>. QED  BY <2>2, <3>2 DEF Runs
  <2>. QED  BY <2>1, <2>2
<1>. HIDE DEF Q
<1>2. \A s \in SUBSET S : s \in Q
  BY <1>1, PartRule
<1>. QED  BY <1>2 DEF Q

LEMMA SumPick ==
    ASSUME NEW f, NEW S, IsFiniteSet(S)
    PROVE  SumFunctionOnSet(f, S) =
             IF S = {} THEN 0 ELSE f[Pick(S)] + SumFunctionOnSet(f, Rest(S))
<1>1. PICK g : SumFunctionOnSet(f, S) = g[S] /\ Runs(g, f, S)
  BY SumRule
<1>2. CASE S = {}
  BY <1>1, <1>2 DEF Runs
<1>3. CASE S # {}
  <2>1. PICK R : R = Rest(S)
    OBVIOUS
  <2>2. IsFiniteSet(R) /\ R \subseteq S
    BY <2>1, <1>3, PickRest, FS_Subset
  <2>3. PICK h : SumFunctionOnSet(f, R) = h[R] /\ Runs(h, f, R)
    BY <2>2, SumRule
  <2>4. Runs(g, f, R)
    BY <1>1, <2>2 DEF Runs
  <2>5. g[R] = h[R]
    BY <2>2, <2>3, <2>4, SumUnique
  <2>. QED  BY <1>1, <1>3, <2>1, <2>3, <2>5 DEF Runs
<1>. QED  BY <1>2, <1>3

LEMMA SumEmpty ==
    ASSUME NEW f
    PROVE  SumFunctionOnSet(f, {}) = 0
BY SumPick, FS_EmptySet

LEMMA SumType ==
    ASSUME NEW S, IsFiniteSet(S), NEW f, \A x \in S : f[x] \in Int
    PROVE  SumFunctionOnSet(f, S) \in Int
<1>. DEFINE Q == {s \in SUBSET S : SumFunctionOnSet(f, s) \in Int}
<1>1. ASSUME NEW s \in SUBSET S, \A u \in SUBSET s : u # s => u \in Q PROVE s \in Q
  <2>0. IsFiniteSet(s)
    BY FS_Subset
  <2>1. CASE s = {}
    BY <2>1, SumEmpty
  <2>2. CASE s # {}
    <3>1. Rest(s) \in SUBSET s /\ Rest(s) # s /\ Pick(s) \in S
      BY <2>2, PickRest
    <3>2. SumFunctionOnSet(f, Rest(s)) \in Int
      BY <1>1, <3>1
    <3>. QED  BY <2>0, <2>2, <3>1, <3>2, SumPick
  <2>. QED  BY <2>1, <2>2
<1>. HIDE DEF Q
<1>2. \A s \in SUBSET S : s \in Q
  BY <1>1, PartRule
<1>. QED  BY <1>2 DEF Q

\* Any member can be taken first.
LEMMA SumTake ==
    ASSUME NEW S, IsFiniteSet(S), NEW f, \A x \in S : f[x] \in Int, NEW y \in S
    PROVE  SumFunctionOnSet(f, S) = f[y] + SumFunctionOnSet(f, S \ {y})
<1>. DEFINE Q == {s \in SUBSET S : \A x \in s :
                     SumFunctionOnSet(f, s) = f[x] + SumFunctionOnSet(f, s \ {x})}
<1>1. ASSUME NEW s \in SUBSET S, \A u \in SUBSET s : u # s => u \in Q PROVE s \in Q
  <2>1. SUFFICES ASSUME NEW x \in s
                 PROVE  SumFunctionOnSet(f, s) = f[x] + SumFunctionOnSet(f, s \ {x})
    OBVIOUS
  <2>2. \A u \in SUBSET s : IsFiniteSet(u) /\ SumFunctionOnSet(f, u) \in Int
    <3>1. SUFFICES ASSUME NEW u \in SUBSET s PROVE IsFiniteSet(u) /\ SumFunctionOnSet(f, u) \in Int
      OBVIOUS
    <3>2. IsFiniteSet(u)
      BY FS_Subset
    <3>3. \A v \in u : f[v] \in Int
      OBVIOUS
    <3>. QED  BY <3>2, <3>3, SumType
  <2>3. PICK p : p = Pick(s)
    OBVIOUS
  <2>4. p \in s /\ Rest(s) = s \ {p}
    BY <2>3, PickRest DEF Rest
  <2>5. SumFunctionOnSet(f, s) = f[p] + SumFunctionOnSet(f, s \ {p})
    BY <2>2, <2>3, <2>4, SumPick
  <2>6. CASE x = p
    BY <2>5, <2>6
  <2>7. CASE x # p
    <3>1. PICK u, v, w : u = s \ {p} /\ v = s \ {x} /\ w = s \ {p, x}
      OBVIOUS
    <3>2. u \in Q /\ v \in Q /\ x \in u /\ p \in v /\ u \ {x} = w /\ v \ {p} = w
      BY <1>1, <2>1, <2>4, <2>7, <3>1
    <3>3. SumFunctionOnSet(f, u) = f[x] + SumFunctionOnSet(f, w)
      BY <3>2
    <3>4. SumFunctionOnSet(f, v) = f[p] + SumFunctionOnSet(f, w)
      BY <3>2
    <3>5. SumFunctionOnSet(f, w) \in Int /\ f[x] \in Int /\ f[p] \in Int
      BY <2>2, <2>4, <3>1
    <3>. QED  BY <2>5, <3>1, <3>3, <3>4, <3>5
  <2>. QED  BY <2>6, <2>7
<1>. HIDE DEF Q
<1>2. \A s \in SUBSET S : s \in Q
  BY <1>1, PartRule
<1>. QED  BY <1>2 DEF Q

LEMMA SumAdd ==
    ASSUME NEW S, IsFiniteSet(S), NEW f, NEW y, y \notin S,
           \A x \in S \cup {y} : f[x] \in Int
    PROVE  SumFunctionOnSet(f, S \cup {y}) = f[y] + SumFunctionOnSet(f, S)
<1>1. IsFiniteSet(S \cup {y}) /\ (S \cup {y}) \ {y} = S
  BY FS_AddElement
<1>2. PICK T : T = S \cup {y}
  OBVIOUS
<1>3. SumFunctionOnSet(f, T) = f[y] + SumFunctionOnSet(f, T \ {y})
  BY <1>1, <1>2, SumTake
<1>. QED  BY <1>1, <1>2, <1>3

\* A sum depends on the summands only.
LEMMA SumSame ==
    ASSUME NEW S, IsFiniteSet(S), NEW f, NEW g, \A x \in S : f[x] \in Int /\ g[x] = f[x]
    PROVE  SumFunctionOnSet(f, S) = SumFunctionOnSet(g, S)
<1>. DEFINE Q == {s \in SUBSET S : SumFunctionOnSet(f, s) = SumFunctionOnSet(g, s)}
<1>1. {} \in Q
  BY SumEmpty
<1>2. ASSUME NEW s \in SUBSET S, NEW y \in S \ s, s \in Q PROVE s \cup {y} \in Q
  <2>1. IsFiniteSet(s)
    BY FS_Subset
  <2>2. PICK u : u = s \cup {y}
    OBVIOUS
  <2>3. SumFunctionOnSet(f, u) = f[y] + SumFunctionOnSet(f, s)
    BY <2>1, <2>2, SumAdd
  <2>4. SumFunctionOnSet(g, u) = g[y] + SumFunctionOnSet(g, s)
    BY <2>1, <2>2, SumAdd
  <2>9. u \in SUBSET S /\ SumFunctionOnSet(f, u) = SumFunctionOnSet(g, u)
    BY <1>2, <2>2, <2>3, <2>4
  <2>. QED  BY <2>2, <2>9
<1>. HIDE DEF Q
<1>3. S \in Q
  BY <1>1, <1>2, SetRule
<1>. QED  BY <1>3 DEF Q

\* Sums add up,
LEMMA SumPlus ==
    ASSUME NEW S, IsFiniteSet(S), NEW f, NEW g, NEW h,
           \A x \in S : f[x] \in Int /\ g[x] \in Int /\ h[x] = f[x] + g[x]
    PROVE  SumFunctionOnSet(h, S) = SumFunctionOnSet(f, S) + SumFunctionOnSet(g, S)
<1>. DEFINE Q == {s \in SUBSET S : SumFunctionOnSet(h, s) = SumFunctionOnSet(f, s) + SumFunctionOnSet(g, s)}
<1>1. {} \in Q
  BY SumEmpty
<1>2. ASSUME NEW s \in SUBSET S, NEW y \in S \ s, s \in Q PROVE s \cup {y} \in Q
  <2>1. IsFiniteSet(s)
    BY FS_Subset
  <2>2. PICK u : u = s \cup {y}
    OBVIOUS
  <2>3. SumFunctionOnSet(f, u) = f[y] + SumFunctionOnSet(f, s) /\ SumFunctionOnSet(f, s) \in Int
    BY <2>1, <2>2, SumAdd, SumType
  <2>4. SumFunctionOnSet(g, u) = g[y] + SumFunctionOnSet(g, s) /\ SumFunctionOnSet(g, s) \in Int
    BY <2>1, <2>2, SumAdd, SumType
  <2>5. \A x \in u : h[x] \in Int
    BY <2>2
  <2>6. SumFunctionOnSet(h, u) = h[y] + SumFunctionOnSet(h, s)
    BY <2>1, <2>2, <2>5, SumAdd
  <2>7. h[y] = f[y] + g[y] /\ f[y] \in Int /\ g[y] \in Int
    OBVIOUS
  <2>9. u \in SUBSET S /\ SumFunctionOnSet(h, u) = SumFunctionOnSet(f, u) + SumFunctionOnSet(g, u)
    BY <1>2, <2>2, <2>3, <2>4, <2>6, <2>7
  <2>. QED  BY <2>2, <2>9
<1>. HIDE DEF Q
<1>3. S \in Q
  BY <1>1, <1>2, SetRule
<1>. QED  BY <1>3 DEF Q

\* scale,
LEMMA SumTimes ==
    ASSUME NEW S, IsFiniteSet(S), NEW c \in Int, NEW f, NEW g,
           \A x \in S : f[x] \in Int /\ g[x] = f[x] * c
    PROVE  SumFunctionOnSet(g, S) = SumFunctionOnSet(f, S) * c
<1>. DEFINE Q == {s \in SUBSET S : SumFunctionOnSet(g, s) = SumFunctionOnSet(f, s) * c}
<1>1. {} \in Q
  BY SumEmpty
<1>2. ASSUME NEW s \in SUBSET S, NEW y \in S \ s, s \in Q PROVE s \cup {y} \in Q
  <2>1. IsFiniteSet(s)
    BY FS_Subset
  <2>2. PICK u : u = s \cup {y}
    OBVIOUS
  <2>3. SumFunctionOnSet(f, u) = f[y] + SumFunctionOnSet(f, s) /\ SumFunctionOnSet(f, s) \in Int
    BY <2>1, <2>2, SumAdd, SumType
  <2>5. \A x \in u : g[x] \in Int
    BY <2>2
  <2>6. SumFunctionOnSet(g, u) = g[y] + SumFunctionOnSet(g, s)
    BY <2>1, <2>2, <2>5, SumAdd
  <2>7. g[y] = f[y] * c /\ f[y] \in Int
    OBVIOUS
  <2>8. PICK a, b : a = f[y] /\ b = SumFunctionOnSet(f, s)
    OBVIOUS
  <2>10. (a + b) * c = a * c + b * c
    <3>. a \in Int /\ b \in Int
      BY <2>3, <2>7, <2>8
    <3>. QED  OBVIOUS
  <2>9. u \in SUBSET S /\ SumFunctionOnSet(g, u) = SumFunctionOnSet(f, u) * c
    BY <1>2, <2>2, <2>3, <2>6, <2>7, <2>8, <2>10
  <2>. QED  BY <2>2, <2>9
<1>. HIDE DEF Q
<1>3. S \in Q
  BY <1>1, <1>2, SetRule
<1>. QED  BY <1>3 DEF Q

\* and follow their summands.
LEMMA SumLe ==
    ASSUME NEW S, IsFiniteSet(S), NEW f, NEW g,
           \A x \in S : f[x] \in Int /\ g[x] \in Int /\ f[x] <= g[x]
    PROVE  SumFunctionOnSet(f, S) <= SumFunctionOnSet(g, S)
<1>. DEFINE Q == {s \in SUBSET S : SumFunctionOnSet(f, s) <= SumFunctionOnSet(g, s)}
<1>1. {} \in Q
  BY SumEmpty
<1>2. ASSUME NEW s \in SUBSET S, NEW y \in S \ s, s \in Q PROVE s \cup {y} \in Q
  <2>1. IsFiniteSet(s)
    BY FS_Subset
  <2>2. PICK u : u = s \cup {y}
    OBVIOUS
  <2>3. SumFunctionOnSet(f, u) = f[y] + SumFunctionOnSet(f, s) /\ SumFunctionOnSet(f, s) \in Int
    BY <2>1, <2>2, SumAdd, SumType
  <2>4. SumFunctionOnSet(g, u) = g[y] + SumFunctionOnSet(g, s) /\ SumFunctionOnSet(g, s) \in Int
    BY <2>1, <2>2, SumAdd, SumType
  <2>7. f[y] <= g[y] /\ f[y] \in Int /\ g[y] \in Int
    OBVIOUS
  <2>9. u \in SUBSET S /\ SumFunctionOnSet(f, u) <= SumFunctionOnSet(g, u)
    BY <1>2, <2>2, <2>3, <2>4, <2>7
  <2>. QED  BY <2>2, <2>9
<1>. HIDE DEF Q
<1>3. S \in Q
  BY <1>1, <1>2, SetRule
<1>. QED  BY <1>3 DEF Q

\* A sum of naturals is one, and none of them exceeds it.
LEMMA SumNat ==
    ASSUME NEW S, IsFiniteSet(S), NEW f, \A x \in S : f[x] \in Nat
    PROVE  SumFunctionOnSet(f, S) \in Nat /\ \A x \in S : f[x] <= SumFunctionOnSet(f, S)
<1>. DEFINE Q == {s \in SUBSET S : SumFunctionOnSet(f, s) \in Nat /\ \A x \in s : f[x] <= SumFunctionOnSet(f, s)}
<1>1. {} \in Q
  BY SumEmpty
<1>2. ASSUME NEW s \in SUBSET S, NEW y \in S \ s, s \in Q PROVE s \cup {y} \in Q
  <2>1. IsFiniteSet(s)
    BY FS_Subset
  <2>2. PICK u : u = s \cup {y}
    OBVIOUS
  <2>3. SumFunctionOnSet(f, u) = f[y] + SumFunctionOnSet(f, s)
    BY <2>1, <2>2, SumAdd
  <2>4. SumFunctionOnSet(f, s) \in Nat /\ f[y] \in Nat /\ \A x \in s : f[x] \in Nat /\ f[x] <= SumFunctionOnSet(f, s)
    BY <1>2
  <2>5. SumFunctionOnSet(f, u) \in Nat
    BY <2>3, <2>4
  <2>6. ASSUME NEW x \in u PROVE f[x] <= SumFunctionOnSet(f, u)
    BY <2>2, <2>3, <2>4
  <2>9. u \in SUBSET S /\ SumFunctionOnSet(f, u) \in Nat /\ \A x \in u : f[x] <= SumFunctionOnSet(f, u)
    BY <2>2, <2>5, <2>6
  <2>. QED  BY <2>2, <2>9
<1>. HIDE DEF Q
<1>3. S \in Q
  BY <1>1, <1>2, SetRule
<1>. QED  BY <1>3 DEF Q

\* Nothing adds up to nothing.
LEMMA SumZero ==
    ASSUME NEW S, IsFiniteSet(S), NEW f, \A x \in S : f[x] = 0
    PROVE  SumFunctionOnSet(f, S) = 0
<1>. DEFINE Q == {s \in SUBSET S : SumFunctionOnSet(f, s) = 0}
<1>1. {} \in Q
  BY SumEmpty
<1>2. ASSUME NEW s \in SUBSET S, NEW y \in S \ s, s \in Q PROVE s \cup {y} \in Q
  <2>1. IsFiniteSet(s)
    BY FS_Subset
  <2>2. PICK u : u = s \cup {y}
    OBVIOUS
  <2>4. \A x \in u : f[x] \in Int
    BY <2>2
  <2>3. SumFunctionOnSet(f, u) = f[y] + SumFunctionOnSet(f, s)
    BY <2>1, <2>2, <2>4, SumAdd
  <2>9. u \in SUBSET S /\ SumFunctionOnSet(f, u) = 0
    BY <1>2, <2>2, <2>3
  <2>. QED  BY <2>2, <2>9
<1>. HIDE DEF Q
<1>3. S \in Q
  BY <1>1, <1>2, SetRule
<1>. QED  BY <1>3 DEF Q

\* The sum over two sets without a common member.
LEMMA SumUnion ==
    ASSUME NEW S, IsFiniteSet(S), NEW T, IsFiniteSet(T), S \cap T = {}, NEW f,
           \A x \in S \cup T : f[x] \in Int
    PROVE  SumFunctionOnSet(f, S \cup T) = SumFunctionOnSet(f, S) + SumFunctionOnSet(f, T)
<1>. DEFINE Q == {s \in SUBSET S : SumFunctionOnSet(f, s \cup T) = SumFunctionOnSet(f, s) + SumFunctionOnSet(f, T)}
<1>1. {} \in Q
  <2>1. SumFunctionOnSet(f, T) \in Int
    BY SumType
  <2>2. {} \cup T = T
    OBVIOUS
  <2>. QED  BY <2>1, <2>2, SumEmpty
<1>2. ASSUME NEW s \in SUBSET S, NEW y \in S \ s, s \in Q PROVE s \cup {y} \in Q
  <2>1. IsFiniteSet(s)
    BY FS_Subset
  <2>2. PICK u : u = s \cup {y}
    OBVIOUS
  <2>3. SumFunctionOnSet(f, u) = f[y] + SumFunctionOnSet(f, s) /\ SumFunctionOnSet(f, s) \in Int
    BY <2>1, <2>2, SumAdd, SumType
  <2>4. PICK v : v = s \cup T
    OBVIOUS
  <2>5. IsFiniteSet(v) /\ y \notin v /\ u \cup T = v \cup {y} /\ v \cup {y} \subseteq S \cup T
    BY <2>1, <2>2, <2>4, FS_Union
  <2>6. SumFunctionOnSet(f, v \cup {y}) = f[y] + SumFunctionOnSet(f, v)
    BY <2>5, SumAdd
  <2>7. SumFunctionOnSet(f, T) \in Int /\ f[y] \in Int
    BY SumType
  <2>9. u \in SUBSET S /\ SumFunctionOnSet(f, u \cup T) = SumFunctionOnSet(f, u) + SumFunctionOnSet(f, T)
    <3>1. SumFunctionOnSet(f, v) = SumFunctionOnSet(f, s) + SumFunctionOnSet(f, T)
      BY <1>2, <2>4
    <3>2. SumFunctionOnSet(f, u \cup T) = f[y] + SumFunctionOnSet(f, v)
      BY <2>5, <2>6
    <3>. QED  BY <2>2, <2>3, <2>7, <3>1, <3>2
  <2>. QED  BY <2>2, <2>9
<1>. HIDE DEF Q
<1>3. S \in Q
  BY <1>1, <1>2, SetRule
<1>. QED  BY <1>3 DEF Q

\* Part of a sum of naturals.
LEMMA SumPart ==
    ASSUME NEW S, IsFiniteSet(S), NEW f, \A x \in S : f[x] \in Nat, NEW T \in SUBSET S
    PROVE  /\ SumFunctionOnSet(f, T) \in Nat
           /\ SumFunctionOnSet(f, S) \in Nat
           /\ SumFunctionOnSet(f, T) <= SumFunctionOnSet(f, S)
<1>1. IsFiniteSet(T) /\ IsFiniteSet(S \ T)
  BY FS_Subset
<1>2. SumFunctionOnSet(f, T) \in Nat /\ SumFunctionOnSet(f, S \ T) \in Nat
  <2>1. \A x \in T : f[x] \in Nat
    OBVIOUS
  <2>2. \A x \in S \ T : f[x] \in Nat
    OBVIOUS
  <2>. QED  BY <1>1, <2>1, <2>2, SumNat
<1>3. PICK R : R = S \ T
  OBVIOUS
<1>4. T \cap R = {} /\ T \cup R = S
  BY <1>3
<1>5. SumFunctionOnSet(f, T \cup R) = SumFunctionOnSet(f, T) + SumFunctionOnSet(f, R)
  <2>1. \A x \in T \cup R : f[x] \in Int
    BY <1>4
  <2>2. IsFiniteSet(R)
    BY <1>1, <1>3
  <2>. QED  BY <1>1, <1>4, <2>1, <2>2, SumUnion
<1>6. SumFunctionOnSet(f, R) \in Nat
  BY <1>2, <1>3
<1>7. SumFunctionOnSet(f, S) = SumFunctionOnSet(f, T) + SumFunctionOnSet(f, R)
  BY <1>4, <1>5
<1>. QED  BY <1>2, <1>6, <1>7

\* Renaming what is summed over.
LEMMA SumMap ==
    ASSUME NEW S, IsFiniteSet(S), NEW b, NEW f, NEW g,
           \A x \in S : g[b[x]] \in Int /\ f[x] = g[b[x]],
           \A x, z \in S : b[x] = b[z] => x = z,
           NEW T, \A x \in S : b[x] \in T, \A z \in T : \E x \in S : b[x] = z
    PROVE  SumFunctionOnSet(f, S) = SumFunctionOnSet(g, T)
<1>. DEFINE Q == {s \in SUBSET S : SumFunctionOnSet(f, s) = SumFunctionOnSet(g, {b[x] : x \in s}) /\ IsFiniteSet({b[x] : x \in s})}
<1>1. {} \in Q
  <2>1. {b[x] : x \in {}} = {}
    OBVIOUS
  <2>. QED  BY <2>1, SumEmpty, FS_EmptySet
<1>2. ASSUME NEW s \in SUBSET S, NEW y \in S \ s, s \in Q PROVE s \cup {y} \in Q
  <2>1. IsFiniteSet(s)
    BY FS_Subset
  <2>2. PICK u : u = s \cup {y}
    OBVIOUS
  <2>3. SumFunctionOnSet(f, u) = f[y] + SumFunctionOnSet(f, s)
    BY <2>1, <2>2, SumAdd
  <2>4. PICK t : t = {b[x] : x \in s}
    OBVIOUS
  <2>5. IsFiniteSet(t) /\ SumFunctionOnSet(f, s) = SumFunctionOnSet(g, t)
    BY <1>2, <2>4
  <2>6. b[y] \notin t
    BY <2>4
  <2>7. {b[x] : x \in u} = t \cup {b[y]}
    BY <2>2, <2>4
  <2>8. \A z \in t \cup {b[y]} : g[z] \in Int
    BY <2>4
  <2>9. SumFunctionOnSet(g, t \cup {b[y]}) = g[b[y]] + SumFunctionOnSet(g, t)
    BY <2>5, <2>6, <2>8, SumAdd
  <2>10. IsFiniteSet(t \cup {b[y]})
    BY <2>5, FS_AddElement
  <2>11. u \in SUBSET S /\ SumFunctionOnSet(f, u) = SumFunctionOnSet(g, {b[x] : x \in u})
    BY <2>2, <2>3, <2>5, <2>7, <2>9
  <2>. QED  BY <2>2, <2>7, <2>10, <2>11
<1>. HIDE DEF Q
<1>3. S \in Q
  BY <1>1, <1>2, SetRule
<1>4. {b[x] : x \in S} = T
  OBVIOUS
<1>. QED  BY <1>3, <1>4 DEF Q

\* Rows that add up to nothing leave columns that do.
LEMMA SumSwap ==
    ASSUME NEW S, IsFiniteSet(S), NEW T, IsFiniteSet(T), NEW m, NEW col,
           \A s \in S : \A t \in T : m[s][t] \in Int /\ col[t][s] = m[s][t],
           \A s \in S : SumFunctionOnSet(m[s], T) = 0,
           NEW h, \A t \in T : h[t] = SumFunctionOnSet(col[t], S)
    PROVE  SumFunctionOnSet(h, T) = 0
<1>. DEFINE part(s) == [t \in T |-> SumFunctionOnSet(col[t], s)]
            Q == {s \in SUBSET S : SumFunctionOnSet(part(s), T) = 0}
<1>1. {} \in Q
  <2>1. \A t \in T : part({})[t] = 0
    BY SumEmpty
  <2>. HIDE DEF part
  <2>. QED  BY <2>1, SumZero
<1>2. ASSUME NEW s \in SUBSET S, NEW y \in S \ s, s \in Q PROVE s \cup {y} \in Q
  <2>1. IsFiniteSet(s)
    BY FS_Subset
  <2>2. PICK u : u = s \cup {y}
    OBVIOUS
  <2>3. PICK r : r = m[y]
    OBVIOUS
  <2>4. \A t \in T : part(s)[t] \in Int /\ r[t] \in Int /\ part(u)[t] = r[t] + part(s)[t]
    <3>1. SUFFICES ASSUME NEW t \in T
                   PROVE  /\ part(s)[t] \in Int /\ r[t] \in Int
                          /\ part(u)[t] = r[t] + part(s)[t]
      OBVIOUS
    <3>2. PICK k : k = col[t]
      OBVIOUS
    <3>3. \A x \in u : k[x] \in Int
      BY <2>2, <3>2
    <3>4. SumFunctionOnSet(k, s) \in Int
      BY <2>1, <2>2, <3>3, SumType
    <3>5. SumFunctionOnSet(k, u) = k[y] + SumFunctionOnSet(k, s)
      BY <2>1, <2>2, <3>3, SumAdd
    <3>6. k[y] = r[t] /\ r[t] \in Int
      BY <2>3, <3>2
    <3>. QED  BY <3>2, <3>4, <3>5, <3>6
  <2>5. SumFunctionOnSet(part(s), T) = 0 /\ SumFunctionOnSet(r, T) = 0
    BY <1>2, <2>3
  <2>. HIDE DEF part
  <2>6. SumFunctionOnSet(part(u), T) = SumFunctionOnSet(r, T) + SumFunctionOnSet(part(s), T)
    BY <2>4, SumPlus
  <2>7. SumFunctionOnSet(part(u), T) = 0
    BY <2>5, <2>6
  <2>. QED  BY <2>2, <2>7
<1>. HIDE DEF Q
<1>3. S \in Q
  BY <1>1, <1>2, SetRule
<1>4. SumFunctionOnSet(part(S), T) = 0
  BY <1>3 DEF Q
<1>5. \A t \in T : h[t] \in Int /\ part(S)[t] = h[t]
  <2>1. SUFFICES ASSUME NEW t \in T PROVE h[t] \in Int /\ part(S)[t] = h[t]
    OBVIOUS
  <2>2. PICK k : k = col[t]
    OBVIOUS
  <2>3. SumFunctionOnSet(k, S) \in Int
    BY <2>2, SumType
  <2>. QED  BY <2>2, <2>3
<1>. HIDE DEF part
<1>6. SumFunctionOnSet(h, T) = SumFunctionOnSet(part(S), T)
  BY <1>5, SumSame
<1>. QED  BY <1>4, <1>6
=============================================================================
