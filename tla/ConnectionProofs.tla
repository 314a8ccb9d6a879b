-------------------------- MODULE ConnectionProofs -------------------------
(***************************************************************************)
(* Theorems about what a connection is held to: its difficulty, its budget *)
(* of failed authorizations, the duplicate check on its shares and the     *)
(* rate they are credited at.                                              *)
(*                                                                         *)
(* A connection's difficulty keeps its bounds, for any listener lines,     *)
(* settings, requests, shares and networks.  The invariant adds what the   *)
(* bounds of the next step rest on: the difficulty of an authorized        *)
(* connection already keeps the port's floor and its ceiling, and a        *)
(* request on record was granted, so it is under the ceiling and requests  *)
(* are enabled.                                                            *)
(* A raise to the floor was measured: what the window remembers of its     *)
(* shares (Judged) says whether each of them beat its own job.             *)
(*                                                                         *)
(* A lockout is earned, for any addresses, connections, table and hash.    *)
(* An address has one entry at most, where its probes come by (Placed), so *)
(* the probe finds it and nobody else's; and its count is of its own last  *)
(* failures, none from before the entry's window (CountInv).               *)
(*                                                                         *)
(* A duplicate is found, and nothing else, for any keys, ring, table and   *)
(* hash.  The table holds the ring's keys, each once and none behind a     *)
(* hole (Sound), so a search that meets a hole may stop.  While a deletion *)
(* walks the slot to be cleared still has a word, and clearing it would    *)
(* strand none of the keys the walk has passed (Walking).                  *)
(*                                                                         *)
(* A share's credit, for any threads, templates and settings.  diff_accum  *)
(* is right after a store only if it was right at the load and nobody      *)
(* stored in between, so the invariant says what a thread has loaded: as   *)
(* long as no folds overlap, at most one is under way, and it holds the    *)
(* sum as it still stands (MeasureInv).  An open gate comes with a rate,   *)
(* but between the gate's exchange and the rate's store; a share that no   *)
(* refresh crossed finds one (PriceInv).                                   *)
(***************************************************************************)
EXTENDS Difficulty, AuthBudget, DedupeIndex, PpsRate, TLAPS, FiniteSetTheorems,
        WellFoundedInduction

-----------------------------------------------------------------------------
(* The difficulty. *)

Policy == [initial : Nat \ {0}, min : Nat \ {0}, max : Nat, floor : Nat]
Window == [shares : Nat, elapsed : Nat, least : Nat, most : Nat, earned : BOOLEAN]
Server == [initial : Nat \ {0}, min : Nat \ {0}, max : Nat, cap : Nat, vardiff : BOOLEAN]
Sent   == [diff : Nat, net : Nat]

Ceiling == GreaterOf(pol.max, GreaterOf(pol.floor, pol.initial))

TypeInv ==
    /\ srv \in Server /\ pol \in Policy
    /\ net \in Nat
    /\ authorized \in BOOLEAN
    /\ assigned \in Nat \ {0}
    /\ requested \in Nat
    /\ vdWin \in Window
    /\ held \in Seq(Sent)

BoundInv ==
    /\ authorized => assigned >= pol.floor
    /\ pol.max > 0 => assigned <= Ceiling /\ requested <= pol.max
    /\ requested > 0 => srv.cap > 0

DiffInv == TypeInv /\ BoundInv

USE DEF difficultyVars

Kept ==
    authorized' /\ assigned' # assigned =>
         /\ assigned' >= pol.floor
         /\ net > 0 => assigned' <= GreaterOf(net, pol.floor)
         /\ pol.max > 0 => assigned' <= GreaterOf(pol.max, GreaterOf(pol.floor, pol.initial))
         /\ assigned' < assigned /\ requested' > 0 => assigned' >= LesserOf(requested', net)

\* What clamp_assigned_difficulty returns.
LEMMA Clamped ==
    ASSUME net \in Nat, pol.floor \in Nat, NEW d \in Int
    PROVE  /\ Clamp(d) \in Nat \ {0}
           /\ Clamp(d) >= pol.floor
           /\ net > 0 => Clamp(d) <= GreaterOf(net, pol.floor)
           /\ net > 0 => Clamp(d) >= LesserOf(d, net)
           /\ net = 0 => Clamp(d) >= d
           /\ Clamp(d) <= GreaterOf(GreaterOf(d, pol.floor), 1)
BY DEF Clamp, LesserOf, GreaterOf

\* A granted request is a difficulty under the ceiling and what the network
\* backs.
LEMMA GrantedBounds ==
    ASSUME TypeInv, NEW req \in Nat, HasEffect(req)
    PROVE  /\ Granted(req) \in Nat \ {0}
           /\ net > 0 => Granted(req) <= GreaterOf(net, pol.floor)
           /\ pol.max > 0 => Granted(req) <= pol.max
<1>1. srv.cap \in Nat \ {0} /\ req > 0 /\ pol.max \in Nat /\ pol.floor \in Nat /\ net \in Nat
  BY DEF HasEffect, TypeInv, Server, Policy
<1>2. LesserOf(req, srv.cap) \in Nat \ {0}
  BY <1>1 DEF LesserOf
<1>3. PICK e \in Nat \ {0} : e = Clamp(LesserOf(req, srv.cap))
  BY <1>1, <1>2, Clamped
<1>4. net > 0 => e <= GreaterOf(net, pol.floor)
  BY <1>1, <1>2, <1>3, Clamped
<1>5. Granted(req) = UnderMax(e)
  BY <1>3 DEF Granted
<1>6. GreaterOf(net, pol.floor) \in Nat
  BY <1>1 DEF GreaterOf
<1>. HIDE DEF GreaterOf
<1>. QED  BY <1>1, <1>3, <1>4, <1>5, <1>6 DEF UnderMax, LesserOf

\* The listener's line over the server's settings (conn_apply_listener).
LEMMA PolicyType ==
    ASSUME NEW s \in Servers, NEW l \in Lines
    PROVE  PolicyOf(s, l) \in Policy
<1>1. s \in Server /\ l \in [min : Nat, initial : Nat, max : Nat]
  BY DifficultyAssumption DEF Server
<1>2. ParsedLine(l).min \in Nat /\ ParsedLine(l).initial \in Nat /\ ParsedLine(l).max \in Nat
  BY <1>1 DEF ParsedLine
<1>. QED  BY <1>1, <1>2 DEF PolicyOf, Policy, Server

LEMMA DiffInvInit == InitDifficulty => DiffInv
<1> SUFFICES ASSUME InitDifficulty PROVE DiffInv
  OBVIOUS
<1>1. srv \in Server
  BY DifficultyAssumption DEF InitDifficulty, Server
<1>2. pol \in Policy
  BY PolicyType DEF InitDifficulty
<1>3. TypeInv
  <2>1. vdWin \in Window
    BY DEF InitDifficulty, NewWindow, Window
  <2>2. held \in Seq(Sent)
    BY DEF InitDifficulty
  <2>3. assigned \in Nat \ {0}
    BY <1>2 DEF InitDifficulty, Policy
  <2>. QED  BY <1>1, <1>2, <2>1, <2>2, <2>3 DEF InitDifficulty, TypeInv
<1>4. BoundInv
  BY <1>2 DEF InitDifficulty, BoundInv, Policy, Ceiling, GreaterOf
<1>. QED  BY <1>3, <1>4 DEF DiffInv

-----------------------------------------------------------------------------
\* The parts of the invariant a step may use, as facts about numbers.
LEMMA Numbers ==
    ASSUME TypeInv
    PROVE  /\ pol.initial \in Nat \ {0} /\ pol.min \in Nat \ {0}
           /\ pol.max \in Nat /\ pol.floor \in Nat /\ srv.cap \in Nat
           /\ net \in Nat /\ assigned \in Nat \ {0} /\ requested \in Nat
BY DEF TypeInv, Policy, Server

\* The job goes out again: what the connection holds stays a list of jobs.
LEMMA RenotifiedType ==
    ASSUME TypeInv, NEW d \in Nat
    PROVE  Renotified(d) \in Seq(Sent)
<1>1. held \in Seq(Sent) /\ [diff |-> d, net |-> net] \in Sent
  BY DEF TypeInv, Sent
<1>2. (IF Len(held) = 2 THEN Tail(held) ELSE <<>>) \in Seq(Sent)
  <2>1. CASE Len(held) = 2
    <3>1. held # <<>>
      BY <1>1, <2>1
    <3>2. Tail(held) \in Seq(Sent)
      BY <1>1, <3>1
    <3>. QED  BY <2>1, <3>2
  <2>2. CASE Len(held) # 2
    BY <2>2
  <2>. QED  BY <2>1, <2>2
<1>3. <<[diff |-> d, net |-> net]>> \in Seq(Sent)
  BY <1>1
<1>. QED  BY <1>1, <1>2, <1>3 DEF Renotified

LEMMA FreshWindow == NewWindow \in Window
BY DEF NewWindow, Window

\* mining.authorize
LEMMA TakeKeeps ==
    ASSUME DiffInv, NEW pw \in Nat, TakeDifficulty(pw)
    PROVE  DiffInv' /\ Kept
<1>. DEFINE req == IF pw > 0 THEN pw ELSE requested
            asked == IF HasEffect(req) THEN GreaterOf(assigned, Granted(req)) ELSE assigned
<1>1. TypeInv /\ BoundInv
  BY DEF DiffInv
<1>2. req \in Nat
  BY <1>1, Numbers
<1>3. /\ authorized' = TRUE
      /\ requested' = IF HasEffect(req) THEN Granted(req) ELSE requested
      /\ assigned' = Clamp(asked)
      /\ vdWin' = NewWindow
      /\ held' = Renotified(assigned')
      /\ UNCHANGED <<srv, pol, net>>
  BY DEF TakeDifficulty
<1>4. HasEffect(req) => /\ Granted(req) \in Nat \ {0}
                        /\ pol.max > 0 => Granted(req) <= pol.max
  BY <1>1, <1>2, GrantedBounds
<1>5. /\ asked \in Nat \ {0} /\ asked >= assigned
      /\ HasEffect(req) => asked >= Granted(req)
      /\ pol.max > 0 => asked <= Ceiling
  BY <1>1, <1>4, Numbers DEF GreaterOf, Ceiling, BoundInv
<1>6. ~HasEffect(req) => requested = 0
  BY <1>1, Numbers DEF HasEffect, BoundInv
<1>7. /\ requested' \in Nat /\ asked >= requested'
      /\ pol.max > 0 => requested' <= pol.max
      /\ requested' > 0 => srv.cap > 0
  BY <1>1, <1>3, <1>4, <1>5, <1>6, Numbers DEF BoundInv, HasEffect
<1>8. PICK a \in Nat \ {0} : a = asked
  BY <1>5
<1>9. /\ assigned' = Clamp(a) /\ a >= requested'
      /\ pol.max > 0 => a <= Ceiling
  BY <1>3, <1>5, <1>7, <1>8
<1>. HIDE DEF req, asked
<1>10. net \in Nat /\ pol.floor \in Nat /\ a \in Int
  BY <1>1, Numbers
<1>11. /\ assigned' \in Nat \ {0} /\ assigned' >= pol.floor
       /\ net > 0 => assigned' <= GreaterOf(net, pol.floor)
       /\ net > 0 => assigned' >= LesserOf(a, net)
       /\ net = 0 => assigned' >= a
       /\ assigned' <= GreaterOf(GreaterOf(a, pol.floor), 1)
  BY <1>9, <1>10, Clamped
<1>12. pol.max > 0 => assigned' <= Ceiling
  BY <1>1, <1>9, <1>11, Numbers DEF Ceiling, GreaterOf
<1>13. requested' > 0 => assigned' >= LesserOf(requested', net)
  BY <1>7, <1>9, <1>10, <1>11 DEF LesserOf
<1>14. Ceiling' = Ceiling
  BY <1>3 DEF Ceiling, GreaterOf
<1>15. TypeInv'
  <2>1. held' \in Seq(Sent)
    BY <1>1, <1>3, <1>11, RenotifiedType
  <2>. QED  BY <1>1, <1>3, <1>7, <1>11, <2>1, FreshWindow DEF TypeInv
<1>16. BoundInv'
  BY <1>3, <1>7, <1>11, <1>12, <1>14 DEF BoundInv
<1>17. Kept
  BY <1>3, <1>11, <1>12, <1>13 DEF Kept, Ceiling
<1>. QED  BY <1>15, <1>16, <1>17 DEF DiffInv

\* mining.suggest_difficulty
LEMMA SuggestKeeps ==
    ASSUME DiffInv, NEW req \in Nat, SuggestDiff(req)
    PROVE  DiffInv' /\ Kept
<1>1. TypeInv /\ BoundInv /\ HasEffect(req)
  BY DEF DiffInv, SuggestDiff
<1>2. /\ requested' = Granted(req)
      /\ assigned' = GreaterOf(assigned, Granted(req))
      /\ UNCHANGED <<srv, pol, net, authorized, vdWin, held>>
  BY DEF SuggestDiff
<1>3. /\ Granted(req) \in Nat \ {0}
      /\ net > 0 => Granted(req) <= GreaterOf(net, pol.floor)
      /\ pol.max > 0 => Granted(req) <= pol.max
  BY <1>1, GrantedBounds
<1>4. /\ assigned' \in Nat \ {0} /\ assigned' >= assigned
      /\ assigned' # assigned => assigned' = Granted(req)
  BY <1>1, <1>2, <1>3, Numbers DEF GreaterOf
<1>5. pol.max > 0 => assigned' <= Ceiling
  BY <1>1, <1>2, <1>3, <1>4, Numbers DEF Ceiling, GreaterOf, BoundInv
<1>6. authorized => assigned' >= pol.floor
  BY <1>1, <1>4, Numbers DEF BoundInv
<1>7. Ceiling' = Ceiling
  BY <1>2 DEF Ceiling, GreaterOf
<1>8. TypeInv'
  BY <1>1, <1>2, <1>3, <1>4 DEF TypeInv
<1>9. BoundInv'
  BY <1>1, <1>2, <1>3, <1>5, <1>6, <1>7 DEF BoundInv, HasEffect
<1>10. ~(assigned' < assigned)
  BY <1>1, <1>4, Numbers
<1>11. Kept
  BY <1>2, <1>3, <1>4, <1>5, <1>6, <1>10 DEF Kept, Ceiling
<1>. QED  BY <1>8, <1>9, <1>11 DEF DiffInv

\* A new job, and a window that goes on, leave the difficulty alone.
LEMMA NotifiedKeeps ==
    ASSUME DiffInv, NEW n \in Nat, Notified(n)
    PROVE  DiffInv' /\ Kept
<1>1. TypeInv /\ BoundInv
  BY DEF DiffInv
<1>2. net' = n /\ UNCHANGED <<srv, pol, authorized, assigned, requested, vdWin>>
  BY DEF Notified
<1>3. held' \in Seq(Sent)
  <2>1. held \in Seq(Sent) /\ [diff |-> assigned, net |-> n] \in Sent
    BY <1>1 DEF TypeInv, Sent
  <2>2. (IF held = <<>> THEN <<>> ELSE <<Head(held)>>) \in Seq(Sent)
    BY <2>1
  <2>3. <<[diff |-> assigned, net |-> n]>> \in Seq(Sent)
    BY <2>1
  <2>. QED  BY <2>1, <2>2, <2>3 DEF Notified
<1>4. TypeInv'
  BY <1>1, <1>2, <1>3 DEF TypeInv
<1>5. BoundInv' /\ Kept
  BY <1>1, <1>2 DEF BoundInv, Ceiling, GreaterOf, Kept
<1>. QED  BY <1>4, <1>5 DEF DiffInv

LEMMA WindowPassesKeeps ==
    ASSUME DiffInv, WindowPasses
    PROVE  DiffInv' /\ Kept
<1>1. TypeInv /\ BoundInv
  BY DEF DiffInv
<1>2. UNCHANGED <<srv, pol, net, authorized, assigned, requested, held>>
  BY DEF WindowPasses
<1>3. vdWin' \in Window
  BY <1>1 DEF WindowPasses, TypeInv, Window
<1>4. TypeInv'
  BY <1>1, <1>2, <1>3 DEF TypeInv
<1>5. BoundInv' /\ Kept
  BY <1>1, <1>2 DEF BoundInv, Ceiling, GreaterOf, Kept
<1>. QED  BY <1>4, <1>5 DEF DiffInv

-----------------------------------------------------------------------------
\* Every proposal of vardiff, once bounded, keeps the bounds.
LEMMA BoundedBounds ==
    ASSUME TypeInv, BoundInv, NEW d \in Int
    PROVE  /\ Bounded(d) \in Nat \ {0}
           /\ Bounded(d) >= pol.floor
           /\ net > 0 => Bounded(d) <= GreaterOf(net, pol.floor)
           /\ pol.max > 0 => Bounded(d) <= Ceiling
           /\ Bounded(d) >= LesserOf(requested, net)
<1>1. PICK g \in Nat \ {0} : /\ g = GreaterOf(GreaterOf(d, requested), pol.min)
                             /\ g >= requested
  BY Numbers DEF GreaterOf
<1>2. PICK u \in Nat : /\ u = UnderMax(g)
                       /\ u >= requested
                       /\ pol.max > 0 => u <= pol.max
  BY <1>1, Numbers DEF UnderMax, LesserOf, BoundInv
<1>3. Bounded(d) = Clamp(u)
  BY <1>1, <1>2 DEF Bounded
<1>4. net \in Nat /\ pol.floor \in Nat /\ u \in Int
  BY Numbers
<1>5. /\ Bounded(d) \in Nat \ {0} /\ Bounded(d) >= pol.floor
      /\ net > 0 => Bounded(d) <= GreaterOf(net, pol.floor)
      /\ net > 0 => Bounded(d) >= LesserOf(u, net)
      /\ net = 0 => Bounded(d) >= u
      /\ Bounded(d) <= GreaterOf(GreaterOf(u, pol.floor), 1)
  BY <1>3, <1>4, Clamped
<1>. HIDE DEF Bounded
<1>6. pol.max > 0 => Bounded(d) <= Ceiling
  BY <1>2, <1>5, Numbers DEF Ceiling, GreaterOf
<1>7. Bounded(d) >= LesserOf(requested, net)
  BY <1>2, <1>5, Numbers DEF LesserOf
<1>. QED  BY <1>5, <1>6, <1>7

\* A window with four of its fields replaced.
LEMMA WindowWith ==
    ASSUME NEW r \in Window, NEW s \in Nat, NEW l \in Nat, NEW m \in Nat, NEW e \in BOOLEAN
    PROVE  [r EXCEPT !.shares = s, !.least = l, !.most = m, !.earned = e] \in Window
BY DEF Window

LEMMA CountedType ==
    ASSUME vdWin \in Window, NEW d \in Nat, NEW a \in Nat
    PROVE  Counted(d, a) \in Window
<1>1. vdWin.least \in Nat /\ vdWin.most \in Nat /\ vdWin.shares \in Nat
  BY DEF Window
<1>2. (IF vdWin.shares = 0 THEN a ELSE LesserOf(vdWin.least, a)) \in Nat
      /\ GreaterOf(vdWin.most, d) \in Nat
  BY <1>1 DEF LesserOf, GreaterOf
<1>3. (vdWin.earned /\ a > FloorTrigger * d) \in BOOLEAN
  OBVIOUS
<1>4. vdWin.shares + 1 \in Nat
  BY <1>1
<1>. QED  BY ONLY <1>2, <1>3, <1>4, vdWin \in Window, WindowWith DEF Counted

LEMMA Product == ASSUME NEW a \in Nat, NEW b \in Nat PROVE a * b \in Nat
OBVIOUS

LEMMA Positive == ASSUME NEW a \in Nat \ {0}, NEW b \in Nat \ {0} PROVE a * b \in Nat \ {0}
OBVIOUS

LEMMA Quotient == ASSUME NEW a \in Nat, NEW b \in Nat \ {0} PROVE a \div b \in Int
OBVIOUS

\* The rate loop and the floor detector propose numbers.
LEMMA ProposalType ==
    ASSUME TypeInv, NEW w \in Window, IsOver(w)
    PROVE  GreaterOf(RateProposal(w), MeasuredFloor(w)) \in Int
<1>1. w.shares \in Nat /\ w.elapsed \in Nat \ {0} /\ w.least \in Nat /\ assigned \in Nat \ {0}
  BY DEF TypeInv, Window, IsOver
<1>2. Expected \in Nat \ {0} /\ StepCap \in Nat \ {0} /\ IdleStep \in Nat \ {0}
  BY DifficultyAssumption
<1>3. PICK e \in Nat \ {0} : e = Expected * w.elapsed
  BY <1>1, <1>2, Positive
<1>4. PICK s \in Nat \ {0} : s = IF w.shares >= MinSamples THEN StepCap ELSE IdleStep
  BY <1>2
<1>5. assigned * w.shares \in Nat /\ assigned * s \in Nat
  BY <1>1, Product
<1>6. (assigned * w.shares) \div e \in Int /\ assigned \div s \in Int
  BY <1>1, <1>5, Quotient
<1>7. GreaterOf(LesserOf((assigned * w.shares) \div e, assigned * s), assigned \div s) \in Int
  BY <1>5, <1>6 DEF GreaterOf, LesserOf
<1>8. RateProposal(w) \in Int
  BY <1>1, <1>3, <1>4, <1>7 DEF RateProposal
<1>9. w.least * 95 \in Nat
  BY <1>1
<1>10. MeasuredFloor(w) \in Int
  BY <1>9, Quotient DEF MeasuredFloor
<1>. QED  BY <1>8, <1>10 DEF GreaterOf

\* A share, and the retarget it may bring.
LEMMA ShareTicksKeeps ==
    ASSUME DiffInv, NEW from \in Sent, NEW a \in Nat, ShareTicks(from, a)
    PROVE  DiffInv' /\ Kept
<1>1. TypeInv /\ BoundInv
  BY DEF DiffInv
<1>2. UNCHANGED <<srv, pol, net, authorized, requested, held>>
  BY DEF ShareTicks
<1>3. Ceiling' = Ceiling
  BY <1>2 DEF Ceiling, GreaterOf
<1>4. PICK w \in {Counted(from.diff, a)} :
        IF ~srv.vardiff \/ ~IsOver(w)
        THEN vdWin' = w /\ UNCHANGED <<assigned, raise>>
        ELSE /\ assigned' = Bounded(GreaterOf(RateProposal(w), MeasuredFloor(w)))
             /\ vdWin' = NewWindow
  BY DEF ShareTicks
<1>5. w \in Window
  <2>1. from.diff \in Nat /\ vdWin \in Window
    BY <1>1 DEF Sent, TypeInv
  <2>. QED  BY <1>4, <2>1, CountedType
<1>6. CASE ~srv.vardiff \/ ~IsOver(w)
  <2>1. vdWin' = w /\ assigned' = assigned
    BY <1>4, <1>6
  <2>2. TypeInv'
    BY <1>1, <1>2, <1>5, <2>1 DEF TypeInv
  <2>3. BoundInv' /\ Kept
    BY <1>1, <1>2, <1>3, <2>1 DEF BoundInv, Kept
  <2>. QED  BY <2>2, <2>3 DEF DiffInv
<1>7. CASE ~(~srv.vardiff \/ ~IsOver(w))
  <2>1. PICK d \in Int : d = GreaterOf(RateProposal(w), MeasuredFloor(w))
    BY <1>1, <1>5, <1>7, ProposalType
  <2>2. assigned' = Bounded(d) /\ vdWin' = NewWindow
    BY <1>4, <1>7, <2>1
  <2>3. /\ assigned' \in Nat \ {0} /\ assigned' >= pol.floor
        /\ net > 0 => assigned' <= GreaterOf(net, pol.floor)
        /\ pol.max > 0 => assigned' <= Ceiling
        /\ assigned' >= LesserOf(requested, net)
    BY <1>1, <2>2, BoundedBounds
  <2>4. TypeInv'
    BY <1>1, <1>2, <2>2, <2>3, FreshWindow DEF TypeInv
  <2>5. BoundInv'
    BY <1>1, <1>2, <1>3, <2>3 DEF BoundInv
  <2>6. Kept
    BY <1>2, <2>3 DEF Kept, Ceiling
  <2>. QED  BY <2>4, <2>5, <2>6 DEF DiffInv
<1>. QED  BY <1>6, <1>7

\* What a share is judged by has a difficulty and a network's, whether the
\* connection was sent the job or not.
LEMMA JudgedType ==
    ASSUME TypeInv, NEW from \in JudgedAs
    PROVE  from \in Sent
<1>1. ASSUME NEW k \in DOMAIN held, from = held[k] PROVE from \in Sent
  <2>1. held \in Seq(Sent)
    BY DEF TypeInv
  <2>. QED  BY <1>1, <2>1
<1>2. ASSUME NEW n \in NetDiffs, from = [diff |-> assigned, net |-> n] PROVE from \in Sent
  <2>1. assigned \in Nat /\ n \in Nat
    BY DifficultyAssumption DEF TypeInv
  <2>. QED  BY <1>2, <2>1 DEF Sent
<1>. QED  BY <1>1, <1>2 DEF JudgedAs

LEMMA DiffInvStep ==
    ASSUME DiffInv, [NextDifficulty]_difficultyVars
    PROVE  DiffInv' /\ [Kept]_difficultyVars
<1>1. Requests \cup {0} \subseteq Nat /\ NetDiffs \subseteq Nat /\ Achieved \subseteq Nat
  BY DifficultyAssumption
<1>2. ASSUME NEW pw \in Requests \cup {0}, TakeDifficulty(pw) PROVE DiffInv' /\ Kept
  BY <1>1, <1>2, TakeKeeps
<1>3. ASSUME NEW req \in Requests, SuggestDiff(req) PROVE DiffInv' /\ Kept
  BY <1>1, <1>3, SuggestKeeps
<1>4. ASSUME NEW n \in NetDiffs, Notified(n) PROVE DiffInv' /\ Kept
  BY <1>1, <1>4, NotifiedKeeps
<1>5. CASE WindowPasses
  BY <1>5, WindowPassesKeeps
<1>6. ASSUME NEW from \in JudgedAs, NEW a \in Achieved, ShareTicks(from, a)
      PROVE  DiffInv' /\ Kept
  <2>1. from \in Sent
    BY JudgedType DEF DiffInv
  <2>. QED  BY <1>1, <1>6, <2>1, ShareTicksKeeps
<1>7. CASE UNCHANGED difficultyVars
  BY <1>7 DEF DiffInv, TypeInv, BoundInv, Ceiling, GreaterOf
<1>. QED  BY <1>2, <1>3, <1>4, <1>5, <1>6, <1>7 DEF NextDifficulty

\* Whatever the miner asks, the network does and vardiff measures, no step of
\* stratum.c's difficulty code breaks the bounds of BoundsKept, for any
\* listener line parse_listener accepts and any server settings.
THEOREM DifficultyBounds == DifficultySpec => BoundsKept
<1>1. [Kept]_difficultyVars <=> [authorized' /\ assigned' # assigned =>
         /\ assigned' >= pol.floor
         /\ net > 0 => assigned' <= GreaterOf(net, pol.floor)
         /\ pol.max > 0 => assigned' <= GreaterOf(pol.max, GreaterOf(pol.floor, pol.initial))
         /\ assigned' < assigned /\ requested' > 0 => assigned' >= LesserOf(requested', net)
      ]_difficultyVars
  BY DEF Kept
<1>. QED  BY <1>1, DiffInvInit, DiffInvStep, PTL DEF DifficultySpec, BoundsKept
-----------------------------------------------------------------------------
\* What the floor detector rests on: a window in which some share did not
\* beat its own job's difficulty fourfold has a least share that does not
\* beat the greatest of those difficulties fourfold.
Judged(w) ==
    /\ w.shares = 0 => w.earned
    /\ ~w.earned => w.least <= FloorTrigger * w.most

FloorInv == Judged(vdWin) /\ FloorIsMeasured

\* A multiple grows with what it is a multiple of.
LEMMA Grows ==
    ASSUME NEW k \in Nat, NEW a \in Nat, NEW b \in Nat, a <= b
    PROVE  k * a \in Nat /\ k * b \in Nat /\ k * a <= k * b
<1>1. PICK c \in Nat : b = a + c
  <2>1. b - a \in Nat /\ b = a + (b - a)
    OBVIOUS
  <2>. QED  BY <2>1
<1>2. k * b = k * a + k * c
  BY <1>1
<1>3. k * a \in Nat /\ k * c \in Nat
  BY Product
<1>. QED  BY <1>2, <1>3

\* The fields of a window with one more share.
LEMMA CountedFields ==
    ASSUME vdWin \in Window, NEW d \in Nat, NEW a \in Nat
    PROVE  /\ Counted(d, a).shares = vdWin.shares + 1
           /\ Counted(d, a).least = IF vdWin.shares = 0 THEN a ELSE LesserOf(vdWin.least, a)
           /\ Counted(d, a).most = GreaterOf(vdWin.most, d)
           /\ Counted(d, a).earned = (vdWin.earned /\ a > FloorTrigger * d)
BY DEF Window, Counted

\* Counting a share keeps the window judged: either the window already had
\* a share that fell short, or this one does.
LEMMA CountedJudged ==
    ASSUME vdWin \in Window, Judged(vdWin), NEW d \in Nat, NEW a \in Nat
    PROVE  Judged(Counted(d, a))
<1>1. vdWin.shares \in Nat /\ vdWin.least \in Nat /\ vdWin.most \in Nat
  BY DEF Window
<1>2. FloorTrigger \in Nat
  BY DifficultyAssumption
<1>3. PICK w : w = Counted(d, a)
  OBVIOUS
<1>4. /\ w.shares = vdWin.shares + 1
      /\ w.least = IF vdWin.shares = 0 THEN a ELSE LesserOf(vdWin.least, a)
      /\ w.most = GreaterOf(vdWin.most, d)
      /\ w.earned = (vdWin.earned /\ a > FloorTrigger * d)
  BY <1>3, CountedFields
<1>5. /\ w.most \in Nat /\ w.most >= vdWin.most /\ w.most >= d
      /\ w.least \in Nat /\ w.least <= a
      /\ vdWin.shares # 0 => w.least <= vdWin.least
  BY <1>1, <1>4 DEF LesserOf, GreaterOf
<1>6. w.shares # 0
  BY <1>1, <1>4
<1>7. ASSUME ~w.earned PROVE w.least <= FloorTrigger * w.most
  <2>1. CASE ~vdWin.earned
    <3>1. vdWin.shares # 0 /\ vdWin.least <= FloorTrigger * vdWin.most
      BY <2>1 DEF Judged
    <3>2. /\ FloorTrigger * vdWin.most \in Nat /\ FloorTrigger * w.most \in Nat
          /\ FloorTrigger * vdWin.most <= FloorTrigger * w.most
      BY <1>1, <1>2, <1>5, Grows
    <3>. QED  BY <1>1, <1>5, <3>1, <3>2
  <2>2. CASE ~(a > FloorTrigger * d)
    <3>1. /\ FloorTrigger * d \in Nat /\ FloorTrigger * w.most \in Nat
          /\ FloorTrigger * d <= FloorTrigger * w.most
      BY <1>2, <1>5, Grows
    <3>. QED  BY <1>5, <2>2, <3>1
  <2>. QED  BY <1>4, <1>7, <2>1, <2>2
<1>. QED  BY <1>3, <1>6, <1>7 DEF Judged

LEMMA NaturalQuotient == ASSUME NEW a \in Nat, NEW b \in Nat \ {0} PROVE a \div b \in Nat
OBVIOUS

\* The rate loop never proposes less than nothing.
LEMMA RateIsNatural ==
    ASSUME TypeInv, NEW w \in Window, IsOver(w)
    PROVE  RateProposal(w) \in Nat
<1>1. w.shares \in Nat /\ w.elapsed \in Nat \ {0} /\ assigned \in Nat \ {0}
  BY DEF TypeInv, Window, IsOver
<1>2. Expected \in Nat \ {0} /\ StepCap \in Nat \ {0} /\ IdleStep \in Nat \ {0}
  BY DifficultyAssumption
<1>3. PICK e \in Nat \ {0} : e = Expected * w.elapsed
  BY <1>1, <1>2, Positive
<1>4. PICK s \in Nat \ {0} : s = IF w.shares >= MinSamples THEN StepCap ELSE IdleStep
  BY <1>2
<1>5. assigned * w.shares \in Nat /\ assigned * s \in Nat
  BY <1>1, Product
<1>6. (assigned * w.shares) \div e \in Nat /\ assigned \div s \in Nat
  BY <1>1, <1>5, NaturalQuotient
<1>7. GreaterOf(LesserOf((assigned * w.shares) \div e, assigned * s), assigned \div s) \in Nat
  BY <1>5, <1>6 DEF GreaterOf, LesserOf
<1>. QED  BY <1>1, <1>3, <1>4, <1>7 DEF RateProposal

\* A floor above the rate loop's proposal was measured on a window every
\* share of which beat its own difficulty fourfold.
LEMMA FloorIsEarned ==
    ASSUME TypeInv, NEW w \in Window, IsOver(w), Judged(w),
           MeasuredFloor(w) > RateProposal(w)
    PROVE  w.earned
<1>1. w.least \in Nat /\ w.most \in Nat /\ assigned \in Nat /\ w.earned \in BOOLEAN
  BY DEF TypeInv, Window
<1>2. FloorTrigger \in Nat
  BY DifficultyAssumption
<1>3. RateProposal(w) \in Nat
  BY RateIsNatural
<1>4. MeasuredFloor(w) # 0
  BY <1>3
<1>5. w.least > FloorTrigger * FloorBasis(w)
  BY <1>4 DEF MeasuredFloor
<1>6. FloorBasis(w) \in Nat /\ w.most <= FloorBasis(w)
  BY <1>1 DEF FloorBasis, GreaterOf
<1>7. /\ FloorTrigger * w.most \in Nat /\ FloorTrigger * FloorBasis(w) \in Nat
      /\ FloorTrigger * w.most <= FloorTrigger * FloorBasis(w)
  BY <1>1, <1>2, <1>6, Grows
<1>8. ~(w.least <= FloorTrigger * w.most)
  BY <1>1, <1>5, <1>7
<1>. QED  BY <1>8 DEF Judged

LEMMA FreshJudged == Judged(NewWindow)
BY DEF Judged, NewWindow

LEMMA FloorInvInit == InitDifficulty => FloorInv
BY FreshJudged DEF InitDifficulty, FloorInv, FloorIsMeasured

LEMMA FloorInvShare ==
    ASSUME TypeInv, FloorInv, NEW from \in Sent, NEW a \in Nat, ShareTicks(from, a)
    PROVE  FloorInv'
<1>1. PICK w \in {Counted(from.diff, a)} :
        IF ~srv.vardiff \/ ~IsOver(w)
        THEN vdWin' = w /\ UNCHANGED <<assigned, raise>>
        ELSE /\ raise' = [floor |-> MeasuredFloor(w) > RateProposal(w), earned |-> w.earned]
             /\ vdWin' = NewWindow
  BY DEF ShareTicks
<1>2. from.diff \in Nat /\ vdWin \in Window /\ Judged(vdWin)
  BY DEF Sent, TypeInv, FloorInv
<1>3. w \in Window /\ Judged(w)
  BY <1>1, <1>2, CountedType, CountedJudged
<1>4. CASE ~srv.vardiff \/ ~IsOver(w)
  <2>1. vdWin' = w /\ raise' = raise
    BY <1>1, <1>4
  <2>. QED  BY <1>3, <2>1 DEF FloorInv, FloorIsMeasured, Judged
<1>5. CASE ~(~srv.vardiff \/ ~IsOver(w))
  <2>1. /\ raise' = [floor |-> MeasuredFloor(w) > RateProposal(w), earned |-> w.earned]
        /\ vdWin' = NewWindow
    BY <1>1, <1>5
  <2>2. MeasuredFloor(w) > RateProposal(w) => w.earned
    BY <1>3, <1>5, FloorIsEarned
  <2>3. Judged(vdWin)'
    BY <2>1, FreshJudged DEF Judged
  <2>4. FloorIsMeasured'
    BY <2>1, <2>2 DEF FloorIsMeasured
  <2>. QED  BY <2>3, <2>4 DEF FloorInv
<1>. QED  BY <1>4, <1>5

LEMMA FloorInvStep ==
    ASSUME TypeInv, FloorInv, [NextDifficulty]_difficultyVars
    PROVE  FloorInv'
<1>1. ASSUME NEW pw, TakeDifficulty(pw) PROVE FloorInv'
  <2>1. vdWin' = NewWindow /\ raise' = raise
    BY <1>1 DEF TakeDifficulty
  <2>2. Judged(vdWin)'
    BY <2>1, FreshJudged DEF Judged
  <2>. QED  BY <2>1, <2>2 DEF FloorInv, FloorIsMeasured
<1>2. ASSUME UNCHANGED <<vdWin, raise>> PROVE FloorInv'
  BY <1>2 DEF FloorInv, FloorIsMeasured, Judged
<1>3. CASE WindowPasses
  <2>1. vdWin \in Window /\ vdWin' = [vdWin EXCEPT !.elapsed = @ + 1] /\ raise' = raise
    BY <1>3 DEF WindowPasses, TypeInv
  <2>2. /\ vdWin'.shares = vdWin.shares /\ vdWin'.earned = vdWin.earned
        /\ vdWin'.least = vdWin.least /\ vdWin'.most = vdWin.most
    BY <2>1 DEF Window
  <2>. QED  BY <2>1, <2>2 DEF FloorInv, FloorIsMeasured, Judged
<1>4. ASSUME NEW from \in JudgedAs, NEW a \in Achieved, ShareTicks(from, a)
      PROVE  FloorInv'
  <2>1. from \in Sent /\ a \in Nat
    BY JudgedType, DifficultyAssumption
  <2>. QED  BY <1>4, <2>1, FloorInvShare
<1>5. ASSUME NEW req, SuggestDiff(req) PROVE FloorInv'
  BY <1>2, <1>5 DEF SuggestDiff
<1>6. ASSUME NEW n, Notified(n) PROVE FloorInv'
  BY <1>2, <1>6 DEF Notified
<1>7. CASE UNCHANGED difficultyVars
  BY <1>2, <1>7
<1>. QED  BY <1>1, <1>3, <1>4, <1>5, <1>6, <1>7 DEF NextDifficulty

\* The floor detector of vardiff_maybe_retarget never takes an echo of older
\* jobs for a miner's own floor: it raises a difficulty only on a window
\* every share of which beat the difficulty of its own job by the trigger,
\* whatever the settings, the rate loop and the network do, and whichever
\* difficulty a share was taken at: its job's, the network's, or after a cut
\* the lower one of now.
THEOREM FloorMeasured == DifficultySpec => []FloorIsMeasured
<1>1. DiffInv => TypeInv
  BY DEF DiffInv
<1>2. FloorInv => FloorIsMeasured
  BY DEF FloorInv
<1>. QED  BY <1>1, <1>2, DiffInvInit, DiffInvStep, FloorInvInit, FloorInvStep, PTL
          DEF DifficultySpec

-----------------------------------------------------------------------------
(* The budget of failed authorizations. *)

Places == 0..AuthSlots - 1
Addrs  == Peers \cup {NoIp}
Entry  == [ip : Addrs, fails : Nat, start : Nat]

Of(ip)      == {c \in Clients : PeerOf[c] = ip}
Failing(ip) == {c \in Of(ip) : apc[c] = "failed"}

AuthTypes ==
    /\ authHome \in [Peers -> Places] /\ now \in Nat
    /\ table \in [Places -> Entry]
    /\ apc \in [Clients -> {"idle", "gate", "failed", "succeeded"}]
    /\ mono \in [Clients -> Nat]
    /\ failedAt \in [Peers -> Seq(Nat)]
    /\ \A ip \in Peers : Len(failedAt[ip]) <= AuthMax

\* An address has one entry at most, and that where its probes come by.
Placed ==
    /\ \A i \in Places : table[i].ip # NoIp =>
          \E k \in 0..AuthProbe - 1 : i = Run(table[i].ip)[k]
    /\ \A i, j \in Places : table[i].ip # NoIp /\ table[i].ip = table[j].ip => i = j

\* The last f of the times s are not before t; s remembers no more than AuthMax.
Recent(s, f, t) ==
    /\ f <= Len(s) \/ Len(s) = AuthMax
    /\ \A k \in 1..Len(s) : k > Len(s) - f => s[k] >= t

\* What an entry counts are failures of its own address and window ...
CountInv ==
    \A ip \in Peers : \A i \in SlotOf(table, ip) :
        Recent(failedAt[ip], table[i].fails, table[i].start)

\* ... and with those about to be charged, not more than the budget and one for
\* each other connection.
RoomInv ==
    \A ip \in Peers : \A i \in SlotOf(table, ip) :
        table[i].fails + Cardinality(Failing(ip)) <= AuthMax - 1 + Cardinality(Of(ip))

AuthInv == AuthTypes /\ Placed /\ CountInv /\ RoomInv

-----------------------------------------------------------------------------
LEMMA LeastOf ==
    ASSUME NEW N \in SUBSET Nat, N # {}
    PROVE  \E n \in N : \A m \in N : n <= m
<1>1. PICK n \in N : \A m \in N : ~(<<m, n>> \in OpToRel(<, Nat))
  BY NatLessThanWellFounded, WFMin
<1>2. ASSUME NEW m \in N PROVE n <= m
  <2>1. m < n => <<m, n>> \in OpToRel(<, Nat)
    BY DEF OpToRel
  <2>2. ~(m < n)
    BY ONLY <1>1, <2>1, m \in N
  <2>. QED  BY <2>2
<1>. QED  BY <1>2

LEMMA Limits ==
    /\ AuthSlots \in Nat /\ AuthSlots > 0 /\ AuthProbe \in Nat /\ AuthProbe > 0
    /\ AuthMax \in Nat /\ AuthMax > 0 /\ Lockout \in Nat /\ Lockout > 0
<1>1. {AuthSlots, AuthProbe, AuthMax, Lockout, CallMax} \subseteq Nat \ {0}
  BY AuthAssumption
<1>2. \A n \in Nat \ {0} : n \in Nat /\ n > 0
  OBVIOUS
<1>. QED  BY <1>1, <1>2

LEMMA Addresses ==
    PeerOf \in [Clients -> Peers] /\ IsFiniteSet(Clients) /\ NoIp \notin Peers
BY AuthAssumption

LEMMA FreshIs ==
    ASSUME NEW ip \in Peers, NEW t \in Nat
    PROVE  /\ Fresh(ip, t) \in Entry /\ Fresh(ip, t).ip = ip
           /\ Fresh(ip, t).fails = 0 /\ Fresh(ip, t).start = t
<1>1. Fresh(ip, t) = [ip |-> ip, fails |-> 0, start |-> t]
  BY DEF Fresh
<1>2. ip \in Addrs
  BY DEF Addrs
<1>. QED  BY <1>1, <1>2 DEF Entry

LEMMA RunIsPlaced ==
    ASSUME AuthTypes, NEW ip \in Peers
    PROVE  \A k \in 0..AuthProbe - 1 : Run(ip)[k] \in Places
<1>1. ASSUME NEW n \in Nat, n > 0, NEW x \in Nat PROVE x % n \in 0..n - 1
  BY <1>1
<1>2. ASSUME NEW k \in 0..AuthProbe - 1 PROVE Run(ip)[k] \in Places
  <2>1. authHome[ip] + k \in Nat
    BY Limits DEF AuthTypes, Places
  <2>2. (authHome[ip] + k) % AuthSlots \in 0..AuthSlots - 1
    BY <1>1, <2>1, Limits
  <2>. QED  BY <2>2 DEF Run, Places
<1>. QED  BY <1>2

\* The first slot of a run among S.
LEMMA FirstIs ==
    ASSUME AuthTypes, NEW ip \in Peers, NEW S, NEW k \in 0..AuthProbe - 1, Run(ip)[k] \in S
    PROVE  \E i \in S : /\ First(ip, S) = {i} /\ i \in Places
                        /\ \E m \in 0..AuthProbe - 1 : i = Run(ip)[m]
<1>. DEFINE at == {m \in 0..AuthProbe - 1 : Run(ip)[m] \in S}
<1>1. at # {} /\ at \in SUBSET Nat
  BY Limits
<1>2. \E n \in at : \A m \in at : n <= m
  BY <1>1, LeastOf
<1>3. PICK n \in at : n = CHOOSE m \in at : \A l \in at : m <= l
  BY <1>2
<1>4. First(ip, S) = {Run(ip)[n]}
  BY <1>1, <1>3 DEF First
<1>. QED  BY <1>4, RunIsPlaced

LEMMA FirstIsNone ==
    ASSUME NEW ip \in Peers, NEW S, \A k \in 0..AuthProbe - 1 : Run(ip)[k] \notin S
    PROVE  First(ip, S) = {}
BY DEF First

\* An address's entry is found if it has one.
LEMMA HoldingIs ==
    ASSUME AuthTypes, Placed, NEW ip \in Peers
    PROVE  /\ (\A i \in Places : table[i].ip # ip) => Holding(ip) = {}
           /\ \A i \in Places : table[i].ip = ip => Holding(ip) = {i}
<1>0. ip # NoIp /\ DOMAIN table = Places
  BY Addresses DEF AuthTypes
<1>. DEFINE S == {i \in DOMAIN table : table[i].ip = ip}
<1>1. ASSUME \A i \in Places : table[i].ip # ip PROVE Holding(ip) = {}
  <2>1. S = {}
    BY <1>0, <1>1
  <2>2. First(ip, S) = {}
    BY <2>1, FirstIsNone
  <2>. QED  BY <2>2 DEF Holding
<1>2. ASSUME NEW i \in Places, table[i].ip = ip PROVE Holding(ip) = {i}
  <2>1. PICK k \in 0..AuthProbe - 1 : i = Run(ip)[k]
    BY <1>0, <1>2 DEF Placed
  <2>2. i \in S
    BY <1>0, <1>2
  <2>3. PICK j \in S : First(ip, S) = {j} /\ j \in Places
    BY <2>1, <2>2, FirstIs
  <2>4. j = i
    BY <1>0, <1>2, <2>3 DEF Placed
  <2>. QED  BY <2>3, <2>4 DEF Holding
<1>. QED  BY <1>1, <1>2

\* auth_fail_find without `create` changes an expired entry of the address.
LEMMA FoundIs ==
    ASSUME AuthTypes, Placed, NEW ip \in Peers, NEW t \in Nat
    PROVE  \/ Found(ip, t) = table
           \/ \E i \in Places : table[i].ip = ip /\ Found(ip, t) = [table EXCEPT ![i] = Fresh(ip, t)]
<1>0. DOMAIN table = Places /\ table \in [Places -> Entry]
  BY DEF AuthTypes
<1>1. CASE \A i \in Places : table[i].ip # ip
  <2>1. Holding(ip) = {}
    BY <1>1, HoldingIs
  <2>. QED  BY <1>0, <2>1 DEF Found
<1>2. ASSUME NEW i \in Places, table[i].ip = ip
      PROVE  \/ Found(ip, t) = table
             \/ Found(ip, t) = [table EXCEPT ![i] = Fresh(ip, t)]
  <2>1. Holding(ip) = {i}
    BY <1>2, HoldingIs
  <2>2. CASE Past(table[i], t)
    <3>1. Found(ip, t) = [table EXCEPT ![i] = Fresh(ip, t)]
      BY <1>0, <2>1, <2>2 DEF Found
    <3>. QED  BY <3>1
  <2>3. CASE ~Past(table[i], t)
    <3>1. Found(ip, t) = table
      BY <1>0, <2>1, <2>3 DEF Found
    <3>. QED  BY <3>1
  <2>. QED  BY <2>2, <2>3
<1>. QED  BY <1>1, <1>2

\* With `create` it leaves the address with one entry, its own or a fresh one.
LEMMA ClaimedIs ==
    ASSUME AuthTypes, Placed, NEW ip \in Peers
    PROVE  \E i \in Places : \E e \in Entry :
              /\ ClaimedSlot(ip) = [table EXCEPT ![i] = e]
              /\ e.ip = ip /\ e.start <= now
              /\ \E k \in 0..AuthProbe - 1 : i = Run(ip)[k]
              /\ \A j \in Places : j # i => table[j].ip # ip
              /\ \/ e = Fresh(ip, now)
                 \/ e = table[i] /\ table[i].ip = ip
<1>0. /\ DOMAIN table = Places /\ table \in [Places -> Entry] /\ ip # NoIp /\ now \in Nat
      /\ Fresh(ip, now) \in Entry /\ Fresh(ip, now).ip = ip /\ Fresh(ip, now).start <= now
  <2>1. ip # NoIp /\ now \in Nat
    BY Addresses DEF AuthTypes
  <2>2. Fresh(ip, now) \in Entry /\ Fresh(ip, now).ip = ip /\ Fresh(ip, now).start = now
    BY <2>1, FreshIs
  <2>3. Fresh(ip, now).start <= now
    BY <2>1, <2>2
  <2>4. DOMAIN table = Places /\ table \in [Places -> Entry]
    BY DEF AuthTypes
  <2>. QED  BY <2>1, <2>2, <2>3, <2>4
<1>1. ASSUME NEW i \in Places, table[i].ip = ip
      PROVE  \E e \in Entry :
              /\ ClaimedSlot(ip) = [table EXCEPT ![i] = e]
              /\ e.ip = ip /\ e.start <= now
              /\ \E k \in 0..AuthProbe - 1 : i = Run(ip)[k]
              /\ \A j \in Places : j # i => table[j].ip # ip
              /\ \/ e = Fresh(ip, now)
                 \/ e = table[i] /\ table[i].ip = ip
  <2>1. Holding(ip) = {i}
    BY <1>1, HoldingIs
  <2>2. ClaimedSlot(ip) = Found(ip, now)
    BY <2>1 DEF ClaimedSlot
  <2>3. /\ \E k \in 0..AuthProbe - 1 : i = Run(ip)[k]
        /\ \A j \in Places : j # i => table[j].ip # ip
    BY <1>0, <1>1 DEF Placed
  <2>4. CASE Past(table[i], now)
    <3>1. Found(ip, now) = [table EXCEPT ![i] = Fresh(ip, now)]
      BY <1>0, <2>1, <2>4 DEF Found
    <3>. QED  BY <1>0, <2>2, <2>3, <3>1
  <2>5. CASE ~Past(table[i], now)
    <3>1. Found(ip, now) = [table EXCEPT ![i] = table[i]]
      BY <1>0, <2>1, <2>5 DEF Found
    <3>2. table[i] \in Entry /\ table[i].start <= now
      <4>1. table[i] \in Entry
        BY <1>0
      <4>2. table[i].start \in Nat
        BY <4>1 DEF Entry
      <4>3. ~(now < table[i].start)
        BY <2>5 DEF Past
      <4>4. table[i].start <= now
        BY <1>0, <4>2, <4>3
      <4>. QED  BY <4>1, <4>4
    <3>. QED  BY <1>1, <2>2, <2>3, <3>1, <3>2
  <2>. QED  BY <2>4, <2>5
<1>2. ASSUME \A i \in Places : table[i].ip # ip
      PROVE  \E i \in Places :
              /\ ClaimedSlot(ip) = [table EXCEPT ![i] = Fresh(ip, now)]
              /\ \E k \in 0..AuthProbe - 1 : i = Run(ip)[k]
  <2>1. Holding(ip) = {}
    BY <1>2, HoldingIs
  <2>. DEFINE at == IF Free(ip) # {} THEN Free(ip) ELSE Oldest(ip)
  <2>2. ClaimedSlot(ip) = [i \in DOMAIN table |-> IF i \in at THEN Fresh(ip, now) ELSE table[i]]
    BY <2>1 DEF ClaimedSlot
  <2>3. \E i \in Places : at = {i} /\ \E k \in 0..AuthProbe - 1 : i = Run(ip)[k]
    <3>1. CASE Free(ip) # {}
      <4>. DEFINE S == {i \in DOMAIN table : table[i].ip = NoIp \/ Past(table[i], now)}
      <4>1. \E k \in 0..AuthProbe - 1 : Run(ip)[k] \in S
        BY <3>1, FirstIsNone DEF Free
      <4>2. \E i \in S : /\ First(ip, S) = {i} /\ i \in Places
                         /\ \E m \in 0..AuthProbe - 1 : i = Run(ip)[m]
        BY <4>1, FirstIs
      <4>. QED  BY <3>1, <4>2 DEF Free
    <3>2. CASE Free(ip) = {}
      <4>. DEFINE S == {i \in DOMAIN table : \A k \in DOMAIN Run(ip) :
                                     table[i].start <= table[Run(ip)[k]].start}
      <4>. DEFINE N == {table[Run(ip)[k]].start : k \in 0..AuthProbe - 1}
      <4>1. 0 \in 0..AuthProbe - 1 /\ DOMAIN Run(ip) = 0..AuthProbe - 1
        BY Limits DEF Run
      <4>2. \A k \in 0..AuthProbe - 1 : Run(ip)[k] \in Places
        BY RunIsPlaced
      <4>3. \A k \in 0..AuthProbe - 1 : table[Run(ip)[k]].start \in Nat
        BY <1>0, <4>2 DEF Entry
      <4>4. N \in SUBSET Nat /\ N # {}
        BY <4>1, <4>3
      <4>5. PICK n \in N : \A m \in N : n <= m
        BY <4>4, LeastOf
      <4>6. PICK k \in 0..AuthProbe - 1 : n = table[Run(ip)[k]].start
        BY <4>5
      <4>7. Run(ip)[k] \in S
        BY <1>0, <4>1, <4>2, <4>5, <4>6
      <4>8. \E i \in S : /\ First(ip, S) = {i} /\ i \in Places
                         /\ \E m \in 0..AuthProbe - 1 : i = Run(ip)[m]
        BY <4>7, FirstIs
      <4>. QED  BY <3>2, <4>8 DEF Oldest
    <3>. QED  BY <3>1, <3>2
  <2>4. PICK i \in Places : at = {i} /\ \E k \in 0..AuthProbe - 1 : i = Run(ip)[k]
    BY <2>3
  <2>5. ClaimedSlot(ip) = [table EXCEPT ![i] = Fresh(ip, now)]
    BY <1>0, <2>2, <2>4
  <2>. QED  BY <2>4, <2>5
<1>3. CASE \E i \in Places : table[i].ip = ip
  BY <1>1, <1>3
<1>4. CASE \A i \in Places : table[i].ip # ip
  <2>1. PICK i \in Places : /\ ClaimedSlot(ip) = [table EXCEPT ![i] = Fresh(ip, now)]
                            /\ \E k \in 0..AuthProbe - 1 : i = Run(ip)[k]
    BY <1>2, <1>4
  <2>. QED  BY <1>0, <1>4, <2>1
<1>. QED  BY <1>3, <1>4

-----------------------------------------------------------------------------
\* One entry is replaced by another that stands where its address looks.
LEMMA PlacedKeeps ==
    ASSUME AuthTypes, Placed, NEW i \in Places, NEW e \in Entry,
           table' = [table EXCEPT ![i] = e], authHome' = authHome,
           e.ip # NoIp => /\ \E k \in 0..AuthProbe - 1 : i = Run(e.ip)[k]
                        /\ \A j \in Places : j # i => table[j].ip # e.ip
    PROVE  Placed' /\ table' \in [Places -> Entry]
<1>1. table \in [Places -> Entry]
  BY DEF AuthTypes
<1>2. \A j \in Places : table'[j] = IF j = i THEN e ELSE table[j]
  BY <1>1
<1>3. \A ip : Run(ip)' = Run(ip)
  BY DEF Run
<1>4. \A j \in Places : table'[j].ip # NoIp => \E k \in 0..AuthProbe - 1 : j = Run(table'[j].ip)[k]
  <2>1. ASSUME NEW j \in Places, j = i, table'[j].ip # NoIp
        PROVE  \E k \in 0..AuthProbe - 1 : j = Run(table'[j].ip)[k]
    BY <1>2, <2>1
  <2>2. ASSUME NEW j \in Places, j # i, table'[j].ip # NoIp
        PROVE  \E k \in 0..AuthProbe - 1 : j = Run(table'[j].ip)[k]
    <3>1. table'[j] = table[j]
      BY <1>2, <2>2
    <3>. QED  BY <2>2, <3>1 DEF Placed
  <2>. QED  BY <2>1, <2>2
<1>5. ASSUME NEW j \in Places, NEW l \in Places, table'[j].ip # NoIp, table'[j].ip = table'[l].ip
      PROVE  j = l
  <2>1. CASE j = i /\ l # i
    <3>1. table'[j] = e /\ table'[l] = table[l]
      BY <1>2, <2>1
    <3>. QED  BY <1>5, <2>1, <3>1
  <2>2. CASE j # i /\ l = i
    <3>1. table'[l] = e /\ table'[j] = table[j]
      BY <1>2, <2>2
    <3>. QED  BY <1>5, <2>2, <3>1
  <2>3. CASE j # i /\ l # i
    <3>1. table'[l] = table[l] /\ table'[j] = table[j]
      BY <1>2, <2>3
    <3>. QED  BY <1>5, <3>1 DEF Placed
  <2>. QED  BY <2>1, <2>2, <2>3
<1>6. Placed'
  BY <1>3, <1>4, <1>5 DEF Placed
<1>. QED  BY <1>1, <1>6

\* A failure is remembered, and the oldest forgotten.
LEMMA RecentKeeps ==
    ASSUME NEW s \in Seq(Nat), Len(s) <= AuthMax, NEW f \in Nat, NEW b \in Nat, NEW t \in Nat,
           b <= t, Recent(s, f, b), NEW r,
           r = LET u == Append(s, t) IN IF Len(u) > AuthMax THEN Tail(u) ELSE u
    PROVE  r \in Seq(Nat) /\ Len(r) <= AuthMax /\ Recent(r, f + 1, b)
<1>0. AuthMax \in Nat /\ AuthMax > 0 /\ Len(s) \in Nat
  BY Limits
<1>1. PICK u : u = Append(s, t)
  OBVIOUS
<1>8. /\ u \in Seq(Nat) /\ Len(u) = Len(s) + 1 /\ u[Len(s) + 1] = t
       /\ \A k \in 1..Len(s) : u[k] = s[k]
  BY <1>0, <1>1
<1>2. f <= Len(s) \/ Len(s) = AuthMax
  BY DEF Recent
<1>3. \A k \in 1..Len(s) : k > Len(s) - f => s[k] >= b
  BY DEF Recent
<1>4. \A k \in 1..Len(u) : u[k] \in Nat
  BY <1>1, <1>8
<1>5. ASSUME NEW k \in 1..Len(u), k > Len(s) - f PROVE u[k] >= b
  <2>1. CASE k = Len(s) + 1
    BY <1>1, <1>8, <2>1
  <2>2. CASE k # Len(s) + 1
    <3>1. k \in 1..Len(s)
      BY <1>0, <1>1, <1>8, <2>2
    <3>. QED  BY <1>1, <1>8, <1>3, <1>5, <3>1
  <2>. QED  BY <2>1, <2>2
<1>6. CASE Len(u) > AuthMax
  <2>1. r = Tail(u) /\ u # <<>>
    BY <1>0, <1>1, <1>8, <1>6
  <2>2. /\ r \in Seq(Nat) /\ Len(r) = Len(s)
        /\ \A k \in 1..Len(r) : r[k] = u[k + 1]
    BY <1>0, <1>1, <1>8, <2>1
  <2>3. Len(s) = AuthMax
    BY <1>0, <1>1, <1>8, <1>6
  <2>4. ASSUME NEW k \in 1..Len(r), k > Len(r) - (f + 1) PROVE r[k] >= b
    <3>1. k + 1 \in 1..Len(u) /\ k + 1 > Len(s) - f
      BY <1>0, <1>1, <1>8, <2>2, <2>4
    <3>. QED  BY <1>5, <2>2, <3>1
  <2>. QED  BY <1>0, <2>2, <2>3, <2>4 DEF Recent
<1>7. CASE ~(Len(u) > AuthMax)
  <2>1. r = u /\ f <= Len(s)
    BY <1>0, <1>1, <1>8, <1>2, <1>7
  <2>2. ASSUME NEW k \in 1..Len(r), k > Len(r) - (f + 1) PROVE r[k] >= b
    <3>1. k \in 1..Len(u) /\ k > Len(s) - f
      BY <1>0, <1>1, <1>8, <2>1, <2>2
    <3>. QED  BY <1>5, <2>1, <3>1
  <2>3. f + 1 <= Len(r) /\ Len(r) <= AuthMax
    BY <1>0, <1>1, <1>8, <1>7, <2>1
  <2>. QED  BY <1>1, <1>8, <2>1, <2>2, <2>3 DEF Recent
<1>. QED  BY <1>6, <1>7

\* Those about to be charged are connections of the address.
LEMMA FailingIsFinite ==
    ASSUME NEW ip \in Peers
    PROVE  /\ IsFiniteSet(Of(ip)) /\ Cardinality(Of(ip)) \in Nat
           /\ IsFiniteSet(Failing(ip)) /\ Cardinality(Failing(ip)) \in Nat
           /\ Cardinality(Failing(ip)) <= Cardinality(Of(ip))
<1>1. IsFiniteSet(Of(ip))
  BY Addresses, FS_Subset DEF Of
<1>2. IsFiniteSet(Failing(ip)) /\ Cardinality(Failing(ip)) <= Cardinality(Of(ip))
  BY <1>1, FS_Subset DEF Failing
<1>. QED  BY <1>1, <1>2, FS_CardinalityType

-----------------------------------------------------------------------------
LEMMA AuthInvInit == InitAuth => AuthInv
<1>. SUFFICES ASSUME InitAuth PROVE AuthInv
  OBVIOUS
<1>1. AuthTypes
  <2>0. NoIp \in Addrs
    BY DEF Addrs
  <2>1. NoEntry \in Entry
    BY <2>0 DEF NoEntry, Entry
  <2>2. \A ip \in Peers : failedAt[ip] = <<>>
    BY DEF InitAuth
  <2>3. failedAt \in [Peers -> Seq(Nat)] /\ \A ip \in Peers : Len(failedAt[ip]) <= AuthMax
    BY <2>2, Limits DEF InitAuth
  <2>. QED  BY <2>1, <2>3 DEF InitAuth, AuthTypes, Places
<1>2. \A i \in Places : table[i].ip = NoIp
  BY DEF InitAuth, NoEntry, Places
<1>3. DOMAIN table = Places
  BY DEF InitAuth, Places
<1>4. Placed
  BY <1>2 DEF Placed
<1>5. \A ip \in Peers : SlotOf(table, ip) = {}
  BY <1>2, <1>3, Addresses DEF SlotOf
<1>6. CountInv /\ RoomInv
  BY <1>5 DEF CountInv, RoomInv
<1>. QED  BY <1>1, <1>4, <1>6 DEF AuthInv

\* The clock, and reading it.
LEMMA ClockKeeps ==
    ASSUME AuthInv, now' \in Nat, mono' \in [Clients -> Nat],
           apc' \in [Clients -> {"idle", "gate", "failed", "succeeded"}],
           \A c \in Clients : apc'[c] = "failed" <=> apc[c] = "failed",
           UNCHANGED <<authHome, table, failedAt>>
    PROVE  AuthInv'
<1>1. \A ip : Failing(ip)' = Failing(ip) /\ Of(ip)' = Of(ip)
  BY DEF Failing, Of
<1>2. \A ip : Run(ip)' = Run(ip) /\ SlotOf(table, ip)' = SlotOf(table, ip)
  BY DEF Run, SlotOf
<1>3. AuthTypes'
  BY DEF AuthInv, AuthTypes
<1>4. Placed'
  BY <1>2 DEF AuthInv, Placed
<1>5. CountInv'
  BY <1>2 DEF AuthInv, CountInv
<1>6. RoomInv'
  BY <1>1, <1>2 DEF AuthInv, RoomInv
<1>. QED  BY <1>3, <1>4, <1>5, <1>6 DEF AuthInv

LEMMA GateKeeps ==
    ASSUME AuthInv, NEW c \in Clients, Gate(c) PROVE AuthInv'
<1>0. AuthTypes /\ Placed /\ CountInv /\ RoomInv
  BY DEF AuthInv
<1>1. PICK p \in Peers : p = PeerOf[c]
  BY Addresses
<1>2. PICK t \in Nat : t = mono[c]
  BY <1>0 DEF AuthTypes
<1>3. /\ table' = Found(p, t) /\ UNCHANGED <<authHome, now, failedAt>>
      /\ mono' \in [Clients -> Nat]
      /\ \E to \in {"idle", "failed", "succeeded"} : apc' = [apc EXCEPT ![c] = to]
      /\ apc' = [apc EXCEPT ![c] = "failed"] => ~Locked(table', p)
  <2>1. mono' = [mono EXCEPT ![c] = 0]
    BY DEF Gate
  <2>2. mono' \in [Clients -> Nat]
    BY <1>0, <2>1 DEF AuthTypes
  <2>3. CASE Locked(table', p)
    <3>1. apc' = [apc EXCEPT ![c] = "idle"]
      BY <1>1, <2>3 DEF Gate
    <3>2. [apc EXCEPT ![c] = "idle"] # [apc EXCEPT ![c] = "failed"]
      BY <1>0 DEF AuthTypes
    <3>. QED  BY <1>1, <1>2, <2>2, <3>1, <3>2 DEF Gate
  <2>4. CASE ~Locked(table', p)
    <3>1. \E to \in {"idle", "failed", "succeeded"} : apc' = [apc EXCEPT ![c] = to]
      BY <1>1, <2>4 DEF Gate
    <3>. QED  BY <1>1, <1>2, <2>2, <2>4, <3>1 DEF Gate
  <2>. QED  BY <2>3, <2>4
<1>4. PICK to \in {"idle", "failed", "succeeded"} : apc' = [apc EXCEPT ![c] = to]
  BY <1>3
<1>5. \/ table' = table
      \/ \E i \in Places : table[i].ip = p /\ table' = [table EXCEPT ![i] = Fresh(p, t)]
  BY <1>0, <1>3, FoundIs
<1>6. PICK e : e = Fresh(p, t)
  OBVIOUS
<1>7. e \in Entry /\ e.ip = p /\ e.fails = 0 /\ p # NoIp
  BY <1>6, Addresses, FreshIs
<1>8. Placed' /\ table' \in [Places -> Entry]
  <2>1. CASE table' = table
    <3>1. \A ip : Run(ip)' = Run(ip)
      BY <1>3 DEF Run
    <3>. QED  BY <1>0, <2>1, <3>1 DEF Placed, AuthTypes
  <2>2. ASSUME NEW i \in Places, table[i].ip = p, table' = [table EXCEPT ![i] = Fresh(p, t)]
        PROVE  Placed' /\ table' \in [Places -> Entry]
    <3>1. /\ \E k \in 0..AuthProbe - 1 : i = Run(p)[k]
          /\ \A j \in Places : j # i => table[j].ip # p
      BY <1>0, <1>7, <2>2 DEF Placed
    <3>2. table' = [table EXCEPT ![i] = e] /\ authHome' = authHome
      BY <1>3, <1>6, <2>2
    <3>3. /\ \E k \in 0..AuthProbe - 1 : i = Run(e.ip)[k]
          /\ \A j \in Places : j # i => table[j].ip # e.ip
      BY <1>7, <3>1
    <3>. QED  BY <1>0, <1>7, <3>2, <3>3, PlacedKeeps
  <2>. QED  BY <1>5, <2>1, <2>2
<1>9. AuthTypes'
  BY <1>0, <1>3, <1>4, <1>8 DEF AuthTypes
<1>10. \A ip \in Peers : \A j \in SlotOf(table', ip) :
          table'[j].fails = 0 \/ (j \in SlotOf(table, ip) /\ table'[j] = table[j])
  <2>1. CASE table' = table
    BY <2>1
  <2>2. ASSUME NEW i \in Places, table' = [table EXCEPT ![i] = Fresh(p, t)],
               NEW ip \in Peers, NEW j \in SlotOf(table', ip)
        PROVE  table'[j].fails = 0 \/ (j \in SlotOf(table, ip) /\ table'[j] = table[j])
    <3>1. table' = [table EXCEPT ![i] = e]
      BY <1>6, <2>2
    <3>0. table \in [Places -> Entry]
      BY <1>0 DEF AuthTypes
    <3>2. j = i => table'[j] = e
      BY <2>2, <3>0, <3>1
    <3>3. j # i => table'[j] = table[j] /\ j \in SlotOf(table, ip)
      BY <2>2, <3>0, <3>1 DEF SlotOf
    <3>. QED  BY <1>7, <3>2, <3>3
  <2>. QED  BY <1>5, <2>1, <2>2
<1>11. CountInv'
  <2>1. SUFFICES ASSUME NEW ip \in Peers, NEW j \in SlotOf(table', ip)
                 PROVE  Recent(failedAt[ip], table'[j].fails, table'[j].start)
    BY <1>3 DEF CountInv
  <2>2. CASE table'[j].fails = 0
    <3>1. failedAt[ip] \in Seq(Nat)
      BY <1>0 DEF AuthTypes
    <3>2. Len(failedAt[ip]) \in Nat
      BY <3>1
    <3>. QED  BY <2>2, <3>2 DEF Recent
  <2>3. CASE j \in SlotOf(table, ip) /\ table'[j] = table[j]
    BY <1>0, <2>3 DEF CountInv
  <2>. QED  BY <1>10, <2>1, <2>2, <2>3
<1>12. RoomInv'
  <2>1. SUFFICES ASSUME NEW ip \in Peers, NEW j \in SlotOf(table', ip)
                 PROVE  table'[j].fails + Cardinality(Failing(ip)') <= AuthMax - 1 + Cardinality(Of(ip))
    BY DEF RoomInv, Of
  <2>2. j \in Places /\ table'[j].fails \in Nat
    BY <1>8 DEF SlotOf, Entry
  <2>3. Failing(ip)' \subseteq Of(ip) /\ (to # "failed" \/ ip # p => Failing(ip)' \subseteq Failing(ip))
    BY <1>0, <1>1, <1>4 DEF Failing, Of, AuthTypes
  <2>4. Cardinality(Failing(ip)') \in Nat /\ Cardinality(Failing(ip)') <= Cardinality(Of(ip))
    BY <2>3, FailingIsFinite, FS_Subset, FS_CardinalityType
  <2>5. CASE to = "failed" /\ ip = p
    <3>1. ~Locked(table', p)
      BY <1>3, <1>4, <2>5
    <3>2. ~(table'[j].fails >= AuthMax)
      BY <2>1, <2>5, <3>1 DEF Locked
    <3>. QED  BY <2>2, <2>4, <3>2, FailingIsFinite, Limits
  <2>6. CASE to # "failed" \/ ip # p
    <3>1. Cardinality(Failing(ip)') <= Cardinality(Failing(ip))
      BY <2>3, <2>6, FailingIsFinite, FS_Subset
    <3>2. CASE table'[j].fails = 0
      BY <2>4, <3>2, FailingIsFinite, Limits
    <3>3. CASE j \in SlotOf(table, ip) /\ table'[j] = table[j]
      <4>1. table[j].fails + Cardinality(Failing(ip)) <= AuthMax - 1 + Cardinality(Of(ip))
        BY <1>0, <3>3 DEF RoomInv
      <4>. QED  BY <2>2, <2>4, <3>1, <3>3, <4>1, FailingIsFinite, Limits
    <3>. QED  BY <1>10, <2>1, <3>2, <3>3
  <2>. QED  BY <2>5, <2>6
<1>. QED  BY <1>8, <1>9, <1>11, <1>12 DEF AuthInv

LEMMA FailedKeeps ==
    ASSUME AuthInv, NEW c \in Clients, AuthFailed(c) PROVE AuthInv'
<1>0. AuthTypes /\ Placed /\ CountInv /\ RoomInv
  BY DEF AuthInv
<1>1. PICK p \in Peers : p = PeerOf[c] /\ p # NoIp
  BY Addresses
<1>2. /\ UNCHANGED <<authHome, now, mono>> /\ apc[c] = "failed" /\ apc' = [apc EXCEPT ![c] = "idle"]
      /\ failedAt' = [failedAt EXCEPT ![p] =
                        LET s == Append(failedAt[p], now) IN IF Len(s) > AuthMax THEN Tail(s) ELSE s]
      /\ table' = [i \in DOMAIN table |->
                     IF i \in SlotOf(ClaimedSlot(p), p)
                     THEN [ClaimedSlot(p)[i] EXCEPT !.fails = ClaimedSlot(p)[i].fails + 1]
                     ELSE ClaimedSlot(p)[i]]
  BY <1>1 DEF AuthFailed
<1>3. PICK i \in Places, e \in Entry :
         /\ ClaimedSlot(p) = [table EXCEPT ![i] = e]
         /\ e.ip = p /\ e.start <= now
         /\ \E k \in 0..AuthProbe - 1 : i = Run(p)[k]
         /\ \A j \in Places : j # i => table[j].ip # p
         /\ e = Fresh(p, now) \/ (e = table[i] /\ table[i].ip = p)
  BY <1>0, ClaimedIs
<1>4. table \in [Places -> Entry] /\ now \in Nat
  BY <1>0 DEF AuthTypes
<1>5. PICK f \in Nat, b \in Nat : e = [ip |-> p, fails |-> f, start |-> b] /\ b <= now
  BY <1>3 DEF Entry
<1>6. PICK d \in Entry : d = [ip |-> p, fails |-> f + 1, start |-> b]
  <2>1. p \in Addrs /\ f + 1 \in Nat
    BY DEF Addrs
  <2>. QED  BY <2>1 DEF Entry
<1>7. table' = [table EXCEPT ![i] = d]
  <2>1. PICK q : q = ClaimedSlot(p) /\ q = [table EXCEPT ![i] = e]
    BY <1>3
  <2>2. SlotOf(q, p) = {i}
    BY <1>3, <1>4, <2>1 DEF SlotOf
  <2>3. table' = [j \in Places |-> IF j = i THEN [q[j] EXCEPT !.fails = q[j].fails + 1] ELSE q[j]]
    BY <1>2, <1>4, <2>1, <2>2
  <2>4. [q[i] EXCEPT !.fails = q[i].fails + 1] = d
    <3>1. q[i] = e
      BY <1>4, <2>1
    <3>2. [e EXCEPT !.fails = e.fails + 1] = d
      BY <1>5, <1>6
    <3>. QED  BY <3>1, <3>2
  <2>5. table' = [j \in Places |-> IF j = i THEN d ELSE q[j]]
    BY <2>3, <2>4
  <2>. QED  BY <1>4, <2>1, <2>5
<1>8. Placed' /\ table' \in [Places -> Entry]
  <2>1. d.ip = p
    BY <1>6
  <2>2. /\ \E k \in 0..AuthProbe - 1 : i = Run(d.ip)[k]
        /\ \A j \in Places : j # i => table[j].ip # d.ip
    BY <1>3, <2>1
  <2>3. authHome' = authHome
    BY <1>2
  <2>. QED  BY <1>0, <1>7, <2>2, <2>3, PlacedKeeps
<1>9. PICK s \in Seq(Nat) : s = failedAt[p] /\ Len(s) <= AuthMax
  BY <1>0 DEF AuthTypes
<1>10. PICK r : r = LET u == Append(s, now) IN IF Len(u) > AuthMax THEN Tail(u) ELSE u
  OBVIOUS
<1>11. failedAt' = [failedAt EXCEPT ![p] = r]
  BY <1>2, <1>9, <1>10
<1>12. Recent(s, f, b)
  <2>1. CASE e = Fresh(p, now)
    <3>1. f = 0
      BY <1>5, <2>1 DEF Fresh
    <3>2. Len(s) \in Nat
      BY <1>9
    <3>. QED  BY <3>1, <3>2 DEF Recent
  <2>2. CASE e = table[i] /\ table[i].ip = p
    <3>1. i \in SlotOf(table, p)
      BY <1>4, <2>2 DEF SlotOf
    <3>2. table[i].fails = f /\ table[i].start = b
      BY <1>5, <2>2
    <3>3. Recent(failedAt[p], table[i].fails, table[i].start)
      BY <1>0, <3>1 DEF CountInv
    <3>. QED  BY <1>9, <3>2, <3>3
  <2>. QED  BY <1>3, <2>1, <2>2
<1>13. r \in Seq(Nat) /\ Len(r) <= AuthMax /\ Recent(r, f + 1, b)
  BY <1>4, <1>5, <1>9, <1>10, <1>12, RecentKeeps
<1>14. AuthTypes'
  <2>1. failedAt' \in [Peers -> Seq(Nat)] /\ \A ip \in Peers : Len(failedAt'[ip]) <= AuthMax
    BY <1>0, <1>11, <1>13 DEF AuthTypes
  <2>. QED  BY <1>0, <1>2, <1>8, <2>1 DEF AuthTypes
<1>15. CountInv'
  <2>1. SUFFICES ASSUME NEW ip \in Peers, NEW j \in SlotOf(table', ip)
                 PROVE  Recent(failedAt'[ip], table'[j].fails, table'[j].start)
    BY DEF CountInv
  <2>2. CASE j = i
    <3>1. table'[j] = d /\ ip = p
      BY <1>4, <1>6, <1>7, <2>1, <2>2 DEF SlotOf
    <3>2. failedAt'[ip] = r /\ table'[j].fails = f + 1 /\ table'[j].start = b
      BY <1>0, <1>6, <1>11, <3>1 DEF AuthTypes
    <3>. QED  BY <1>13, <3>2
  <2>3. CASE j # i
    <3>1. j \in Places /\ table'[j] = table[j] /\ j \in SlotOf(table, ip)
      BY <1>4, <1>7, <2>1, <2>3 DEF SlotOf
    <3>2. ip # p
      BY <1>3, <2>3, <3>1 DEF SlotOf
    <3>3. failedAt'[ip] = failedAt[ip]
      BY <1>0, <1>11, <3>2 DEF AuthTypes
    <3>. QED  BY <1>0, <3>1, <3>3 DEF CountInv
  <2>. QED  BY <2>2, <2>3
<1>16. RoomInv'
  <2>1. SUFFICES ASSUME NEW ip \in Peers, NEW j \in SlotOf(table', ip)
                 PROVE  table'[j].fails + Cardinality(Failing(ip)') <= AuthMax - 1 + Cardinality(Of(ip))
    BY DEF RoomInv, Of
  <2>2. \A q \in Peers : Failing(q)' = Failing(q) \ {c}
    BY <1>0, <1>2 DEF Failing, Of, AuthTypes
  <2>3. CASE j = i
    <3>1. table'[j] = d /\ ip = p
      BY <1>4, <1>6, <1>7, <2>1, <2>3 DEF SlotOf
    <3>2. c \in Failing(p)
      BY <1>1, <1>2 DEF Failing, Of
    <3>3. Cardinality(Failing(p)') = Cardinality(Failing(p)) - 1
      BY <2>2, <3>2, FailingIsFinite, FS_RemoveElement
    <3>4. f + Cardinality(Failing(p)) <= AuthMax - 1 + Cardinality(Of(p))
      <4>1. CASE e = Fresh(p, now)
        <5>1. f = 0
          BY <1>5, <4>1 DEF Fresh
        <5>. QED  BY <5>1, FailingIsFinite, Limits
      <4>2. CASE e = table[i] /\ table[i].ip = p
        <5>1. i \in SlotOf(table, p)
          BY <1>4, <4>2 DEF SlotOf
        <5>2. table[i].fails = f
          BY <1>5, <4>2
        <5>. QED  BY <1>0, <5>1, <5>2 DEF RoomInv
      <4>. QED  BY <1>3, <4>1, <4>2
    <3>5. table'[j].fails = f + 1
      BY <1>6, <3>1
    <3>. QED  BY <3>1, <3>3, <3>4, <3>5, FailingIsFinite, Limits
  <2>4. CASE j # i
    <3>1. j \in Places /\ table'[j] = table[j] /\ j \in SlotOf(table, ip)
      BY <1>4, <1>7, <2>1, <2>4 DEF SlotOf
    <3>2. Failing(ip)' \subseteq Failing(ip)
      BY <2>2
    <3>3. Cardinality(Failing(ip)') \in Nat /\ Cardinality(Failing(ip)') <= Cardinality(Failing(ip))
      BY <3>2, FailingIsFinite, FS_Subset, FS_CardinalityType
    <3>4. table[j].fails + Cardinality(Failing(ip)) <= AuthMax - 1 + Cardinality(Of(ip))
      BY <1>0, <3>1 DEF RoomInv
    <3>5. table[j].fails \in Nat
      BY <1>4, <3>1 DEF Entry
    <3>. QED  BY <3>1, <3>3, <3>4, <3>5, FailingIsFinite, Limits
  <2>. QED  BY <2>3, <2>4
<1>. QED  BY <1>8, <1>14, <1>15, <1>16 DEF AuthInv

LEMMA SucceededKeeps ==
    ASSUME AuthInv, NEW c \in Clients, AuthSucceeded(c) PROVE AuthInv'
<1>0. AuthTypes /\ Placed /\ CountInv /\ RoomInv
  BY DEF AuthInv
<1>1. PICK p \in Peers : p = PeerOf[c] /\ p # NoIp
  BY Addresses
<1>2. /\ UNCHANGED <<authHome, now, mono>> /\ apc[c] = "succeeded"
      /\ apc' = [apc EXCEPT ![c] = "idle"]
      /\ failedAt' = [failedAt EXCEPT ![p] = <<>>]
      /\ table' = [i \in DOMAIN table |->
                     IF i \in Holding(p) THEN [Found(p, now)[i] EXCEPT !.ip = NoIp] ELSE table[i]]
  BY <1>1 DEF AuthSucceeded
<1>3. table \in [Places -> Entry] /\ now \in Nat
  BY <1>0 DEF AuthTypes
<1>4. /\ Placed' /\ table' \in [Places -> Entry]
      /\ \A j \in Places : table'[j].ip # NoIp => table'[j] = table[j] /\ table[j].ip # p
  <2>1. CASE \A i \in Places : table[i].ip # p
    <3>1. Holding(p) = {}
      BY <1>0, <2>1, HoldingIs
    <3>2. table' = table
      BY <1>2, <1>3, <3>1
    <3>3. \A ip : Run(ip)' = Run(ip)
      BY <1>2 DEF Run
    <3>. QED  BY <1>0, <1>3, <2>1, <3>2, <3>3 DEF Placed
  <2>2. ASSUME NEW i \in Places, table[i].ip = p
        PROVE  /\ Placed' /\ table' \in [Places -> Entry]
               /\ \A j \in Places : table'[j].ip # NoIp => table'[j] = table[j] /\ table[j].ip # p
    <3>1. Holding(p) = {i}
      BY <1>0, <2>2, HoldingIs
    <3>2. PICK g \in Entry : g = Found(p, now)[i]
      <4>1. Fresh(p, now) \in Entry
        BY <1>3, FreshIs
      <4>. QED  BY <1>3, <4>1 DEF Found
    <3>3. PICK d \in Entry : d = [g EXCEPT !.ip = NoIp] /\ d.ip = NoIp
      <4>1. PICK o \in Addrs, f \in Nat, b \in Nat :
               g = [ip |-> o, fails |-> f, start |-> b]
        BY DEF Entry
      <4>2. [g EXCEPT !.ip = NoIp] = [ip |-> NoIp, fails |-> f, start |-> b]
        BY <4>1
      <4>3. NoIp \in Addrs
        BY DEF Addrs
      <4>4. [ip |-> NoIp, fails |-> f, start |-> b] \in Entry
        BY <4>3 DEF Entry
      <4>. QED  BY <4>2, <4>4
    <3>4. table' = [table EXCEPT ![i] = d]
      BY <1>2, <1>3, <3>1, <3>2, <3>3
    <3>5. Placed' /\ table' \in [Places -> Entry]
      BY <1>0, <1>2, <3>3, <3>4, PlacedKeeps
    <3>6. \A j \in Places : j # i => table[j].ip # p
      BY <1>0, <1>1, <2>2 DEF Placed
    <3>. QED  BY <1>3, <3>3, <3>4, <3>5, <3>6
  <2>. QED  BY <2>1, <2>2
<1>5. ASSUME NEW ip \in Peers, NEW j \in SlotOf(table', ip)
      PROVE  j \in SlotOf(table, ip) /\ table'[j] = table[j] /\ ip # p /\ j \in Places
  <2>1. j \in Places /\ table'[j].ip = ip /\ ip # NoIp
    BY <1>4, Addresses DEF SlotOf
  <2>. QED  BY <1>3, <1>4, <2>1 DEF SlotOf
<1>6. AuthTypes'
  <2>1. <<>> \in Seq(Nat) /\ Len(<<>>) <= AuthMax
    BY Limits
  <2>2. failedAt' \in [Peers -> Seq(Nat)] /\ \A ip \in Peers : Len(failedAt'[ip]) <= AuthMax
    BY <1>0, <1>2, <2>1 DEF AuthTypes
  <2>. QED  BY <1>0, <1>2, <1>4, <2>2 DEF AuthTypes
<1>7. CountInv'
  <2>1. \A ip \in Peers : ip # p => failedAt'[ip] = failedAt[ip]
    BY <1>0, <1>2 DEF AuthTypes
  <2>. QED  BY <1>0, <1>5, <2>1 DEF CountInv
<1>8. RoomInv'
  <2>1. \A ip \in Peers : Failing(ip)' = Failing(ip) /\ Of(ip)' = Of(ip)
    BY <1>0, <1>2 DEF Failing, Of, AuthTypes
  <2>. QED  BY <1>0, <1>5, <2>1 DEF RoomInv
<1>. QED  BY <1>4, <1>6, <1>7, <1>8 DEF AuthInv

LEMMA AuthInvStep == AuthInv /\ [NextAuth]_authVars => AuthInv'
<1>. SUFFICES ASSUME AuthInv, [NextAuth]_authVars PROVE AuthInv'
  OBVIOUS
<1>0. AuthTypes
  BY DEF AuthInv
<1>1. ASSUME NEW c \in Clients, ReadClock(c) PROVE AuthInv'
  BY <1>0, <1>1, ClockKeeps DEF ReadClock, AuthTypes
<1>2. ASSUME NEW c \in Clients, Gate(c) PROVE AuthInv'
  BY <1>2, GateKeeps
<1>3. ASSUME NEW c \in Clients, AuthFailed(c) PROVE AuthInv'
  BY <1>3, FailedKeeps
<1>4. ASSUME NEW c \in Clients, AuthSucceeded(c) PROVE AuthInv'
  BY <1>4, SucceededKeeps
<1>5. CASE Wait
  BY <1>0, <1>5, ClockKeeps DEF Wait, AuthTypes
<1>6. CASE UNCHANGED authVars
  BY <1>0, <1>6, ClockKeeps DEF authVars, AuthTypes
<1>. QED  BY <1>1, <1>2, <1>3, <1>4, <1>5, <1>6 DEF NextAuth

\* An address is locked out only by its own failures, as many as the budget
\* allows and none older than the lockout, and overdraws the budget by at most
\* one for each other connection it has, for any number of addresses and
\* connections, any table, hash and probe depth, and any settings (stratum.c,
\* auth_gate, auth_failed, auth_succeeded, auth_fail_find).
THEOREM LockoutIsEarned == AuthSpec => []BudgetIsExact
<1>1. AuthInv => BudgetIsExact
  <2>. SUFFICES ASSUME AuthInv, NEW ip \in Peers, NEW i \in SlotOf(table, ip)
                PROVE  /\ table[i].fails >= AuthMax /\ ~Past(table[i], now) =>
                            Len(failedAt[ip]) = AuthMax /\ now - failedAt[ip][1] < Lockout
                       /\ table[i].fails <= AuthMax - 1 + Cardinality(Of(ip))
    BY DEF BudgetIsExact, Of
  <2>0. AuthTypes /\ CountInv /\ RoomInv
    BY DEF AuthInv
  <2>1. PICK s \in Seq(Nat) : s = failedAt[ip] /\ Len(s) <= AuthMax
    BY <2>0 DEF AuthTypes
  <2>2. i \in Places /\ table[i].fails \in Nat /\ table[i].start \in Nat /\ now \in Nat
    BY <2>0 DEF AuthTypes, SlotOf, Entry
  <2>3. Recent(s, table[i].fails, table[i].start)
    BY <2>0, <2>1 DEF CountInv
  <2>4. ASSUME table[i].fails >= AuthMax, ~Past(table[i], now)
        PROVE  Len(s) = AuthMax /\ now - s[1] < Lockout
    <3>1. Len(s) = AuthMax
      BY <2>1, <2>2, <2>3, <2>4, Limits DEF Recent
    <3>2. 1 \in 1..Len(s) /\ 1 > Len(s) - table[i].fails /\ s[1] \in Nat
      BY <2>1, <2>2, <2>4, <3>1, Limits
    <3>3. s[1] >= table[i].start
      BY <2>3, <3>2 DEF Recent
    <3>4. now - table[i].start < Lockout
      BY <2>2, <2>4, Limits DEF Past
    <3>. QED  BY <2>2, <3>1, <3>2, <3>3, <3>4, Limits
  <2>5. table[i].fails + Cardinality(Failing(ip)) <= AuthMax - 1 + Cardinality(Of(ip))
    BY <2>0 DEF RoomInv
  <2>. QED  BY <2>1, <2>2, <2>4, <2>5, FailingIsFinite, Limits
<1>. QED  BY <1>1, AuthInvInit, AuthInvStep, PTL DEF AuthSpec

-----------------------------------------------------------------------------
(* The duplicate check. *)

IndexSlots == 0..Slots - 1

Words == StoredKeys \cup {0}

\* x is on the way around the table from slot a to slot b.
OnWay(a, x, b) == IF a <= b THEN a <= x /\ x <= b ELSE a <= x \/ x <= b

\* The slot after j.
After(j) == IF j = Slots - 1 THEN 0 ELSE j + 1

\* No key stands twice.
Single(t) == \A i, j \in IndexSlots : t[i] # 0 /\ t[i] = t[j] => i = j

\* No key stands behind a hole.
Reached(t) == \A i \in IndexSlots : t[i] # 0 =>
                 \A x \in IndexSlots : OnWay(home[t[i]], x, i) => t[x] # 0

\* A table that can be searched, with room for a search to stop.
Sound(t) ==
    /\ t \in [IndexSlots -> Words]
    /\ Single(t) /\ Reached(t)
    /\ \E e \in IndexSlots : t[e] = 0

Holds(t) == {t[i] : i \in IndexSlots} \ {0}

HomeType == home \in [StoredKeys -> IndexSlots]

\* The ring holds its last keys, each once, from the start up to the head
\* until it is full.
RingInv ==
    /\ ring \in [0..RingCap - 1 -> Words]
    /\ ringHead \in 0..RingCap - 1 /\ live \in 0..RingCap
    /\ live < RingCap => ringHead = live
    /\ \A i \in 0..RingCap - 1 : ring[i] # 0 <=> i < live
    /\ \A i, j \in 0..RingCap - 1 : ring[i] # 0 /\ ring[i] = ring[j] => i = j

DedupeInv == HomeType /\ RingInv /\ Sound(index) /\ Holds(index) = RingKeys

-----------------------------------------------------------------------------
LEMMA SlotFacts ==
    /\ Slots \in Nat /\ RingCap \in Nat /\ RingCap > 0 /\ Slots > RingCap
    /\ 0 \notin StoredKeys
    /\ \A k \in Keys : Stored(k) \in StoredKeys
BY DedupeAssumption DEF StoredKeys, Stored

LEMMA LeastSlot ==
    ASSUME NEW N \in SUBSET Nat, N # {}
    PROVE  \E n \in N : \A m \in N : n <= m
<1>1. PICK n \in N : \A m \in N : ~(<<m, n>> \in OpToRel(<, Nat))
  BY NatLessThanWellFounded, WFMin
<1>2. ASSUME NEW m \in N PROVE n <= m
  <2>1. m < n => <<m, n>> \in OpToRel(<, Nat)
    BY DEF OpToRel
  <2>2. ~(m < n)
    BY ONLY <2>1, <1>1, m \in N
  <2>. QED  BY <2>2
<1>. QED  BY <1>2

\* Once around at most, the remainder is one subtraction.
LEMMA WrapAround ==
    ASSUME NEW x \in Nat, x < 2 * Slots, NEW y, y = x % Slots
    PROVE  y = IF x < Slots THEN x ELSE x - Slots
<1>1. Slots \in Nat /\ Slots > 0
  BY SlotFacts
<1>2. CASE x < Slots
  BY <1>1, <1>2
<1>3. CASE x >= Slots
  <2>1. (x - Slots) % Slots = x - Slots
    BY <1>1, <1>3
  <2>2. x % Slots = (x - Slots) % Slots
    BY <1>1, <1>3
  <2>. QED  BY <2>1, <2>2, <1>1, <1>3
<1>. QED  BY <1>1, <1>2, <1>3

\* The probes go around the table from the home, a slot at a time.
LEMMA ProbedIs ==
    ASSUME HomeType, NEW h \in StoredKeys, NEW n \in IndexSlots
    PROVE  /\ home[h] \in IndexSlots
           /\ Probed(h, n) = IF home[h] + n < Slots THEN home[h] + n ELSE home[h] + n - Slots
           /\ Probed(h, n) \in IndexSlots
<1>1. home[h] \in IndexSlots /\ Slots \in Nat
  BY SlotFacts DEF HomeType
<1>2. PICK x : x = home[h] + n
  OBVIOUS
<1>3. x \in Nat /\ x < 2 * Slots
  BY <1>1, <1>2 DEF IndexSlots
<1>4. PICK y : y = x % Slots
  OBVIOUS
<1>5. y = IF x < Slots THEN x ELSE x - Slots
  BY <1>3, <1>4, WrapAround
<1>6. Probed(h, n) = y
  BY <1>2, <1>4, Zenon DEF Probed
<1>7. Probed(h, n) = IF home[h] + n < Slots THEN home[h] + n ELSE home[h] + n - Slots
  BY <1>1, <1>2, <1>3, <1>5, <1>6 DEF IndexSlots
<1>. QED  BY <1>1, <1>7 DEF IndexSlots

\* What lies on the way to the n-th probe are the probes before it.
LEMMA ProbedBefore ==
    ASSUME HomeType, NEW h \in StoredKeys, NEW n \in IndexSlots, NEW x \in IndexSlots
    PROVE  OnWay(home[h], x, Probed(h, n)) <=> \E m \in 0..n : Probed(h, m) = x
<1>1. Slots \in Nat /\ home[h] \in IndexSlots
  BY SlotFacts, ProbedIs
<1>2. ASSUME OnWay(home[h], x, Probed(h, n)) PROVE \E m \in 0..n : Probed(h, m) = x
  <2>1. PICK m : m = IF x >= home[h] THEN x - home[h] ELSE x - home[h] + Slots
    OBVIOUS
  <2>2. m \in 0..n
    BY <1>1, <1>2, <2>1, ProbedIs DEF OnWay, IndexSlots
  <2>3. m \in IndexSlots
    BY <2>2, <1>1 DEF IndexSlots
  <2>4. Probed(h, m) = x
    BY <2>1, <2>3, <1>1, ProbedIs DEF IndexSlots
  <2>. QED  BY <2>2, <2>4
<1>3. ASSUME NEW m \in 0..n, Probed(h, m) = x PROVE OnWay(home[h], x, Probed(h, n))
  <2>1. m \in IndexSlots
    BY <1>1 DEF IndexSlots
  <2>2. Probed(h, m) = IF home[h] + m < Slots THEN home[h] + m ELSE home[h] + m - Slots
    BY <2>1, ProbedIs
  <2>3. Probed(h, n) = IF home[h] + n < Slots THEN home[h] + n ELSE home[h] + n - Slots
    BY ProbedIs
  <2>. QED  BY <1>1, <1>3, <2>1, <2>2, <2>3 DEF OnWay, IndexSlots
<1>. QED  BY <1>2, <1>3

\* Every slot is probed in the end.
LEMMA EverySlotIsProbed ==
    ASSUME HomeType, NEW h \in StoredKeys, NEW x \in IndexSlots
    PROVE  \E n \in IndexSlots : Probed(h, n) = x
<1>1. Slots \in Nat /\ home[h] \in IndexSlots
  BY SlotFacts, ProbedIs, x \in IndexSlots DEF HomeType
<1>2. PICK m : m = IF x >= home[h] THEN x - home[h] ELSE x - home[h] + Slots
  OBVIOUS
<1>3. m \in IndexSlots
  BY <1>1, <1>2 DEF IndexSlots
<1>4. Probed(h, m) = x
  BY <1>1, <1>2, <1>3, ProbedIs DEF IndexSlots
<1>. QED  BY <1>3, <1>4

\* A search in a table with a hole stops, at the key or at the first hole.
LEMMA SearchStops ==
    ASSUME HomeType, NEW h \in StoredKeys, NEW t, \E e \in IndexSlots : t[e] = 0
    PROVE  /\ Probes(t, h) \in IndexSlots
           /\ t[Probed(h, Probes(t, h))] \in {0, h}
           /\ \A m \in 0..Probes(t, h) - 1 : t[Probed(h, m)] \notin {0, h}
<1>. DEFINE Stops == {n \in IndexSlots : t[Probed(h, n)] \in {0, h}}
<1>0. Slots \in Nat
  BY SlotFacts
<1>1. Stops # {}
  <2>1. PICK e \in IndexSlots : t[e] = 0
    OBVIOUS
  <2>2. PICK n \in IndexSlots : Probed(h, n) = e
    BY EverySlotIsProbed
  <2>. QED  BY <2>1, <2>2
<1>2. Stops \in SUBSET Nat
  BY <1>0 DEF IndexSlots
<1>3. PICK n \in Stops : \A m \in Stops : n <= m
  BY <1>1, <1>2, LeastSlot
<1>4. n \in 0..Slots - 1 /\ t[Probed(h, n)] \in {0, h}
  BY <1>3 DEF IndexSlots
<1>5. ASSUME NEW m \in 0..n - 1 PROVE t[Probed(h, m)] \notin {0, h}
  <2>1. m \in IndexSlots /\ ~(n <= m)
    BY <1>4, <1>0 DEF IndexSlots
  <2>. QED  BY <2>1, <1>3
<1>6. \E k \in 0..Slots - 1 : /\ t[Probed(h, k)] \in {0, h}
                              /\ \A m \in 0..k - 1 : t[Probed(h, m)] \notin {0, h}
  BY <1>4, <1>5
<1>. QED  BY <1>6 DEF Probes, IndexSlots

\* A sound table finds exactly what it holds.
LEMMA FindIsHolds ==
    ASSUME HomeType, NEW h \in StoredKeys, NEW t, Sound(t)
    PROVE  IndexFind(t, h) <=> h \in Holds(t)
<1>. DEFINE n == Probes(t, h)
<1>1. /\ n \in IndexSlots /\ t[Probed(h, n)] \in {0, h}
      /\ \A m \in 0..n - 1 : t[Probed(h, m)] \notin {0, h}
  BY SearchStops DEF Sound
<1>2. h # 0 /\ Slots \in Nat
  BY SlotFacts
<1>3. Probed(h, n) \in IndexSlots
  BY <1>1, ProbedIs
<1>4. IndexFind(t, h) => h \in Holds(t)
  BY <1>2, <1>3 DEF IndexFind, Holds
<1>5. ASSUME h \in Holds(t), t[Probed(h, n)] # h PROVE FALSE
  <2>1. PICK i \in IndexSlots : t[i] = h
    BY <1>5 DEF Holds
  <2>2. PICK d \in IndexSlots : Probed(h, d) = i
    BY EverySlotIsProbed
  <2>3. t[Probed(h, n)] = 0
    BY <1>1, <1>5
  <2>4. d # n /\ ~(d < n)
    BY <1>1, <1>5, <2>1, <2>2, <1>2 DEF IndexSlots
  <2>5. n \in 0..d
    BY <2>4, <1>1, <1>2 DEF IndexSlots
  <2>6. OnWay(home[h], Probed(h, n), i)
    BY <2>2, <2>5, <1>3, ProbedBefore
  <2>7. t[Probed(h, n)] # 0
    BY <2>1, <2>6, <1>2, <1>3 DEF Sound, Reached
  <2>. QED  BY <2>3, <2>7
<1>. QED  BY <1>4, <1>5 DEF IndexFind

\* Recording a key that is not there.
LEMMA InsertHolds ==
    ASSUME HomeType, NEW h \in StoredKeys, NEW t, Sound(t), h \notin Holds(t)
    PROVE  /\ IndexInsert(t, h) \in [IndexSlots -> Words]
           /\ Single(IndexInsert(t, h)) /\ Reached(IndexInsert(t, h))
           /\ Holds(IndexInsert(t, h)) = Holds(t) \cup {h}
<1>. DEFINE n == Probes(t, h)
<1>1. /\ n \in IndexSlots /\ t[Probed(h, n)] \in {0, h}
      /\ \A m \in 0..n - 1 : t[Probed(h, m)] \notin {0, h}
  BY SearchStops DEF Sound
<1>2. h # 0 /\ Slots \in Nat /\ h \in Words
  BY SlotFacts DEF Words
<1>3. PICK p \in IndexSlots : p = Probed(h, n)
  BY <1>1, ProbedIs
<1>4. t \in [IndexSlots -> Words]
  BY DEF Sound
<1>5. t[p] = 0
  BY <1>1, <1>2, <1>3, <1>4 DEF Holds
<1>6. PICK u : u = IndexInsert(t, h)
  OBVIOUS
<1>7. u = [t EXCEPT ![p] = h]
  BY <1>3, <1>6 DEF IndexInsert
<1>8. u \in [IndexSlots -> Words] /\ u[p] = h /\ \A i \in IndexSlots : i # p => u[i] = t[i]
  BY <1>2, <1>4, <1>7
<1>9. \A i \in IndexSlots : t[i] # h
  BY <1>2 DEF Holds
<1>10. Single(u)
  BY <1>8, <1>9 DEF Single, Sound
<1>11. \A x \in IndexSlots : t[x] # 0 => u[x] # 0
  BY <1>2, <1>8
<1>12. Reached(u)
  <2>1. SUFFICES ASSUME NEW i \in IndexSlots, u[i] # 0, NEW x \in IndexSlots, OnWay(home[u[i]], x, i)
                 PROVE  u[x] # 0
    BY DEF Reached
  <2>2. CASE i # p
    <3>1. t[i] # 0 /\ OnWay(home[t[i]], x, i)
      BY <1>8, <2>1, <2>2
    <3>2. t[x] # 0
      BY <3>1 DEF Sound, Reached
    <3>. QED  BY <3>2, <1>11
  <2>3. CASE i = p
    <3>1. OnWay(home[h], x, Probed(h, n))
      BY <1>3, <1>8, <2>1, <2>3
    <3>2. PICK m \in 0..n : Probed(h, m) = x
      BY <1>1, <3>1, ProbedBefore
    <3>3. CASE m = n
      BY <3>2, <3>3, <1>2, <1>3, <1>8
    <3>4. CASE m # n
      <4>1. m \in 0..n - 1
        BY <3>2, <3>4, <1>1, <1>2 DEF IndexSlots
      <4>. QED  BY <4>1, <3>2, <1>1, <1>11
    <3>. QED  BY <3>3, <3>4
  <2>. QED  BY <2>2, <2>3
<1>13. Holds(u) = Holds(t) \cup {h}
  <2>1. ASSUME NEW k \in Holds(u) PROVE k \in Holds(t) \cup {h}
    BY <1>8 DEF Holds
  <2>2. ASSUME NEW k \in Holds(t) PROVE k \in Holds(u)
    <3>1. PICK i \in IndexSlots : t[i] = k /\ k # 0
      BY DEF Holds
    <3>2. i # p
      BY <3>1, <1>5
    <3>. QED  BY <3>1, <3>2, <1>8 DEF Holds
  <2>3. h \in Holds(u)
    BY <1>2, <1>8 DEF Holds
  <2>. QED  BY <2>1, <2>2, <2>3
<1>. QED  BY <1>6, <1>8, <1>10, <1>12, <1>13

-----------------------------------------------------------------------------
(* Taking a key out.  While the cluster behind it is walked, one slot is the *)
(* hole: it still has its word, so that nothing is cut off yet.              *)

\* T is t with some words moved back and the word at q to be cleared.
Moved(t, h, T, q) ==
    /\ T \in [IndexSlots -> Words] /\ q \in IndexSlots /\ T[q] # 0
    /\ \A i \in IndexSlots : T[i] = 0 <=> t[i] = 0
    /\ \A i, j \in IndexSlots \ {q} : T[i] # 0 /\ T[i] = T[j] => i = j
    /\ \A k : (k # 0 /\ \E i \in IndexSlots \ {q} : T[i] = k) <=> (k \in Holds(t) /\ k # h)
    /\ Reached(T)

\* Clearing q strands nobody at slot i.
Safe(T, q, i) == i # q /\ T[i] # 0 => ~OnWay(home[T[i]], q, i)

\* The cluster was walked from at to j, and goes on.
Walking(T, q, at, j) ==
    /\ OnWay(at, q, j)
    /\ \A x \in IndexSlots : OnWay(at, x, j) => T[x] # 0 /\ Safe(T, q, x)

WalkInv(t, h, at, w, j) ==
    \E T, q, d :
        /\ w = [table |-> T, hole |-> q, done |-> d]
        /\ Moved(t, h, T, q)
        /\ d \in BOOLEAN
        /\ d => \A i \in IndexSlots : Safe(T, q, i)
        /\ ~d => Walking(T, q, at, j)

LEMMA AfterIsNext ==
    ASSUME NEW a \in IndexSlots, NEW j \in IndexSlots, After(j) # a, NEW x \in IndexSlots
    PROVE  /\ After(j) \in IndexSlots /\ ~OnWay(a, After(j), j)
           /\ OnWay(a, x, After(j)) <=> OnWay(a, x, j) \/ x = After(j)
BY SlotFacts DEF After, OnWay, IndexSlots

\* The end of the cluster: what is behind it does not come past the hole.
LEMMA WalkEndsSafe ==
    ASSUME HomeType, NEW T \in [IndexSlots -> Words], Reached(T), NEW at \in IndexSlots,
           NEW q \in IndexSlots, NEW j \in IndexSlots, After(j) # at, Walking(T, q, at, j),
           T[After(j)] = 0, NEW i \in IndexSlots
    PROVE  Safe(T, q, i)
<1>1. SUFFICES ASSUME i # q, T[i] # 0, OnWay(home[T[i]], q, i) PROVE FALSE
  BY DEF Safe
<1>2. ~OnWay(at, i, j)
  BY <1>1 DEF Walking, Safe
<1>3. After(j) \in IndexSlots /\ i # After(j)
  BY <1>1, AfterIsNext
<1>4. home[T[i]] \in IndexSlots
  BY <1>1 DEF HomeType, Words
<1>5. PICK m \in IndexSlots : m = home[T[i]]
  BY <1>4
<1>6. OnWay(m, After(j), i)
  BY <1>1, <1>2, <1>3, <1>5, SlotFacts DEF Walking, OnWay, After, IndexSlots
<1>. QED  BY <1>1, <1>3, <1>5, <1>6 DEF Reached

\* A word whose home lies behind the hole stays.
LEMMA WalkPasses ==
    ASSUME HomeType, NEW T \in [IndexSlots -> Words], NEW at \in IndexSlots,
           NEW q \in IndexSlots, NEW j \in IndexSlots, After(j) # at, Walking(T, q, at, j),
           T[After(j)] # 0, HomeBetween(q, home[T[After(j)]], After(j))
    PROVE  Walking(T, q, at, After(j))
<1>1. After(j) \in IndexSlots /\ ~OnWay(at, After(j), j)
  BY AfterIsNext
<1>2. PICK m \in IndexSlots : m = home[T[After(j)]]
  BY <1>1 DEF HomeType, Words
<1>3. ~OnWay(m, q, After(j))
  BY <1>1, <1>2, SlotFacts DEF HomeBetween, OnWay, Walking, IndexSlots
<1>4. Safe(T, q, After(j))
  BY <1>2, <1>3 DEF Safe
<1>. QED  BY <1>1, <1>4, AfterIsNext DEF Walking

\* Any other moves into the hole, and leaves the hole where it was.
LEMMA WalkMoves ==
    ASSUME HomeType, NEW t, NEW h, NEW T, NEW at \in IndexSlots, NEW e \in IndexSlots, t[e] = 0,
           NEW q, NEW j \in IndexSlots, After(j) # at, Moved(t, h, T, q), Walking(T, q, at, j),
           T[After(j)] # 0, ~HomeBetween(q, home[T[After(j)]], After(j)),
           NEW U, U = [T EXCEPT ![q] = T[After(j)]]
    PROVE  Moved(t, h, U, After(j)) /\ Walking(U, After(j), at, After(j))
<1>1. After(j) \in IndexSlots /\ ~OnWay(at, After(j), j) /\ q \in IndexSlots /\ T \in [IndexSlots -> Words]
  BY AfterIsNext DEF Moved
<1>2. PICK p \in IndexSlots : p = After(j)
  BY <1>1
<1>3. PICK k : k = T[p]
  OBVIOUS
<1>4. k \in StoredKeys /\ k # 0 /\ q # p
  BY <1>1, <1>2, <1>3 DEF Walking, Words
<1>5. PICK m \in IndexSlots : m = home[k]
  BY <1>4 DEF HomeType
<1>6. OnWay(m, q, p)
  BY <1>1, <1>2, <1>3, <1>4, <1>5, SlotFacts DEF HomeBetween, OnWay, IndexSlots
<1>7. U \in [IndexSlots -> Words] /\ U[q] = k /\ \A i \in IndexSlots : i # q => U[i] = T[i]
  BY <1>1, <1>2, <1>3, <1>4 DEF Words
<1>8. \A i \in IndexSlots : U[i] = 0 <=> T[i] = 0
  BY <1>4, <1>7 DEF Moved
<1>9. Reached(U)
  <2>1. SUFFICES ASSUME NEW i \in IndexSlots, U[i] # 0, NEW x \in IndexSlots, OnWay(home[U[i]], x, i)
                 PROVE  T[x] # 0
    BY <1>8 DEF Reached
  <2>2. CASE i # q
    BY <1>7, <2>1, <2>2 DEF Reached, Moved
  <2>3. CASE i = q
    <3>1. OnWay(m, x, q)
      BY <1>5, <1>7, <2>1, <2>3
    <3>2. OnWay(m, x, p)
      BY <1>1, <1>4, <1>6, <3>1, SlotFacts DEF OnWay, IndexSlots
    <3>. QED  BY <3>2, <1>3, <1>4, <1>5 DEF Reached, Moved
  <2>. QED  BY <2>2, <2>3
<1>10. ASSUME NEW i \in IndexSlots \ {p}, NEW l \in IndexSlots \ {p}, U[i] # 0, U[i] = U[l] PROVE i = l
  <2>1. ASSUME NEW a \in IndexSlots \ {p}, a # q PROVE U[a] # k
    BY <1>1, <1>3, <1>4, <1>7, <2>1 DEF Moved
  <2>2. CASE i = q \/ l = q
    BY <1>7, <1>10, <2>1, <2>2
  <2>3. CASE i # q /\ l # q
    BY <1>7, <1>10, <2>3 DEF Moved
  <2>. QED  BY <2>2, <2>3
<1>11. ASSUME NEW z, z # 0
       PROVE  (\E i \in IndexSlots \ {p} : U[i] = z) <=> (\E i \in IndexSlots \ {q} : T[i] = z)
  <2>1. ASSUME NEW i \in IndexSlots \ {p}, U[i] = z PROVE \E l \in IndexSlots \ {q} : T[l] = z
    BY <1>3, <1>4, <1>7, <2>1
  <2>2. ASSUME NEW i \in IndexSlots \ {q}, T[i] = z PROVE \E l \in IndexSlots \ {p} : U[l] = z
    <3>1. CASE i = p
      BY <1>1, <1>3, <1>4, <1>7, <2>2, <3>1
    <3>2. CASE i # p
      BY <1>7, <2>2, <3>2
    <3>. QED  BY <3>1, <3>2
  <2>. QED  BY <2>1, <2>2
<1>12. Moved(t, h, U, p)
  BY <1>3, <1>4, <1>7, <1>8, <1>9, <1>10, <1>11 DEF Moved
<1>13. ASSUME NEW i \in IndexSlots, OnWay(at, i, p) PROVE U[i] # 0 /\ Safe(U, p, i)
  <2>1. OnWay(at, i, j) \/ i = p
    BY <1>2, <1>13, AfterIsNext
  <2>2. T[i] # 0
    BY <2>1, <1>3, <1>4 DEF Walking
  <2>3. CASE i = q
    <3>1. ~OnWay(m, p, q)
      BY <1>1, <1>4, <1>6, SlotFacts DEF OnWay, IndexSlots
    <3>. QED  BY <2>2, <2>3, <3>1, <1>5, <1>7, <1>8 DEF Safe
  <2>4. CASE i # q /\ i # p
    <3>1. SUFFICES ASSUME OnWay(home[T[i]], p, i) PROVE FALSE
      BY <1>7, <1>8, <2>2, <2>4 DEF Safe
    <3>2. PICK a \in IndexSlots : a = home[T[i]]
      BY <1>1, <2>2 DEF HomeType, Words
    <3>3. T[e] = 0 /\ ~OnWay(at, e, j) /\ e # p
      BY <1>3, <1>4 DEF Moved, Walking
    <3>4. OnWay(a, e, i)
      BY <1>1, <1>2, <2>1, <2>4, <3>1, <3>2, <3>3, SlotFacts DEF OnWay, IndexSlots, After
    <3>. QED  BY <3>2, <3>3, <3>4, <2>2 DEF Moved, Reached
  <2>5. CASE i = p
    BY <2>2, <2>5, <1>8 DEF Safe
  <2>. QED  BY <2>3, <2>4, <2>5
<1>14. OnWay(at, p, p)
  BY SlotFacts DEF OnWay, IndexSlots
<1>. QED  BY <1>2, <1>12, <1>13, <1>14 DEF Walking

\* One slot further.
LEMMA WalkStep ==
    ASSUME HomeType, NEW t, NEW h, NEW at \in IndexSlots, NEW e \in IndexSlots, t[e] = 0,
           NEW w, NEW j \in IndexSlots, After(j) # at, WalkInv(t, h, at, w, j)
    PROVE  WalkInv(t, h, at, ShiftBack(w, After(j)), After(j))
<1>1. PICK T, q, d :
        /\ w = [table |-> T, hole |-> q, done |-> d]
        /\ Moved(t, h, T, q)
        /\ d \in BOOLEAN
        /\ d => \A i \in IndexSlots : Safe(T, q, i)
        /\ ~d => Walking(T, q, at, j)
  BY DEF WalkInv
<1>2. T \in [IndexSlots -> Words] /\ q \in IndexSlots /\ Reached(T)
  BY <1>1 DEF Moved
<1>3. CASE d
  <2>1. ShiftBack(w, After(j)) = [table |-> T, hole |-> q, done |-> TRUE]
    BY <1>1, <1>3 DEF ShiftBack
  <2>. QED  BY <2>1, <1>1, <1>3 DEF WalkInv
<1>4. CASE ~d /\ T[After(j)] = 0
  <2>1. ShiftBack(w, After(j)) = [table |-> T, hole |-> q, done |-> TRUE]
    BY <1>1, <1>4 DEF ShiftBack
  <2>2. \A i \in IndexSlots : Safe(T, q, i)
    BY <1>1, <1>2, <1>4, WalkEndsSafe
  <2>. QED  BY <2>1, <2>2, <1>1 DEF WalkInv
<1>5. CASE ~d /\ T[After(j)] # 0 /\ HomeBetween(q, home[T[After(j)]], After(j))
  <2>1. ShiftBack(w, After(j)) = [table |-> T, hole |-> q, done |-> FALSE]
    BY <1>1, <1>5 DEF ShiftBack
  <2>2. Walking(T, q, at, After(j))
    BY <1>1, <1>2, <1>5, WalkPasses
  <2>. QED  BY <2>1, <2>2, <1>1 DEF WalkInv
<1>6. CASE ~d /\ T[After(j)] # 0 /\ ~HomeBetween(q, home[T[After(j)]], After(j))
  <2>1. PICK U : U = [T EXCEPT ![q] = T[After(j)]]
    OBVIOUS
  <2>2. ShiftBack(w, After(j)) = [table |-> U, hole |-> After(j), done |-> FALSE]
    BY <1>1, <1>6, <2>1 DEF ShiftBack
  <2>3. Moved(t, h, U, After(j)) /\ Walking(U, After(j), at, After(j))
    BY <1>1, <1>6, <2>1, WalkMoves
  <2>. QED  BY <2>2, <2>3 DEF WalkInv
<1>. QED  BY <1>1, <1>3, <1>4, <1>5, <1>6

\* f is the walk from w, the hole at `at`, over N slots.
Shifts(f, w, at, N) ==
    f = [n \in 0..N |-> IF n = 0 THEN w ELSE ShiftBack(f[n - 1], (at + n) % Slots)]

\* The walk is defined: take the least length for which it is not.
LEMMA WalkExists ==
    ASSUME NEW w, NEW at, NEW N \in Nat
    PROVE  \E f : Shifts(f, w, at, N)
<1>. DEFINE Bad == {m \in Nat : ~\E f : Shifts(f, w, at, m)}
<1>1. SUFFICES ASSUME Bad # {} PROVE FALSE
  OBVIOUS
<1>2. PICK m \in Bad : \A k \in Bad : m <= k
  BY <1>1, LeastSlot
<1>3. m \in Nat /\ ~\E f : Shifts(f, w, at, m)
  BY <1>2
<1>4. CASE m = 0
  <2>. DEFINE f == [n \in 0..m |-> w]
  <2>1. Shifts(f, w, at, m)
    BY <1>4 DEF Shifts
  <2>. QED  BY <2>1, <1>3
<1>5. CASE m # 0
  <2>1. m - 1 \in Nat /\ m - 1 \notin Bad
    BY <1>2, <1>3, <1>5
  <2>2. PICK g : Shifts(g, w, at, m - 1)
    BY <2>1
  <2>. DEFINE f == [n \in 0..m |-> IF n = 0 THEN w ELSE ShiftBack(g[n - 1], (at + n) % Slots)]
  <2>3. ASSUME NEW n \in 0..m, n # 0 PROVE f[n - 1] = g[n - 1]
    <3>1. n - 1 \in 0..m - 1 /\ n - 1 \in 0..m
      BY <1>3, <2>3
    <3>2. PICK l \in 0..m - 1 : l = n - 1 /\ l \in 0..m
      BY <3>1
    <3>3. g[l] = IF l = 0 THEN w ELSE ShiftBack(g[l - 1], (at + l) % Slots)
      BY <2>2, <3>2 DEF Shifts
    <3>4. f[l] = IF l = 0 THEN w ELSE ShiftBack(g[l - 1], (at + l) % Slots)
      BY <3>2
    <3>. QED  BY <3>2, <3>3, <3>4
  <2>4. Shifts(f, w, at, m)
    BY <2>3 DEF Shifts
  <2>. QED  BY <2>4, <1>3
<1>. QED  BY <1>4, <1>5

LEMMA RemoveIs ==
    ASSUME NEW t, NEW h, NEW at, at = Probed(h, Probes(t, h)),
           NEW w, w = [table |-> t, hole |-> at, done |-> FALSE],
           NEW f, f = CHOOSE g : Shifts(g, w, at, Slots - 1)
    PROVE  IndexRemove(t, h) = [f[Slots - 1].table EXCEPT ![f[Slots - 1].hole] = 0]
BY DEF IndexRemove, Shifts

\* Forgetting a key that is there.
LEMMA RemoveHolds ==
    ASSUME HomeType, NEW h \in StoredKeys, NEW t, Sound(t), h \in Holds(t)
    PROVE  Sound(IndexRemove(t, h)) /\ Holds(IndexRemove(t, h)) = Holds(t) \ {h}
<1>0. Slots \in Nat /\ Slots > 0 /\ h # 0
  BY SlotFacts
<1>1. PICK at : at = Probed(h, Probes(t, h))
  OBVIOUS
<1>2. at \in IndexSlots /\ t[at] = h
  <2>1. Probes(t, h) \in IndexSlots
    BY SearchStops DEF Sound
  <2>. QED  BY <1>1, <2>1, ProbedIs, FindIsHolds DEF IndexFind
<1>3. PICK e \in IndexSlots : t[e] = 0
  BY DEF Sound
<1>4. PICK w : w = [table |-> t, hole |-> at, done |-> FALSE]
  OBVIOUS
<1>5. PICK f : Shifts(f, w, at, Slots - 1) /\ f = CHOOSE g : Shifts(g, w, at, Slots - 1)
  <2>1. Slots - 1 \in Nat
    BY <1>0
  <2>2. \E g : Shifts(g, w, at, Slots - 1)
    BY <2>1, WalkExists
  <2>. QED  BY <2>2
<1>6. IndexRemove(t, h) = [f[Slots - 1].table EXCEPT ![f[Slots - 1].hole] = 0]
  BY <1>1, <1>4, <1>5, RemoveIs
<1>. DEFINE Slot(n) == IF at + n < Slots THEN at + n ELSE at + n - Slots
<1>7. ASSUME NEW n \in IndexSlots PROVE WalkInv(t, h, at, f[n], Slot(n))
  <2>. DEFINE Bad == {m \in IndexSlots : ~WalkInv(t, h, at, f[m], Slot(m))}
  <2>1. SUFFICES ASSUME Bad # {} PROVE FALSE
    OBVIOUS
  <2>2. PICK m \in Bad : \A k \in Bad : m <= k
    <3>1. Bad \in SUBSET Nat
      BY <1>0 DEF IndexSlots
    <3>. QED  BY <2>1, <3>1, LeastSlot
  <2>3. CASE m = 0
    <3>1. f[0] = w /\ Slot(0) = at
      BY <1>0, <1>2, <1>5 DEF IndexSlots, Shifts
    <3>2. Moved(t, h, t, at)
      <4>1. \A k : (k # 0 /\ \E i \in IndexSlots \ {at} : t[i] = k) <=> (k \in Holds(t) /\ k # h)
        BY <1>0, <1>2 DEF Holds, Sound, Single
      <4>. QED  BY <4>1, <1>0, <1>2 DEF Moved, Sound, Single
    <3>3. Walking(t, at, at, at)
      <4>1. \A x \in IndexSlots : OnWay(at, x, at) => x = at
        BY <1>0, <1>2 DEF OnWay, IndexSlots
      <4>2. OnWay(at, at, at)
        BY <1>0, <1>2 DEF OnWay, IndexSlots
      <4>. QED  BY <4>1, <4>2, <1>0, <1>2 DEF Walking, Safe
    <3>. QED  BY <2>2, <2>3, <3>1, <3>2, <3>3, <1>4 DEF WalkInv
  <2>4. CASE m # 0
    <3>1. m \in IndexSlots /\ m - 1 \in IndexSlots /\ m - 1 \notin Bad
      BY <1>0, <2>2, <2>4 DEF IndexSlots
    <3>2. WalkInv(t, h, at, f[m - 1], Slot(m - 1))
      BY <3>1
    <3>3. Slot(m - 1) \in IndexSlots /\ After(Slot(m - 1)) = Slot(m) /\ Slot(m) # at
      BY <1>0, <1>2, <2>4, <3>1 DEF After, IndexSlots
    <3>4. PICK x : x = at + m
      OBVIOUS
    <3>5. x \in Nat /\ x < 2 * Slots
      BY <1>0, <1>2, <3>1, <3>4 DEF IndexSlots
    <3>9. PICK y : y = x % Slots
      OBVIOUS
    <3>6. y = Slot(m)
      <4>1. y = IF x < Slots THEN x ELSE x - Slots
        BY <3>5, <3>9, WrapAround
      <4>. QED  BY <1>0, <1>2, <3>1, <3>4, <4>1 DEF IndexSlots
    <3>7. f[m] = ShiftBack(f[m - 1], y)
      <4>1. \A z \in 0..Slots - 1 : f[z] = IF z = 0 THEN w ELSE ShiftBack(f[z - 1], (at + z) % Slots)
        BY <1>5 DEF Shifts
      <4>. QED  BY <2>4, <3>1, <3>4, <3>9, <4>1, Zenon DEF IndexSlots
    <3>8. WalkInv(t, h, at, ShiftBack(f[m - 1], After(Slot(m - 1))), After(Slot(m - 1)))
      BY <1>2, <1>3, <3>2, <3>3, WalkStep
    <3>. QED  BY <2>2, <3>3, <3>6, <3>7, <3>8
  <2>. QED  BY <2>3, <2>4
<1>8. WalkInv(t, h, at, f[Slots - 1], Slot(Slots - 1))
  BY <1>0, <1>7 DEF IndexSlots
<1>9. PICK T, q, d :
        /\ f[Slots - 1] = [table |-> T, hole |-> q, done |-> d]
        /\ Moved(t, h, T, q)
        /\ d => \A i \in IndexSlots : Safe(T, q, i)
        /\ ~d => Walking(T, q, at, Slot(Slots - 1))
  BY <1>8 DEF WalkInv
<1>10. T[e] = 0
  BY <1>3, <1>9 DEF Moved
<1>11. OnWay(at, e, Slot(Slots - 1))
  BY <1>0, <1>2, <1>3 DEF OnWay, IndexSlots
<1>12. \A i \in IndexSlots : Safe(T, q, i)
  BY <1>3, <1>9, <1>10, <1>11 DEF Walking
<1>13. PICK u : u = [T EXCEPT ![q] = 0]
  OBVIOUS
<1>14. IndexRemove(t, h) = u
  BY <1>6, <1>9, <1>13
<1>15. q \in IndexSlots /\ u \in [IndexSlots -> Words] /\ u[q] = 0 /\ \A i \in IndexSlots : i # q => u[i] = T[i]
  BY <1>9, <1>13 DEF Moved, Words
<1>16. Single(u)
  BY <1>9, <1>15 DEF Moved, Single
<1>17. Reached(u)
  <2>1. SUFFICES ASSUME NEW i \in IndexSlots, u[i] # 0, NEW x \in IndexSlots, OnWay(home[u[i]], x, i)
                 PROVE  u[x] # 0
    BY DEF Reached
  <2>2. i # q /\ u[i] = T[i] /\ T[i] # 0
    BY <1>15, <2>1
  <2>3. x # q
    BY <1>12, <2>1, <2>2 DEF Safe
  <2>4. T[x] # 0
    BY <1>9, <2>1, <2>2 DEF Moved, Reached
  <2>. QED  BY <1>15, <2>3, <2>4
<1>18. ASSUME NEW k PROVE k \in Holds(u) <=> k \in Holds(t) /\ k # h
  <2>1. k \in Holds(u) <=> (k # 0 /\ \E i \in IndexSlots \ {q} : T[i] = k)
    BY <1>15 DEF Holds
  <2>. QED  BY <2>1, <1>9 DEF Moved
<1>. QED  BY <1>14, <1>15, <1>16, <1>17, <1>18 DEF Sound

-----------------------------------------------------------------------------
(* The ring and the table say the same. *)

\* A table that holds no more than the ring has a hole: its slots are more.
LEMMA RoomIsLeft ==
    ASSUME NEW t \in [IndexSlots -> Words], Single(t), NEW r \in [0..RingCap - 1 -> Words],
           Holds(t) \subseteq {r[i] : i \in 0..RingCap - 1}
    PROVE  \E e \in IndexSlots : t[e] = 0
<1>0. Slots \in Nat /\ RingCap \in Nat /\ RingCap > 0 /\ Slots > RingCap
  BY SlotFacts
<1>1. SUFFICES ASSUME \A e \in IndexSlots : t[e] # 0 PROVE FALSE
  OBVIOUS
<1>. DEFINE g == [p \in IndexSlots |-> CHOOSE i \in 0..RingCap - 1 : r[i] = t[p]]
<1>2. ASSUME NEW p \in IndexSlots PROVE g[p] \in 0..RingCap - 1 /\ r[g[p]] = t[p]
  <2>1. t[p] \in Holds(t)
    BY <1>1 DEF Holds
  <2>2. \E i \in 0..RingCap - 1 : r[i] = t[p]
    BY <2>1
  <2>. QED  BY <2>2
<1>3. \A p, o \in IndexSlots : g[p] = g[o] => p = o
  BY <1>1, <1>2 DEF Single
<1>4. IsFiniteSet(IndexSlots) /\ Cardinality(IndexSlots) = Slots
  BY <1>0, FS_Interval DEF IndexSlots
<1>5. IsFiniteSet(0..RingCap - 1) /\ Cardinality(0..RingCap - 1) = RingCap
  BY <1>0, FS_Interval
<1>6. g \in [IndexSlots -> 0..RingCap - 1]
  BY <1>2
<1>7. \E p, o \in IndexSlots : p # o /\ g[p] = g[o]
  <2>1. Cardinality(0..RingCap - 1) < Cardinality(IndexSlots)
    BY <1>0, <1>4, <1>5
  <2>. HIDE DEF g
  <2>. QED  BY <1>4, <1>5, <1>6, <2>1, FS_PigeonHole, Zenon
<1>. QED  BY <1>3, <1>7

LEMMA DedupeInit == InitDedupe => DedupeInv
<1>. SUFFICES ASSUME InitDedupe PROVE DedupeInv
  OBVIOUS
<1>0. Slots \in Nat /\ RingCap \in Nat /\ RingCap > 0 /\ Slots > RingCap /\ 0 \in IndexSlots
  BY SlotFacts DEF IndexSlots
<1>1. HomeType
  BY DEF InitDedupe, HomeType, IndexSlots
<1>2. RingInv
  BY <1>0 DEF InitDedupe, RingInv, Words
<1>3. index \in [IndexSlots -> Words] /\ \A i \in IndexSlots : index[i] = 0
  BY DEF InitDedupe, IndexSlots, Words
<1>4. Sound(index)
  BY <1>0, <1>3 DEF Sound, Single, Reached
<1>5. Holds(index) = {} /\ RingKeys = {}
  BY <1>0, <1>3 DEF Holds, RingKeys, InitDedupe
<1>. QED  BY <1>1, <1>2, <1>4, <1>5 DEF DedupeInv

LEMMA HeadMoves ==
    ASSUME RingInv
    PROVE  (ringHead + 1) % RingCap = IF ringHead = RingCap - 1 THEN 0 ELSE ringHead + 1
<1>1. RingCap \in Nat /\ RingCap > 0 /\ ringHead \in 0..RingCap - 1
  BY SlotFacts DEF RingInv
<1>2. CASE ringHead = RingCap - 1
  <2>1. ringHead + 1 = RingCap
    BY <1>1, <1>2
  <2>2. RingCap % RingCap = 0
    BY <1>1
  <2>. QED  BY <1>2, <2>1, <2>2
<1>3. CASE ringHead # RingCap - 1
  <2>1. PICK x : x = ringHead + 1
    OBVIOUS
  <2>2. x \in 0..RingCap - 1
    BY <1>1, <1>3, <2>1
  <2>3. x % RingCap = x
    BY <1>1, <2>2
  <2>. QED  BY <1>3, <2>1, <2>3, Zenon
<1>. QED  BY <1>2, <1>3

LEMMA DedupeStays ==
    ASSUME DedupeInv, UNCHANGED <<home, ring, ringHead, live, index>>
    PROVE  DedupeInv'
<1>1. HomeType'
  BY DEF DedupeInv, HomeType
<1>2. RingInv'
  BY DEF DedupeInv, RingInv
<1>3. Single(index)' /\ Reached(index)'
  BY DEF DedupeInv, Sound, Single, Reached
<1>4. Sound(index)'
  BY <1>3 DEF DedupeInv, Sound
<1>5. Holds(index)' = RingKeys'
  BY DEF DedupeInv, Holds, RingKeys
<1>. QED  BY <1>1, <1>2, <1>4, <1>5 DEF DedupeInv

LEMMA DedupeStep == DedupeInv /\ [NextDedupe]_dedupeVars => DedupeInv'
<1>. SUFFICES ASSUME DedupeInv, [NextDedupe]_dedupeVars PROVE DedupeInv'
  OBVIOUS
<1>0. Slots \in Nat /\ RingCap \in Nat /\ RingCap > 0 /\ Slots > RingCap /\ 0 \notin StoredKeys
  BY SlotFacts
<1>1. CASE UNCHANGED dedupeVars
  <2>1. UNCHANGED <<home, ring, ringHead, live, index>>
    BY <1>1 DEF dedupeVars
  <2>. QED  BY <2>1, DedupeStays
<1>2. ASSUME NEW key \in Keys, CheckAndAdd(key) PROVE DedupeInv'
  <2>1. PICK h \in StoredKeys : h = Stored(key)
    BY SlotFacts
  <2>2. home' = home /\ HomeType /\ RingInv /\ Sound(index) /\ Holds(index) = RingKeys
    BY <1>2 DEF CheckAndAdd, DedupeInv
  <2>3. CASE IndexFind(index, h)
    <3>1. UNCHANGED <<home, ring, ringHead, live, index>>
      BY <1>2, <2>1, <2>3 DEF CheckAndAdd
    <3>. QED  BY <3>1, DedupeStays
  <2>4. CASE ~IndexFind(index, h)
    <3>1. PICK t : t = IF live = RingCap THEN IndexRemove(index, ring[ringHead]) ELSE index
      OBVIOUS
    <3>2. /\ ring' = [ring EXCEPT ![ringHead] = h]
          /\ ringHead' = IF ringHead = RingCap - 1 THEN 0 ELSE ringHead + 1
          /\ live' = IF live = RingCap THEN live ELSE live + 1
          /\ index' = IndexInsert(t, h)
      BY <1>2, <2>1, <2>2, <2>4, <3>1, HeadMoves DEF CheckAndAdd
    <3>3. h \notin RingKeys
      BY <2>2, <2>4, FindIsHolds
    <3>4. RingInv'
      <4>1. \A i \in 0..RingCap - 1 : ring[i] # h
        BY <1>0, <3>3 DEF RingKeys
      <4>. QED  BY <1>0, <2>2, <3>2, <4>1 DEF RingInv, Words
    <3>5. Sound(t) /\ Holds(t) = RingKeys \ {ring[ringHead]}
      <4>1. CASE live = RingCap
        <5>1. ring[ringHead] \in StoredKeys /\ ring[ringHead] \in RingKeys
          BY <1>0, <2>2, <4>1 DEF RingInv, RingKeys, Words
        <5>. QED  BY <2>2, <3>1, <4>1, <5>1, RemoveHolds
      <4>2. CASE live # RingCap
        <5>1. ring[ringHead] = 0
          BY <1>0, <2>2, <4>2 DEF RingInv
        <5>. QED  BY <2>2, <3>1, <4>2, <5>1 DEF RingKeys
      <4>. QED  BY <4>1, <4>2
    <3>6. /\ index' \in [IndexSlots -> Words] /\ Single(index') /\ Reached(index')
          /\ Holds(index') = Holds(t) \cup {h}
      BY <2>2, <3>2, <3>3, <3>5, InsertHolds
    <3>7. RingKeys' = (RingKeys \ {ring[ringHead]}) \cup {h}
      <4>1. ring \in [0..RingCap - 1 -> Words] /\ ringHead \in 0..RingCap - 1
        BY <2>2 DEF RingInv
      <4>2. ring'[ringHead] = h /\ \A i \in 0..RingCap - 1 : i # ringHead => ring'[i] = ring[i]
        BY <3>2, <4>1
      <4>3. \A i \in 0..RingCap - 1 : i # ringHead /\ ring[i] # 0 => ring[i] # ring[ringHead]
        BY <2>2, <4>1 DEF RingInv
      <4>4. h # 0
        BY <1>0, <2>1
      <4>5. ASSUME NEW k PROVE k \in RingKeys' <=> k \in (RingKeys \ {ring[ringHead]}) \cup {h}
        BY <4>1, <4>2, <4>3, <4>4 DEF RingKeys
      <4>. QED  BY <4>5
    <3>8. Holds(index') = RingKeys'
      BY <3>5, <3>6, <3>7
    <3>9. \E e \in IndexSlots : index'[e] = 0
      BY <3>4, <3>6, <3>8, RoomIsLeft DEF RingInv, RingKeys
    <3>10. Sound(index)' /\ HomeType'
      BY <2>2, <3>6, <3>9 DEF Sound, Single, Reached, HomeType
    <3>11. Holds(index)' = RingKeys'
      BY <3>8 DEF Holds
    <3>. QED  BY <3>4, <3>10, <3>11 DEF DedupeInv
  <2>. QED  BY <2>3, <2>4
<1>. QED  BY <1>1, <1>2 DEF NextDedupe

LEMMA AnswerStep ==
    ASSUME DedupeInv, DuplicatesAreKnown, [NextDedupe]_dedupeVars PROVE DuplicatesAreKnown'
<1>1. CASE UNCHANGED dedupeVars
  BY <1>1 DEF dedupeVars, DuplicatesAreKnown
<1>2. ASSUME NEW key \in Keys, CheckAndAdd(key) PROVE DuplicatesAreKnown'
  <2>1. PICK h \in StoredKeys : h = Stored(key)
    BY SlotFacts
  <2>2. IndexFind(index, h) = (h \in RingKeys)
    <3>1. IndexFind(index, h) <=> h \in RingKeys
      BY FindIsHolds DEF DedupeInv
    <3>2. IndexFind(index, h) \in BOOLEAN
      BY DEF IndexFind
    <3>. QED  BY <3>1, <3>2
  <2>3. answers' = [said |-> IndexFind(index, h), true |-> h \in RingKeys]
    BY <1>2, <2>1 DEF CheckAndAdd
  <2>. QED  BY <2>2, <2>3, Zenon DEF DuplicatesAreKnown
<1>. QED  BY <1>1, <1>2 DEF NextDedupe

\* The duplicate check of stratum.c knows exactly the last SHARE_DEDUPE_RING
\* keys, for any keys, any hash function and any ring smaller than the table:
\* backward-shift deletion never strands a key, and never invents one.
THEOREM DuplicatesFound == DedupeSpec => []DuplicatesAreKnown
<1>1. InitDedupe => DedupeInv /\ DuplicatesAreKnown
  BY DedupeInit DEF InitDedupe, DuplicatesAreKnown
<1>2. DedupeInv /\ DuplicatesAreKnown /\ [NextDedupe]_dedupeVars
        => DedupeInv' /\ DuplicatesAreKnown'
  BY DedupeStep, AnswerStep
<1>. QED  BY <1>1, <1>2, PTL DEF DedupeSpec

-----------------------------------------------------------------------------
(* The rate. *)

MeasureInv ==
    /\ spc \in [PpsThreads -> {"idle", "load", "store", "credit"}]
    /\ DOMAIN loaded = PpsThreads
    /\ loaded = [c \in PpsThreads |-> loaded[c]]
    /\ ~overlap =>
          /\ accum = folded
          /\ \A c, d \in Folding : c = d
          /\ \A c \in Folding : loaded[c] = accum

USE DEF ppsVars

\* Where one thread moves to another place than "store", it leaves the folds.
LEMMA FoldingAfter ==
    ASSUME MeasureInv, NEW c \in PpsThreads, NEW to \in {"idle", "load", "credit"},
           spc' = [spc EXCEPT ![c] = to]
    PROVE  /\ spc' \in [PpsThreads -> {"idle", "load", "store", "credit"}]
           /\ Folding' \subseteq Folding
           /\ c \notin Folding'
BY DEF MeasureInv, Folding

LEMMA MeasureInvInit == InitPps => MeasureInv
BY DEF InitPps, MeasureInv, Folding

\* Steps that touch neither the sum nor a fold.
LEMMA ElsewhereKeeps ==
    ASSUME MeasureInv, UNCHANGED <<loaded, accum, folded, overlap>>,
           spc' \in [PpsThreads -> {"idle", "load", "store", "credit"}],
           Folding' \subseteq Folding
    PROVE  MeasureInv'
BY DEF MeasureInv

\* The window is closed under no fold, or the overlap is on record.
LEMMA MeasureKeepsIt ==
    ASSUME MeasureInv, NEW t \in PpsTemplates, NEW over \in BOOLEAN, Measure(t, over)
    PROVE  MeasureInv'
<1>1. Folding' = Folding /\ spc' = spc /\ loaded' = loaded
  BY DEF Measure, Folding
<1>2. CASE over
  BY <1>1, <1>2 DEF Measure, MeasureInv
<1>3. CASE ~over
  BY <1>1, <1>3 DEF Measure, MeasureInv
<1>. QED  BY <1>2, <1>3

\* A load beside another fold is an overlap; alone, it holds the sum.
LEMMA FoldLoadKeeps ==
    ASSUME MeasureInv, NEW c \in PpsThreads, FoldLoad(c)
    PROVE  MeasureInv'
<1>1. spc' \in [PpsThreads -> {"idle", "load", "store", "credit"}]
      /\ Folding' = Folding \cup {c}
  BY DEF FoldLoad, MeasureInv, Folding
<1>2. DOMAIN loaded' = PpsThreads /\ loaded' = [d \in PpsThreads |-> loaded'[d]]
      /\ loaded'[c] = accum
  BY DEF FoldLoad, MeasureInv
<1>3. accum' = accum /\ folded' = folded
  BY DEF FoldLoad
<1>4. ASSUME ~overlap' PROVE ~overlap /\ Folding = {}
  BY <1>4 DEF FoldLoad
<1>. QED  BY <1>1, <1>2, <1>3, <1>4 DEF MeasureInv

\* A store adds the share to what was loaded, which is the sum.
LEMMA FoldStoreKeeps ==
    ASSUME MeasureInv, NEW c \in PpsThreads, FoldStore(c)
    PROVE  MeasureInv'
<1>1. spc' \in [PpsThreads -> {"idle", "load", "store", "credit"}]
      /\ Folding' \subseteq Folding /\ c \notin Folding'
  BY FoldingAfter DEF FoldStore
<1>2. c \in Folding
  BY DEF FoldStore, Folding
<1>3. DOMAIN loaded' = PpsThreads /\ loaded' = [d \in PpsThreads |-> loaded'[d]]
  BY DEF FoldStore, MeasureInv
<1>4. overlap' = overlap /\ accum' = loaded[c] \cup {<<c, nth[c]>>}
      /\ folded' = folded \cup {<<c, nth[c]>>}
  BY DEF FoldStore
<1>5. ASSUME ~overlap PROVE accum' = folded' /\ Folding' = {}
  BY <1>1, <1>2, <1>4, <1>5 DEF MeasureInv
<1>. QED  BY <1>1, <1>3, <1>4, <1>5 DEF MeasureInv

LEMMA MeasureInvStep == MeasureInv /\ [NextPps]_ppsVars => MeasureInv'
<1> SUFFICES ASSUME MeasureInv, [NextPps]_ppsVars PROVE MeasureInv'
  OBVIOUS
<1>1. ASSUME NEW t \in PpsTemplates, NEW over \in BOOLEAN, Measure(t, over)
      PROVE  MeasureInv'
  BY <1>1, MeasureKeepsIt
<1>2. CASE ExchangeGate
  BY <1>2, ElsewhereKeeps DEF ExchangeGate, Folding, MeasureInv
<1>3. CASE StoreRate
  BY <1>3, ElsewhereKeeps DEF StoreRate, Folding, MeasureInv
<1>4. ASSUME NEW c \in PpsThreads, SubmitPps(c) PROVE MeasureInv'
  <2>1. CASE TurnsAway
    BY <1>4, <2>1, ElsewhereKeeps DEF SubmitPps, Folding, MeasureInv
  <2>2. CASE ~TurnsAway
    BY <1>4, <2>2, ElsewhereKeeps, FoldingAfter DEF SubmitPps
  <2>. QED  BY <2>1, <2>2
<1>5. ASSUME NEW c \in PpsThreads, FoldLoad(c) PROVE MeasureInv'
  BY <1>5, FoldLoadKeeps
<1>6. ASSUME NEW c \in PpsThreads, FoldStore(c) PROVE MeasureInv'
  BY <1>6, FoldStoreKeeps
<1>7. ASSUME NEW c \in PpsThreads, Credit(c) PROVE MeasureInv'
  BY <1>7, ElsewhereKeeps, FoldingAfter DEF Credit
<1>8. CASE UNCHANGED ppsVars
  BY <1>8, ElsewhereKeeps DEF Folding, MeasureInv
<1>. QED
  BY <1>1, <1>2, <1>3, <1>4, <1>5, <1>6, <1>7, <1>8 DEF NextPps

\* The throughput counts each of the window's shares once, whatever the
\* threads and settings, as long as no folds overlap (main.c, on_share_cb and
\* observed_diff_per_sec).
THEOREM MeasureExact == PpsSpec => []MeasureIsExact
<1>1. MeasureInv => MeasureIsExact
  BY DEF MeasureInv, MeasureIsExact
<1>. QED
  BY <1>1, MeasureInvInit, MeasureInvStep, PTL DEF PpsSpec

-----------------------------------------------------------------------------
(* No share is taken for nothing. *)

Shares == PpsThreads \X (1..MaxPpsShares)

AllShares == Cardinality(PpsThreads) * MaxPpsShares

\* A rate that is above zero in the code, where it is a double, is not rounded
\* down to nothing: not by the fair rate, nor by the ceiling when every share
\* there can be falls into one window.
RatesDoNotVanish ==
    /\ IsFiniteSet(PpsThreads) /\ MaxPpsShares \in Nat
    /\ \A g \in PpsConfigs, t \in PpsTemplates :
         /\ g.override \in Nat
         /\ t.value * (10000 - g.feeBps) >= t.net * 10000
         /\ t.value >= g.interval * AllShares

\* What can be measured.
ShareCountInv ==
    /\ spc \in [PpsThreads -> {"idle", "load", "store", "credit"}]
    /\ nth \in [PpsThreads -> 0..MaxPpsShares]
    /\ \A c \in PpsThreads : spc[c] # "idle" => nth[c] # 0
    /\ accum \subseteq Shares /\ loaded \in [PpsThreads -> SUBSET Shares]
    /\ perSec \in 0..AllShares

\* An open gate and the rate agree but between the gate's exchange and the
\* rate's store; a share past the gate that no refresh crossed finds a rate.
PriceInv ==
    /\ pps \in PpsConfigs
    /\ \E a \in {"idle", "gate", "rate"} : \E g, x :
          refresh = [at |-> a, gated |-> g, rate |-> x]
    /\ refresh.at # "idle" /\ ~refresh.gated => refresh.rate # 0
    /\ refresh.at = "rate" => gate = refresh.gated
    /\ refresh.at # "rate" /\ ~gate => rate # 0
    /\ pps.refuse =>
          /\ \A c \in PpsThreads : spc[c] # "idle" /\ c \notin crossed => rate # 0
          /\ unpaid = {}

\* A quotient of a greater by a smaller number is not zero.
LEMMA PositiveQuotient ==
    ASSUME NEW a \in Nat, NEW b \in Nat \ {0}, a >= b
    PROVE  a \div b \in Nat /\ a \div b > 0
OBVIOUS

LEMMA ProductType ==
    ASSUME NEW a \in Nat, NEW b \in Nat
    PROVE  a * b \in Nat /\ (a # 0 /\ b # 0 => a * b # 0)
OBVIOUS

LEMMA ProductGrows ==
    ASSUME NEW k \in Nat, NEW a \in Nat, NEW b \in Nat, a <= b
    PROVE  k * a <= k * b
<1>1. PICK c \in Nat : b = a + c
  <2>1. b - a \in Nat /\ b = a + (b - a)
    OBVIOUS
  <2>. QED  BY <2>1
<1>2. k * b = k * a + k * c
  BY <1>1
<1>3. k * a \in Nat /\ k * c \in Nat
  BY ProductType
<1>. QED  BY <1>2, <1>3

\* What is priced is not free.
LEMMA PricedIsPaid ==
    ASSUME RatesDoNotVanish, pps \in PpsConfigs, NEW t \in PpsTemplates,
           NEW d \in 0..AllShares, ~Suspends(t)
    PROVE  Priced(t, d) # 0
<1>1. /\ t.net \in Nat \ {0} /\ t.value \in Nat
      /\ pps.interval \in Nat \ {0} /\ pps.feeBps \in 0..1000 /\ pps.override \in Nat
      /\ t.value * (10000 - pps.feeBps) >= t.net * 10000
      /\ t.value >= pps.interval * AllShares
  BY PpsAssumption DEF RatesDoNotVanish
<1>2. AllShares \in Nat
  <2>1. Cardinality(PpsThreads) \in Nat /\ MaxPpsShares \in Nat
    BY FS_CardinalityType DEF RatesDoNotVanish
  <2>. QED  BY <2>1, ProductType DEF AllShares
<1>. HIDE DEF AllShares
<1>3. FairRate(t) \in Nat /\ FairRate(t) > 0
  <2>1. PICK a : a = t.value * (10000 - pps.feeBps)
    OBVIOUS
  <2>2. PICK b : b = t.net * 10000
    OBVIOUS
  <2>3. 10000 - pps.feeBps \in Nat
    <3>1. PICK f \in 0..1000 : pps.feeBps = f
      BY <1>1
    <3>2. 10000 - f \in Nat
      BY ONLY f \in 0..1000
    <3>. QED  BY ONLY <3>1, <3>2
  <2>4. a \in Nat /\ b \in Nat \ {0} /\ a >= b
    <3>1. a \in Nat
      BY <1>1, <2>1, <2>3, ProductType
    <3>2. b \in Nat /\ b # 0
      BY <1>1, <2>2
    <3>. QED  BY <1>1, <2>1, <2>2, <3>1, <3>2
  <2>5. a \div b \in Nat /\ a \div b > 0
    BY <2>4, PositiveQuotient
  <2>. QED  BY <1>1, <2>1, <2>2, <2>5 DEF FairRate
<1>4. UnderCeiling(FairRate(t), t, d) # 0
  <2>1. CASE t.value <= 0 \/ d <= 0
    BY <1>3, <2>1 DEF UnderCeiling
  <2>2. CASE t.value > 0 /\ d > 0
    <3>1. d \in Nat /\ d <= AllShares
      BY <1>2
    <3>2. PICK b : b = pps.interval * d
      OBVIOUS
    <3>3. b \in Nat /\ b # 0
      BY <1>1, <2>2, <3>1, <3>2, ProductType
    <3>4. pps.interval * d <= pps.interval * AllShares
      BY <1>1, <1>2, <3>1, ProductGrows
    <3>5. pps.interval * AllShares \in Nat
      BY <1>1, <1>2, ProductType
    <3>6. t.value >= b
      BY <1>1, <3>2, <3>3, <3>4, <3>5
    <3>7. t.value \div b \in Nat /\ t.value \div b > 0
      BY <1>1, <3>3, <3>6, PositiveQuotient
    <3>. QED  BY <1>3, <3>2, <3>7 DEF UnderCeiling
  <2>. QED  BY <1>1, <1>2, <2>1, <2>2
<1>. QED  BY <1>4 DEF Priced

\* There are never more shares to count than the threads may bring.
LEMMA CountBounded ==
    ASSUME RatesDoNotVanish, NEW S \in SUBSET Shares
    PROVE  Cardinality(S) \in 0..AllShares
<1>1. IsFiniteSet(1..MaxPpsShares) /\ Cardinality(1..MaxPpsShares) = MaxPpsShares
  <2>1. 1 \in Int /\ MaxPpsShares \in Nat
    BY DEF RatesDoNotVanish
  <2>. QED  BY <2>1, FS_Interval
<1>2. IsFiniteSet(Shares) /\ Cardinality(Shares) = AllShares
  <2>1. PICK T, I : T = PpsThreads /\ I = 1..MaxPpsShares
    OBVIOUS
  <2>2. IsFiniteSet(T) /\ IsFiniteSet(I) /\ Cardinality(I) = MaxPpsShares
    BY <1>1, <2>1 DEF RatesDoNotVanish
  <2>3. IsFiniteSet(T \X I) /\ Cardinality(T \X I) = Cardinality(T) * Cardinality(I)
    BY <2>2, FS_Product
  <2>. QED  BY <2>1, <2>2, <2>3 DEF Shares, AllShares
<1>3. Cardinality(S) \in Nat /\ Cardinality(Shares) \in Nat /\ Cardinality(S) <= Cardinality(Shares)
  <2>1. IsFiniteSet(S) /\ Cardinality(S) <= Cardinality(Shares)
    BY <1>2, FS_Subset
  <2>. QED  BY <1>2, <2>1, FS_CardinalityType
<1>. QED  BY <1>2, <1>3

LEMMA CountInit ==
    ASSUME RatesDoNotVanish, InitPps PROVE ShareCountInv
<1>1. 0 \in 0..AllShares
  BY CountBounded, FS_EmptySet
<1>2. 0 \in 0..MaxPpsShares
  BY DEF RatesDoNotVanish
<1>. QED  BY <1>1, <1>2 DEF InitPps, ShareCountInv

LEMMA CountStep ==
    ASSUME RatesDoNotVanish, ShareCountInv, [NextPps]_ppsVars
    PROVE  ShareCountInv'
<1>. USE DEF ShareCountInv
<1>1. ASSUME NEW t \in PpsTemplates, NEW over \in BOOLEAN, Measure(t, over) PROVE ShareCountInv'
  <2>1. perSec' \in 0..AllShares
    BY <1>1, CountBounded DEF Measure
  <2>2. accum' \subseteq Shares
    BY <1>1 DEF Measure
  <2>3. UNCHANGED <<spc, nth, loaded>>
    BY <1>1 DEF Measure
  <2>. QED  BY <2>1, <2>2, <2>3
<1>2. CASE ExchangeGate \/ StoreRate
  BY <1>2 DEF ExchangeGate, StoreRate
<1>3. ASSUME NEW c \in PpsThreads, SubmitPps(c) PROVE ShareCountInv'
  <2>1. nth[c] \in 0..MaxPpsShares /\ nth[c] < MaxPpsShares /\ nth' = [nth EXCEPT ![c] = nth[c] + 1]
        /\ spc[c] = "idle" /\ MaxPpsShares \in Nat
    BY <1>3 DEF SubmitPps, RatesDoNotVanish
  <2>2. nth[c] + 1 \in 0..MaxPpsShares /\ nth[c] + 1 # 0
    BY <2>1
  <2>3. nth' \in [PpsThreads -> 0..MaxPpsShares] /\ nth'[c] # 0
        /\ \A d \in PpsThreads : d # c => nth'[d] = nth[d]
    BY <2>1, <2>2
  <2>4. /\ spc' \in [PpsThreads -> {"idle", "load", "store", "credit"}]
        /\ \A d \in PpsThreads : d # c => spc'[d] = spc[d]
    BY <1>3 DEF SubmitPps
  <2>5. UNCHANGED <<accum, loaded, perSec>>
    BY <1>3 DEF SubmitPps
  <2>. QED  BY <2>3, <2>4, <2>5
<1>4. ASSUME NEW c \in PpsThreads, FoldLoad(c) PROVE ShareCountInv'
  BY <1>4 DEF FoldLoad
<1>5. ASSUME NEW c \in PpsThreads, FoldStore(c) PROVE ShareCountInv'
  <2>1. nth[c] \in 1..MaxPpsShares
    BY <1>5 DEF FoldStore, RatesDoNotVanish
  <2>2. <<c, nth[c]>> \in Shares
    BY <2>1 DEF Shares
  <2>3. accum' \subseteq Shares
    BY <1>5, <2>2 DEF FoldStore
  <2>4. loaded' \in [PpsThreads -> SUBSET Shares]
    BY <1>5 DEF FoldStore
  <2>5. /\ spc' \in [PpsThreads -> {"idle", "load", "store", "credit"}]
        /\ \A d \in PpsThreads : d # c => spc'[d] = spc[d]
        /\ spc[c] = "store" /\ UNCHANGED <<nth, perSec>>
    BY <1>5 DEF FoldStore
  <2>. QED  BY <2>3, <2>4, <2>5
<1>6. ASSUME NEW c \in PpsThreads, Credit(c) PROVE ShareCountInv'
  BY <1>6 DEF Credit
<1>7. CASE UNCHANGED ppsVars
  BY <1>7
<1>. QED  BY <1>1, <1>2, <1>3, <1>4, <1>5, <1>6, <1>7 DEF NextPps

LEMMA PriceInit ==
    ASSUME RatesDoNotVanish, InitPps PROVE PriceInv
<1>1. PICK t \in PpsTemplates : gate = Suspends(t) /\ rate = Priced(t, 0)
  BY DEF InitPps
<1>2. 0 \in 0..AllShares
  BY CountBounded, FS_EmptySet
<1>3. ~gate => rate # 0
  BY <1>1, <1>2, PricedIsPaid DEF InitPps
<1>. QED  BY <1>3 DEF InitPps, PriceInv

LEMMA PriceStep ==
    ASSUME RatesDoNotVanish, ShareCountInv, ShareCountInv', PriceInv, [NextPps]_ppsVars
    PROVE  PriceInv'
<1>9. PICK a \in {"idle", "gate", "rate"} :
           \E g, x : refresh = [at |-> a, gated |-> g, rate |-> x]
  BY DEF PriceInv
<1>0. PICK g, x : refresh = [at |-> a, gated |-> g, rate |-> x]
  BY <1>9
<1>1. ASSUME NEW t \in PpsTemplates, NEW over \in BOOLEAN, Measure(t, over) PROVE PriceInv'
  <2>1. PICK d : d = perSec'
    OBVIOUS
  <2>2. d \in 0..AllShares /\ pps \in PpsConfigs
    BY <2>1 DEF ShareCountInv, PriceInv
  <2>3. refresh' = [at |-> "gate", gated |-> Suspends(t), rate |-> Priced(t, d)]
    BY <1>1, <2>1 DEF Measure
  <2>4. ~Suspends(t) => Priced(t, d) # 0
    BY <2>2, PricedIsPaid
  <2>5. refresh.at = "idle" /\ UNCHANGED <<pps, gate, rate, spc, crossed, unpaid>>
    BY <1>1 DEF Measure
  <2>. QED  BY <2>3, <2>4, <2>5 DEF PriceInv
<1>2. CASE ExchangeGate
  <2>1. refresh' = [at |-> "rate", gated |-> g, rate |-> x] /\ a = "gate" /\ gate' = g
    BY <1>0, <1>2 DEF ExchangeGate
  <2>2. UNCHANGED <<pps, rate, spc, unpaid>> /\ crossed \subseteq crossed'
    BY <1>2 DEF ExchangeGate
  <2>. QED  BY <1>0, <2>1, <2>2 DEF PriceInv
<1>3. CASE StoreRate
  <2>1. /\ refresh' = [at |-> "idle", gated |-> FALSE, rate |-> 0]
        /\ a = "rate" /\ rate' = x /\ gate' = gate
    BY <1>0, <1>3 DEF StoreRate
  <2>2. UNCHANGED <<pps, spc, unpaid>> /\ \A c \in PpsThreads : spc[c] # "idle" => c \in crossed'
    BY <1>3 DEF StoreRate, PastGate
  <2>3. ~gate => x # 0
    BY <1>0, <2>1 DEF PriceInv
  <2>. QED  BY <2>1, <2>2, <2>3 DEF PriceInv
<1>4. ASSUME NEW c \in PpsThreads, SubmitPps(c) PROVE PriceInv'
  <2>1. /\ UNCHANGED <<pps, gate, rate, refresh, unpaid>>
        /\ \A d \in PpsThreads : d # c => spc'[d] = spc[d] /\ (d \in crossed' <=> d \in crossed)
    BY <1>4 DEF SubmitPps, ShareCountInv
  <2>2. ASSUME pps.refuse, spc'[c] # "idle", c \notin crossed' PROVE rate # 0
    <3>1. refresh.at # "rate"
      BY <1>4, <2>2 DEF SubmitPps
    <3>2. ~gate
      BY <1>4, <2>2 DEF SubmitPps, TurnsAway
    <3>. QED  BY <3>1, <3>2 DEF PriceInv
  <2>. QED  BY <2>1, <2>2 DEF PriceInv
<1>5. ASSUME NEW c \in PpsThreads, spc[c] # "idle",
             UNCHANGED <<pps, gate, rate, refresh, crossed, unpaid>>,
             \A d \in PpsThreads : d # c => spc'[d] = spc[d]
      PROVE  PriceInv'
  BY <1>5 DEF PriceInv
<1>6. ASSUME NEW c \in PpsThreads, FoldLoad(c) \/ FoldStore(c) PROVE PriceInv'
  BY <1>5, <1>6 DEF FoldLoad, FoldStore, ShareCountInv
<1>7. ASSUME NEW c \in PpsThreads, Credit(c) PROVE PriceInv'
  <2>1. pps.refuse => unpaid' = unpaid
    BY <1>7 DEF Credit, PriceInv
  <2>2. /\ UNCHANGED <<pps, gate, rate, refresh, crossed>>
        /\ \A d \in PpsThreads : spc'[d] # "idle" => spc[d] # "idle"
    BY <1>7 DEF Credit, ShareCountInv
  <2>. QED  BY <2>1, <2>2 DEF PriceInv
<1>8. CASE UNCHANGED ppsVars
  BY <1>8 DEF PriceInv
<1>. QED  BY <1>1, <1>2, <1>3, <1>4, <1>6, <1>7, <1>8 DEF NextPps

\* A pool that refuses what it will not pay for takes no share for nothing
\* unless a refresh crosses it (stratum.c, handle_submit; main.c,
\* refresh_pps_rate and on_share_cb), for any threads, templates and settings
\* whose rates the model's rounding leaves above zero.
THEOREM NoFreeWork ==
    ASSUME RatesDoNotVanish
    PROVE  PpsSpec => []WorkIsPaid
<1>1. InitPps => ShareCountInv /\ PriceInv
  BY CountInit, PriceInit
<1>2. ShareCountInv /\ PriceInv /\ [NextPps]_ppsVars => (ShareCountInv /\ PriceInv)'
  BY CountStep, PriceStep
<1>3. PriceInv => WorkIsPaid
  BY DEF PriceInv, WorkIsPaid
<1>. QED  BY <1>1, <1>2, <1>3, PTL DEF PpsSpec
=============================================================================
