------------------------------ MODULE EventLog ------------------------------
(***************************************************************************)
(* What the store promises its callers (store.h): an event it accepted is  *)
(* applied to the database once, in the order of acceptance and together   *)
(* with its batch, or is counted as lost - never half of a batch, never    *)
(* twice.                                                                  *)
(***************************************************************************)
EXTENDS Integers, Sequences, FiniteSets

CONSTANTS Event,     \* what may be recorded
          Lossy      \* whether a batch may be lost after every retry

VARIABLES pending,   \* accepted, not yet applied
          table,     \* how often each event has been applied
          dropped    \* how many accepted events were lost

logVars == <<pending, table, dropped>>

Occurrences(s, e) == Cardinality({i \in DOMAIN s : s[i] = e})

Applied(t, s) == [e \in Event |-> t[e] + Occurrences(s, e)]

Init ==
    /\ pending = <<>>
    /\ table = [e \in Event |-> 0]
    /\ dropped = 0

Accept(e) ==
    /\ pending' = Append(pending, e)
    /\ UNCHANGED <<table, dropped>>

\* The n oldest events leave together, applied or lost.
Land(n) ==
    /\ table' = Applied(table, SubSeq(pending, 1, n))
    /\ pending' = SubSeq(pending, n + 1, Len(pending))
    /\ UNCHANGED dropped

Lose(n) ==
    /\ Lossy
    /\ dropped' = dropped + n
    /\ pending' = SubSeq(pending, n + 1, Len(pending))
    /\ UNCHANGED table

Next == \/ \E e \in Event : Accept(e)
        \/ \E n \in DOMAIN pending : Land(n) \/ Lose(n)

Spec == Init /\ [][Next]_logVars
=============================================================================
