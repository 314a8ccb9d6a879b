---------------------------- MODULE DedupeIndex ----------------------------
(***************************************************************************)
(* The server-wide share dedupe (stratum.c): a ring of the last keys and a *)
(* hash table over the same keys, with linear probing and backward-shift   *)
(* deletion.  One operation, under one lock: is the key known, and if not, *)
(* record it and forget the oldest.                                        *)
(*                                                                         *)
(* The hash function is a variable no step changes: every way the keys     *)
(* can collide is checked.                                                 *)
(***************************************************************************)
EXTENDS Integers, FiniteSets

CONSTANTS
    Keys,     \* 64-bit keys: 0 and others
    RingCap,  \* SHARE_DEDUPE_RING
    Slots     \* SHARE_DEDUPE_SLOTS

ASSUME DedupeAssumption ==
    /\ Keys \subseteq Nat /\ IsFiniteSet(Keys)
    /\ RingCap \in Nat \ {0} /\ Slots \in Nat /\ Slots > RingCap

VARIABLES
    home,     \* dd_home
    ring,     \* share_dedupe_ring
    ringHead, \* share_dedupe_head
    live,     \* share_dedupe_count
    index,    \* share_dedupe_index; 0 is the empty marker
    answers   \* what the last call said, and what a list of keys would say

dedupeVars == <<home, ring, ringHead, live, index, answers>>

Stored(h) == IF h = 0 THEN 1 ELSE h

StoredKeys == {Stored(h) : h \in Keys}

InitDedupe ==
    /\ home \in [StoredKeys -> 0..Slots - 1]
    /\ ring = [i \in 0..RingCap - 1 |-> 0]
    /\ ringHead = 0 /\ live = 0
    /\ index = [i \in 0..Slots - 1 |-> 0]
    /\ answers = [said |-> FALSE, true |-> FALSE]

\* The n-th slot probed for h.
Probed(h, n) == (home[h] + n) % Slots

\* The number of probes until the search for h stops, at h or at a hole.
Probes(t, h) ==
    CHOOSE n \in 0..Slots - 1 :
        /\ t[Probed(h, n)] \in {0, h}
        /\ \A m \in 0..n - 1 : t[Probed(h, m)] \notin {0, h}

IndexFind(t, h) == t[Probed(h, Probes(t, h))] = h

IndexInsert(t, h) == [t EXCEPT ![Probed(h, Probes(t, h))] = h]

\* Mutant: the wrapped interval is not told from the plain one.
HomeBetweenPlain(hole, hm, j) == hole < hm /\ hm <= j

\* Is a home in the cyclic interval (hole, j]?
HomeBetween(hole, hm, j) ==
    IF hole <= j THEN hole < hm /\ hm <= j ELSE hole < hm \/ hm <= j

\* One slot of the cluster behind the hole: it ends the walk, stays where it
\* is, or would be stranded and moves back into the hole.
ShiftBack(w, j) ==
    LET k == w.table[j]
    IN  IF w.done \/ k = 0 THEN [w EXCEPT !.done = TRUE]
        ELSE IF HomeBetween(w.hole, home[k], j) THEN w
        ELSE [w EXCEPT !.table[w.hole] = k, !.hole = j]

IndexRemove(t, h) ==
    LET at == Probed(h, Probes(t, h))
        shift[n \in 0..Slots - 1] ==
            IF n = 0 THEN [table |-> t, hole |-> at, done |-> FALSE]
            ELSE ShiftBack(shift[n - 1], (at + n) % Slots)
        end == shift[Slots - 1]
    IN  [end.table EXCEPT ![end.hole] = 0]

RingKeys == {ring[i] : i \in 0..RingCap - 1} \ {0}

\* share_dedupe_key_check_and_add
CheckAndAdd(key) ==
    LET h == Stored(key) IN
    /\ answers' = [said |-> IndexFind(index, h), true |-> h \in RingKeys]
    /\ IF IndexFind(index, h) THEN UNCHANGED <<ring, ringHead, live, index>> ELSE
       /\ ring' = [ring EXCEPT ![ringHead] = h]
       /\ ringHead' = (ringHead + 1) % RingCap
       /\ live' = IF live = RingCap THEN live ELSE live + 1
       /\ index' = IndexInsert(IF live = RingCap
                               THEN IndexRemove(index, ring[ringHead]) ELSE index, h)
    /\ UNCHANGED home

NextDedupe == \E key \in Keys : CheckAndAdd(key)

DedupeSpec == InitDedupe /\ [][NextDedupe]_dedupeVars

-----------------------------------------------------------------------------
\* A share is called a duplicate exactly when its key is among the last
\* RingCap recorded: an honest share is never refused for another's hash
\* slot, and a repeated one is never paid again while it is remembered.
DuplicatesAreKnown == answers.said = answers.true
=============================================================================
