----------------------------- MODULE ShareWindow -----------------------------
(***************************************************************************)
(* The PPLNS window of a template (store_pplns_window, store.c).  The tip  *)
(* watcher asks for it while the writer thread keeps committing shares.    *)
(* It is found by two statements, each of which sees the table as it is at *)
(* that moment: a walk backwards in growing batches looks for the share    *)
(* where the window begins, a second query sums the rows between the two   *)
(* ends.  Neither takes txn_mu, and the connection is the writer's, so     *)
(* they also see what its open transaction has written.                    *)
(*                                                                         *)
(* A row's id is its position in shares; difficulty is a natural number    *)
(* instead of a double.                                                    *)
(***************************************************************************)
EXTENDS Integers, Sequences, FiniteSetsExt, SequencesExt

CONSTANTS
    Miners,        \* workers.id
    WithAddress,   \* the workers that have a payout_address
    Assigned,      \* what a share of each worker counts
    Window,        \* window_diff
    FirstBatch,    \* 4096
    Cap,           \* room in the caller's array
    MaxShares      \* bound: rows in the table

ASSUME WindowAssumption ==
    /\ IsFiniteSet(Miners) /\ Miners \subseteq Nat \ {0}
    /\ WithAddress \subseteq Miners
    /\ Assigned \in [Miners -> Nat \ {0}]
    /\ {Window, FirstBatch, Cap, MaxShares} \subseteq Nat \ {0}

Growth == 4             \* batch *= 4
Unpinned == MaxShares + 1   \* INT64_MAX

VARIABLES
    shares,   \* the table, with the rows of the open transaction
    durable,  \* how many of them are committed
    pc,       \* the caller: idle, walk, select, done or error
    batch,    \* LIMIT of the next walk
    cutoff,   \* cutoff_id
    top,      \* top_id
    out,      \* the entries returned, largest first
    since,    \* how many shares were committed when the call began
    torn,     \* history: an error ended the loop over the entries
    gone      \* history: rows the walk read have been rolled back

windowVars == <<shares, durable, pc, batch, cutoff, top, out, since, torn, gone>>

InitWindow ==
    /\ shares = <<>>
    /\ durable = 0
    /\ pc = "idle"
    /\ batch = FirstBatch
    /\ cutoff = 0
    /\ top = Unpinned
    /\ out = <<>>
    /\ since = 0
    /\ torn = FALSE
    /\ gone = FALSE

-----------------------------------------------------------------------------
\* SUM(difficulty) over the rows ids.
Difficulty(ids) ==
    SumFunctionOnSet([i \in DOMAIN shares |-> shares[i].difficulty], ids)

\* running - difficulty < window: what is newer than row i does not fill the
\* window yet, so the row that crosses the boundary counts whole.
Counts(i, t) == Difficulty((i + 1)..t) < Window

\* The rows store_pplns_distribute credits for a block whose own share is t.
Anchored(t) == {i \in 1..t : Difficulty(i..t) - shares[i].difficulty < Window}

\* The writer thread inserts a share (process_event) ...
Insert(w) ==
    /\ Len(shares) < MaxShares
    /\ shares' = Append(shares, [worker |-> w, difficulty |-> Assigned[w]])
    /\ UNCHANGED <<durable, pc, batch, cutoff, top, out, since, torn, gone>>

\* ... and commits its batch,
Commit ==
    /\ durable < Len(shares)
    /\ durable' = Len(shares)
    /\ UNCHANGED <<shares, pc, batch, cutoff, top, out, since, torn, gone>>

\* or COMMIT fails and the rows are taken back.  They are inserted again by the
\* next attempt, unless it was the last one.
Rollback ==
    /\ durable < Len(shares)
    /\ shares' = SubSeq(shares, 1, durable)
    /\ since' = Min({since, durable})
    /\ gone' = (gone \/ (top # Unpinned /\ top > durable))
    /\ UNCHANGED <<durable, pc, batch, cutoff, top, out, torn>>

\* store_pplns_window is called.
Call ==
    /\ pc \in {"idle", "done", "error"}
    /\ pc' = "walk"
    /\ batch' = FirstBatch
    /\ cutoff' = 0
    /\ top' = Unpinned
    /\ out' = <<>>
    /\ since' = Len(shares)
    /\ torn' = FALSE
    /\ gone' = FALSE
    /\ UNCHANGED <<shares, durable>>

Grow(b) == b * Growth

\* Mutant: the top is the one the first batch read.
PinFirst(rows) == IF top = Unpinned THEN Max(rows) ELSE top

\* MAX(id) of the batch just read.
Pin(rows) == Max(rows)

\* One step of the walk: read the newest rows, batch of them at most, and stop
\* when they cover the window or the table ran out.
Walk ==
    /\ pc = "walk"
    /\ LET last == Len(shares)
           rows == {i \in Max({1, last - batch + 1})..last : Counts(i, last)}
           settled == \/ rows = {}
                      \/ Difficulty(rows) >= Window
                      \/ Cardinality(rows) < batch
       IN  /\ IF rows = {}
              THEN UNCHANGED <<cutoff, top>>
              ELSE cutoff' = Min(rows) /\ top' = Pin(rows)
           /\ pc' = IF settled THEN "select" ELSE "walk"
           /\ batch' = IF settled THEN batch ELSE Grow(batch)
    /\ UNCHANGED <<shares, durable, out, since, torn, gone>>

\* A walk that could not be finished is an error, never a short window.
WalkFails ==
    /\ pc = "walk"
    /\ pc' = "error"
    /\ UNCHANGED <<shares, durable, batch, cutoff, top, out, since, torn, gone>>

\* ORDER BY wd DESC, w.id ASC
Before(c, d) ==
    \/ c.difficulty > d.difficulty
    \/ c.difficulty = d.difficulty /\ c.worker < d.worker

\* Difficulty per worker with an address over the rows ids, largest first.
Claims(ids) ==
    LET of(w)  == {i \in ids : shares[i].worker = w}
        claims == {[worker |-> w, difficulty |-> Difficulty(of(w))] :
                     w \in {v \in WithAddress : of(v) # {}}}
    IN  [k \in 1..Cardinality(claims) |->
           CHOOSE c \in claims : Cardinality({d \in claims : Before(d, c)}) = k - 1]

\* The first n claims, Cap of them at most.
Kept(claims, n) == SubSeq(claims, 1, Min({n, Cap, Len(claims)}))

\* The second statement, between the ends the walk found.
Select ==
    /\ pc = "select"
    /\ LET rows == {i \in DOMAIN shares : cutoff <= i /\ i <= top}
       IN  out' = Kept(Claims(rows), Cap)
    /\ pc' = "done"
    /\ UNCHANGED <<shares, durable, batch, cutoff, top, since, torn, gone>>

\* An error of sqlite3_step ends the loop like the last row does.
SelectStepFails ==
    /\ pc = "select"
    /\ LET rows == {i \in DOMAIN shares : cutoff <= i /\ i <= top}
       IN  \E n \in 0..Cap : out' = Kept(Claims(rows), n)
    /\ pc' = "done"
    /\ torn' = TRUE
    /\ UNCHANGED <<shares, durable, batch, cutoff, top, since, gone>>

NextWindow ==
    \/ \E w \in Miners : Insert(w)
    \/ Commit
    \/ Rollback
    \/ Call
    \/ Walk
    \/ WalkFails
    \/ Select
    \/ SelectStepFails

WindowSpec == InitWindow /\ [][NextWindow]_windowVars

-----------------------------------------------------------------------------
(* Properties. *)

\* What the distributor would count for worker w on a block found at share t.
Earned(w, t) == Difficulty({i \in Anchored(t) : shares[i].worker = w})

\* The entries are the window as of share t: everyone's own difficulty, and
\* nobody left out unless the array is full of larger claims.
IsWindowAt(entries, t) ==
    /\ \A k \in DOMAIN entries : entries[k].difficulty = Earned(entries[k].worker, t)
    /\ \A w \in WithAddress :
          \/ Earned(w, t) = 0
          \/ \E k \in DOMAIN entries : entries[k].worker = w
          \/ Len(entries) = Cap
             /\ \A k \in DOMAIN entries : entries[k].difficulty >= Earned(w, t)

Returns == pc = "select" /\ pc' = "done" /\ cutoff # 0
WindowOfTheCall == \E t \in since..Len(shares) : IsWindowAt(out', t)

\* Whatever was inserted and committed between the two statements, the window
\* returned is the one the distributor would pay at some moment during the call:
\* never short of the window, never past it, and not older than the call
\* (store_pplns_window).  Provided that the second statement was read to its end
\* and no row the walk has read was rolled back since; and a table that was empty
\* when walked pins no top and pays whatever has arrived since.
WindowOfOneMoment ==
    [][Returns /\ ~torn' /\ ~gone => WindowOfTheCall]_windowVars
=============================================================================
