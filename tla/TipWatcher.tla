----------------------------- MODULE TipWatcher ----------------------------
(***************************************************************************)
(* The tip watcher (main.c) over the node's client (bitcoind.c): it polls, *)
(* or long-polls, for a template, decides whether the tip moved, has the   *)
(* ledger reconciled, builds a job and publishes it.  The node's tip moves *)
(* at any time, forward, sideways and back; requests fail, and so may a    *)
(* job's construction.                                                     *)
(*                                                                         *)
(* A template is the tip it builds on.                                     *)
(***************************************************************************)
EXTENDS Integers

CONSTANTS
    NodeTips,     \* tips: [height, hash]
    LongPolls,    \* BOOLEAN or a part of it: does the node offer long polling
    MaxMoves,     \* bound: moves of the node's tip
    MaxFailures   \* bound: requests and constructions that fail

ASSUME TipAssumption ==
    /\ \A x \in NodeTips : x.height \in Nat \ {0}
    /\ LongPolls \subseteq BOOLEAN
    /\ MaxMoves \in Nat /\ MaxFailures \in Nat

VARIABLES
    nodeTip, moves, longPoll,
    failures,
    tpc,        \* the watcher: "sleep", "ask" or "build"
    lpid,       \* the tip the long-poll token stands for, or NoToken
    tmpl,       \* the template in hand
    moved,      \* new_tip
    lastTip,    \* last_height, last_prev_hash
    aged,       \* the last job is older than the refresh interval
    jobTip,     \* the tip the published job builds on
    clean,      \* its clean_jobs
    passAt,     \* the tip of the last reconcile pass
    unbuilt     \* history: a construction failed, and no new tip was mined on since

tipVars == <<nodeTip, moves, longPoll, failures, tpc, lpid, tmpl, moved, lastTip,
             aged, jobTip, clean, passAt, unbuilt>>

NoToken == [height |-> 0, hash |-> 0]

\* main() has built a job from a first template and reconciled at its tip.
InitTip ==
    /\ nodeTip \in NodeTips /\ moves = 0 /\ longPoll \in LongPolls
    /\ failures = 0
    /\ tpc = "sleep" /\ lpid = NoToken
    /\ tmpl = nodeTip /\ moved = FALSE
    /\ lastTip = nodeTip /\ aged = FALSE
    /\ jobTip = nodeTip /\ clean = TRUE
    /\ passAt = nodeTip /\ unbuilt = FALSE

\* The poll interval, or after errors the back-off if that is longer.  With a
\* token there is no wait: the answer is the notification.
WatcherSleeps ==
    /\ tpc = "sleep" /\ lpid = NoToken
    /\ tpc' = "ask"
    /\ UNCHANGED <<nodeTip, moves, longPoll, failures, lpid, tmpl, moved, lastTip, aged,
                   jobTip, clean, passAt, unbuilt>>

\* A request is under way; one with the token of the tip there is, is parked.
Asking == tpc = "ask" \/ (tpc = "sleep" /\ lpid # NoToken)

\* The transport, the HTTP status, the JSON, an RPC error or a field the
\* template must have: every error is the same to the watcher.
AskFails ==
    /\ Asking /\ failures < MaxFailures
    /\ failures' = failures + 1
    /\ tpc' = "sleep"
    /\ lpid' = NoToken
    /\ UNCHANGED <<nodeTip, moves, longPoll, tmpl, moved, lastTip, aged, jobTip, clean,
                   passAt, unbuilt>>

\* Mutant: another block at the same height is no new tip.
TipMovedByHeight(t) == t.height # lastTip.height

\* new_tip, by the height or by the hash
TipMoved(t) == t # lastTip

Token == IF longPoll THEN nodeTip ELSE NoToken

\* A template, and what it calls for; the ledger is reconciled at a new tip.
Answered ==
    /\ tmpl' = nodeTip
    /\ moved' = TipMoved(nodeTip)
    /\ passAt' = IF moved' THEN nodeTip ELSE passAt
    /\ IF moved' \/ aged THEN tpc' = "build" /\ UNCHANGED lpid
       ELSE tpc' = "sleep" /\ lpid' = Token
    /\ UNCHANGED <<nodeTip, moves, longPoll, failures, lastTip, aged, jobTip, clean,
                   unbuilt>>

Ask == Asking /\ lpid # nodeTip /\ Answered

\* The node may answer a parked request of its own accord.
AskAnsweredEarly == Asking /\ lpid = nodeTip /\ Answered

\* Mutant: the tip is noted whether or not a job was built.
BuildFailsNotes ==
    /\ tpc = "build" /\ failures < MaxFailures
    /\ failures' = failures + 1
    /\ unbuilt' = TRUE
    /\ tpc' = "sleep" /\ lastTip' = tmpl
    /\ UNCHANGED <<nodeTip, moves, longPoll, lpid, tmpl, moved, aged, jobTip, clean,
                   passAt>>

\* build_job_from_template or attach_pplns_window fails: the loop goes round
\* with the old token.
BuildFails ==
    /\ tpc = "build" /\ failures < MaxFailures
    /\ failures' = failures + 1
    /\ unbuilt' = TRUE
    /\ tpc' = "sleep"
    /\ UNCHANGED <<nodeTip, moves, longPoll, lpid, tmpl, moved, lastTip, aged, jobTip,
                   clean, passAt>>

\* set_job, the rate, and what the job was built on
PublishJob ==
    /\ tpc = "build"
    /\ jobTip' = tmpl /\ clean' = moved
    /\ lastTip' = tmpl /\ aged' = FALSE
    /\ unbuilt' = (unbuilt /\ ~moved)
    /\ tpc' = "sleep" /\ lpid' = IF longPoll THEN tmpl ELSE NoToken
    /\ UNCHANGED <<nodeTip, moves, longPoll, failures, tmpl, moved, passAt>>

\* A block is found, or the chain reorganises.
NodeMoves ==
    /\ moves < MaxMoves
    /\ moves' = moves + 1
    /\ nodeTip' \in NodeTips \ {nodeTip}
    /\ UNCHANGED <<longPoll, failures, tpc, lpid, tmpl, moved, lastTip, aged, jobTip,
                   clean, passAt, unbuilt>>

JobAges ==
    /\ ~aged
    /\ aged' = TRUE
    /\ UNCHANGED <<nodeTip, moves, longPoll, failures, tpc, lpid, tmpl, moved, lastTip,
                   jobTip, clean, passAt, unbuilt>>

WatcherSteps == WatcherSleeps \/ Ask \/ PublishJob

NextTip ==
    \/ WatcherSteps \/ AskFails \/ AskAnsweredEarly \/ BuildFails
    \/ NodeMoves \/ JobAges

TipSpec == InitTip /\ [][NextTip]_tipVars
-----------------------------------------------------------------------------
\* A miner may go on with the work it has only if that work builds on the
\* same tip: a job that does not say clean_jobs has the parent of the job it
\* replaces, whatever failed between the two.
CleanWhenMoved == [][jobTip' # jobTip => clean']_tipVars

\* What the pool mines on is what its ledger was last reconciled at; but for
\* a tip no job could be built on, from which the node went back.
MinedTipIsReconciled == jobTip = passAt \/ tpc = "build" \/ unbuilt

\* Once the node's tip rests and failures end, the pool mines on it.
JobFollowsTip == <>[](jobTip = nodeTip)
=============================================================================
