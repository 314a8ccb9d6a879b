------------------------------ MODULE Stratum ------------------------------
(***************************************************************************)
(* The Stratum server (stratum.c): the tip watcher publishes jobs with     *)
(* stratum_server_set_job and walks the connections to notify them, one    *)
(* thread per connection answers its miner, and the listeners accept.      *)
(*                                                                         *)
(* A step is the code between two accesses to what another thread can see: *)
(* the current job (job_lock), the retention ring (recent_lock), the list  *)
(* of connections (conns_lock, held by the watcher for a whole walk), a    *)
(* connection's difficulty (read by the walk with no lock) and its socket. *)
(*                                                                         *)
(* The wire is modelled by its effect.  A write applies its messages to    *)
(* the miner's side: the difficulty it was last told, the job it was last  *)
(* given, and for each job what the two sides agreed on, which is the      *)
(* difficulty it held and the coinbase it was sent when that job arrived.  *)
(*                                                                         *)
(* A share is the difficulty it achieves.  Which difficulty a retarget     *)
(* picks is the module Difficulty's concern; here it is any.  Stopping the *)
(* server is left out; the limits are modules DedupeIndex and AuthBudget.  *)
(***************************************************************************)
EXTENDS Integers, Sequences, FiniteSets, Functions

CONSTANTS
    MaxJobs,      \* bound: jobs are 1..MaxJobs, in the order they are built
    MaxAccepts,   \* bound: connections are 1..MaxAccepts
    Listeners,    \* the bound ports
    MaxConns,     \* cfg.max_conns
    RecentJobs,   \* RECENT_JOBS
    DedupeRing,   \* DEDUPE_RING
    Addresses,    \* payout addresses a miner may authorize with: 1..n
    Diffs,        \* difficulties
    NetDiff,      \* NetDiff[j]: the network difficulty of job j
    Framings,     \* ways to spell one solution (the case of a hex digit): 1..n
    Scenarios     \* how often each input may happen: a set of budgets

Inputs == {"jobs", "ages", "accepts", "auths", "submits", "suggests",
           "retargets", "stalls", "closes"}

ASSUME StratumAssumption ==
    /\ {MaxJobs, MaxAccepts, MaxConns, RecentJobs, DedupeRing} \subseteq Nat \ {0}
    /\ IsFiniteSet(Listeners)
    /\ Diffs \cup Addresses \subseteq Nat \ {0}
    /\ NetDiff \in [1..MaxJobs -> Diffs]
    /\ Scenarios \subseteq [Inputs -> Nat]
    /\ \A b \in Scenarios : b["jobs"] <= MaxJobs /\ b["accepts"] <= MaxAccepts

Jobs  == 1..MaxJobs
Conns == 1..MaxAccepts
None  == 0            \* no job, no difficulty, no address

JobDiffRing == (RecentJobs + 1) * 2

VARIABLES
    (* the jobs *)
    current,     \* current_job
    recent,      \* the retention ring
    head,        \* recent_head
    refs,        \* per job: refs; 0 once freed
    aged,        \* the jobs 1..aged are older than RECENT_JOB_TTL_MS
    (* the tip watcher, inside stratum_server_set_job *)
    wpc,
    wold,        \* the job it replaced and has not retired
    wlist,       \* the connections it has still to visit
    wout,        \* the notify it has rendered and not yet written
    (* the listeners and the list of connections *)
    lpc,         \* per listener
    connCount,   \* conn_count
    accepted,    \* how many connections were ever registered
    conns,       \* conns_head, newest first
    life,        \* per connection: where it is in its life
    (* the connections *)
    pc,
    subscribed,
    authorized,
    addr,        \* payout_address
    diff,        \* difficulty
    jobDiffs,    \* job_diffs, oldest first
    cb,          \* the job and the address of the cached coinbase
    seen,        \* the dedupe ring, oldest first
    msg,         \* the submit being handled: the share, the address it was mined for
    res,         \* what its header meets, and its verdict
    out,         \* what the handler has rendered and not yet written
    (* the whole server *)
    hashes,      \* the shares the server-wide dedupe holds
    credited,    \* per solution: how often on_share was called for it
    (* the miner's side *)
    told,        \* the difficulty it was last told
    last,        \* the job it was last given
    agreed,      \* per job: the difficulty it held when the job arrived
    sent,        \* per job: the address its coinbase pays
    (* the environment *)
    deaf,        \* the miner has stopped reading
    crossed,     \* the jobs on which the two sides may differ, see Cross
    late,        \* it subscribed after it had authorized
    renamed,     \* it authorized with another address than its coinbase pays
    budget

jobVars  == <<current, recent, head, refs, aged>>
walkVars == <<wpc, wold, wlist, wout>>
lifeVars == <<lpc, connCount, accepted, conns, life>>
sessVars == <<subscribed, authorized, addr, late, renamed>>
shareVars == <<seen, msg, res, hashes, credited>>
wireVars == <<told, last, agreed, sent>>
vars == <<jobVars, walkVars, lifeVars, pc, sessVars, diff, jobDiffs, cb,
          shareVars, out, wireVars, deaf, crossed, budget>>

-----------------------------------------------------------------------------
Malformed == 0        \* the framing of a share with a field the server refuses

Share == [job : Jobs, meets : Diffs, framing : Framings]
           \cup [job : Jobs, meets : {None}, framing : {Malformed}]

NoCoinbase == [job |-> None, addr |-> None]
NoOutput   == [diff |-> None, job |-> None, addr |-> None]
NoVerdict  == [meets |-> None, verdict |-> "none", credit |-> None, inHand |-> FALSE]

\* A connection as stratum_conn_new leaves it, and a miner who knows nothing.
Init ==
    /\ current = None /\ head = 0 /\ aged = 0
    /\ recent = [i \in 0..RecentJobs - 1 |-> None]
    /\ refs = [j \in Jobs |-> 0]
    /\ wpc = "idle" /\ wold = None /\ wlist = <<>> /\ wout = NoOutput
    /\ lpc = [l \in Listeners |-> "poll"]
    /\ connCount = 0 /\ accepted = 0 /\ conns = <<>>
    /\ life = [c \in Conns |-> "none"]
    /\ pc = [c \in Conns |-> "recv"]
    /\ subscribed = [c \in Conns |-> FALSE]
    /\ authorized = [c \in Conns |-> FALSE]
    /\ addr = [c \in Conns |-> None]
    /\ diff = [c \in Conns |-> CHOOSE d \in Diffs : \A e \in Diffs : d <= e]
    /\ jobDiffs = [c \in Conns |-> <<>>]
    /\ cb = [c \in Conns |-> NoCoinbase]
    /\ seen = [c \in Conns |-> <<>>]
    /\ msg = [c \in Conns |-> <<>>]
    /\ res = [c \in Conns |-> NoVerdict]
    /\ out = [c \in Conns |-> NoOutput]
    /\ hashes = {}
    /\ credited = [x \in {} |-> 0]
    /\ told = [c \in Conns |-> None]
    /\ last = [c \in Conns |-> None]
    /\ agreed = [c \in Conns |-> [j \in Jobs |-> None]]
    /\ sent = [c \in Conns |-> [j \in Jobs |-> None]]
    /\ deaf = [c \in Conns |-> FALSE]
    /\ crossed = [c \in Conns |-> {}]
    /\ late = [c \in Conns |-> FALSE]
    /\ renamed = [c \in Conns |-> FALSE]
    /\ budget \in Scenarios

Spend(input) ==
    /\ budget[input] > 0
    /\ budget' = [budget EXCEPT ![input] = @ - 1]

-----------------------------------------------------------------------------
(* Rings. *)

\* Append to a ring of n entries that overwrites its oldest.
Push(s, e, n) == IF Len(s) < n THEN Append(s, e) ELSE Append(Tail(s), e)

\* An id already in the ring is updated in place.
RecordJobDifficulty(s, j, d) ==
    IF \E i \in DOMAIN s : s[i].job = j
    THEN [i \in DOMAIN s |-> IF s[i].job = j THEN [s[i] EXCEPT !.diff = d] ELSE s[i]]
    ELSE Push(s, [job |-> j, diff |-> d], JobDiffRing)

\* None if the connection was never told about the job.
JobDifficulty(s, j) ==
    IF \E i \in DOMAIN s : s[i].job = j
    THEN s[CHOOSE i \in DOMAIN s : s[i].job = j].diff
    ELSE None

CanRender(c) == authorized[c] /\ addr[c] # None

Render(c, j) ==
    IF cb[c].job = j THEN cb[c] ELSE [job |-> j, addr |-> addr[c]]

\* Drop one reference for each slot in a set, one for each job.
Released(S) == [j \in Jobs |-> refs[j] - Cardinality({i \in S : recent[i] = j})]

-----------------------------------------------------------------------------
(* Deliver what was written to the miner: the difficulty, then the job. *)

Deliver(c, o) ==
    /\ told' = [told EXCEPT ![c] = IF o.diff = None THEN @ ELSE o.diff]
    /\ IF o.job = None THEN UNCHANGED <<last, agreed, sent>> ELSE
       /\ last' = [last EXCEPT ![c] = o.job]
       /\ agreed' = [agreed EXCEPT ![c][o.job] = told'[c]]
       /\ sent' = [sent EXCEPT ![c][o.job] = o.addr]

\* A job goes out twice or past another message: the walk writes it while the
\* handler has output unwritten, the handler writes a difficulty while the
\* walk has it rendered, or it is rendered again at another difficulty.
Cross(c, p) ==
    crossed' = [crossed EXCEPT ![c] = @ \cup (IF p THEN {current} ELSE {})]

Rerendered(c) == JobDifficulty(jobDiffs[c], current) \notin {None, diff[c]}

-----------------------------------------------------------------------------
(* The tip watcher: stratum_server_set_job. *)

SetJob ==
    /\ wpc = "idle"
    /\ Spend("jobs")
    /\ current' = current + 1
    /\ refs' = [refs EXCEPT ![current + 1] = 1]
    /\ wold' = current
    /\ wpc' = IF current = None THEN "lock" ELSE "retire"
    /\ UNCHANGED <<recent, head, aged, wlist, wout, lifeVars, pc, sessVars, diff,
                   jobDiffs, cb, shareVars, out, wireVars, deaf, crossed>>

\* retire_job: sweep what has expired, then overwrite the oldest slot.
Expired == {i \in DOMAIN recent : recent[i] # None /\ recent[i] <= aged}

RetireJob ==
    /\ wpc = "retire"
    /\ refs' = Released(Expired \cup {head})
    /\ recent' = [i \in DOMAIN recent |->
                     IF i = head THEN wold
                     ELSE IF i \in Expired THEN None ELSE recent[i]]
    /\ head' = (head + 1) % RecentJobs
    /\ wold' = None
    /\ wpc' = "lock"
    /\ UNCHANGED <<current, aged, wlist, wout, lifeVars, pc, sessVars, diff, jobDiffs,
                   cb, shareVars, out, wireVars, deaf, crossed, budget>>

\* The walk of the connections that are left; it gives conns_lock back after
\* the last.
WalkOn(left) ==
    /\ wlist' = left
    /\ wpc' = IF left = <<>> THEN "idle" ELSE "walk"

\* Mutant: the walk starts at the second connection.
LockConnsSkipsHead ==
    /\ wpc = "lock"
    /\ WalkOn(IF conns = <<>> THEN conns ELSE Tail(conns))
    /\ UNCHANGED <<jobVars, wold, wout, lifeVars, pc, sessVars, diff, jobDiffs, cb,
                   shareVars, out, wireVars, deaf, crossed, budget>>

LockConns ==
    /\ wpc = "lock"
    /\ WalkOn(conns)
    /\ UNCHANGED <<jobVars, wold, wout, lifeVars, pc, sessVars, diff, jobDiffs, cb,
                   shareVars, out, wireVars, deaf, crossed, budget>>

Eligible(c) == subscribed[c] /\ authorized[c]

SkipConn ==
    /\ wpc = "walk"
    /\ ~(Eligible(Head(wlist)) /\ CanRender(Head(wlist)))
    /\ WalkOn(Tail(wlist))
    /\ UNCHANGED <<jobVars, wold, wout, lifeVars, pc, sessVars, diff, jobDiffs,
                   cb, shareVars, out, wireVars, deaf, crossed, budget>>

\* send_current_notify renders, reads c->difficulty and records it.
RenderNotify ==
    /\ wpc = "walk"
    /\ LET c == Head(wlist) IN
       /\ Eligible(c) /\ CanRender(c)
       /\ cb' = [cb EXCEPT ![c] = Render(c, current)]
       /\ jobDiffs' = [jobDiffs EXCEPT ![c] =
                         RecordJobDifficulty(@, current, diff[c])]
       /\ wout' = [diff |-> None, job |-> current, addr |-> cb'[c].addr]
       /\ Cross(c, Rerendered(c))
    /\ wpc' = "write"
    /\ UNCHANGED <<jobVars, wold, wlist, lifeVars, pc, sessVars, diff, shareVars,
                   out, wireVars, deaf, budget>>

\* Mutant: no SO_SNDTIMEO.
WriteNotifyBlocks ==
    /\ wpc = "write" /\ ~deaf[Head(wlist)]
    /\ LET c == Head(wlist) IN
       /\ IF deaf[c]
          THEN life' = [life EXCEPT ![c] = "shut"] /\ UNCHANGED wireVars
          ELSE Deliver(c, wout) /\ UNCHANGED life
       /\ Cross(c, out[c] # NoOutput)
    /\ WalkOn(Tail(wlist))
    /\ wout' = NoOutput
    /\ UNCHANGED <<jobVars, wold, lpc, connCount, accepted, conns, pc, sessVars,
                   diff, jobDiffs, cb, shareVars, out, deaf, budget>>

\* SO_SNDTIMEO bounds the write: one to a miner that has stopped reading
\* fails, and its socket is shut down for its own thread to notice.
WriteNotify ==
    /\ wpc = "write"
    /\ LET c == Head(wlist) IN
       /\ IF deaf[c]
          THEN life' = [life EXCEPT ![c] = "shut"] /\ UNCHANGED wireVars
          ELSE Deliver(c, wout) /\ UNCHANGED life
       /\ Cross(c, out[c] # NoOutput)
    /\ WalkOn(Tail(wlist))
    /\ wout' = NoOutput
    /\ UNCHANGED <<jobVars, wold, lpc, connCount, accepted, conns, pc, sessVars,
                   diff, jobDiffs, cb, shareVars, out, deaf, budget>>

\* Time passes: one more job is older than RECENT_JOB_TTL_MS.
Age ==
    /\ Spend("ages")
    /\ aged < current
    /\ aged' = aged + 1
    /\ UNCHANGED <<current, recent, head, refs, walkVars, lifeVars, pc, sessVars,
                   diff, jobDiffs, cb, shareVars, out, wireVars, deaf, crossed>>

\* The watcher's thread runs: a walk it has begun goes on.  What the miners
\* send and when the next job comes is not promised.
Walk == RetireJob \/ LockConns \/ SkipConn \/ RenderNotify \/ WriteNotify

-----------------------------------------------------------------------------
(* The listeners, and the ends of a connection's life. *)

ConnsLocked == wpc \in {"walk", "write"}

OtherThanLife == <<jobVars, walkVars, sessVars, diff, jobDiffs, cb, shareVars,
                   out, wireVars, deaf, crossed>>

\* accept(), and the test of conn_count that closes what is over the limit.
Accept(l) ==
    /\ lpc[l] = "poll"
    /\ Spend("accepts")
    /\ connCount < MaxConns
    /\ lpc' = [lpc EXCEPT ![l] = "admitted"]
    /\ UNCHANGED <<connCount, accepted, conns, life, pc, OtherThanLife>>

Count(l) ==
    /\ lpc[l] = "admitted"
    /\ connCount' = connCount + 1
    /\ lpc' = [lpc EXCEPT ![l] = "counted"]
    /\ UNCHANGED <<accepted, conns, life, pc, OtherThanLife, budget>>

\* conn_register, then the detached thread.
Register(l) ==
    /\ lpc[l] = "counted" /\ ~ConnsLocked
    /\ lpc' = [lpc EXCEPT ![l] = "poll"]
    /\ accepted' = accepted + 1
    /\ conns' = <<accepted + 1>> \o conns
    /\ life' = [life EXCEPT ![accepted + 1] = "open"]
    /\ UNCHANGED <<connCount, pc, OtherThanLife, budget>>

\* conn_unregister: the list closes over the connection.
Without(s, i) == SubSeq(s, 1, i - 1) \o SubSeq(s, i + 1, Len(s))

Unlink(c) == \E i \in DOMAIN conns : conns[i] = c /\ conns' = Without(conns, i)

\* Mutant: the list is left without conns_lock.
UnregisterUnlocked(c) ==
    /\ pc[c] = "recv"
    /\ \/ life[c] = "open" /\ Spend("closes")
       \/ life[c] = "shut" /\ UNCHANGED budget
    /\ Unlink(c)
    /\ life' = [life EXCEPT ![c] = "unlinked"]
    /\ UNCHANGED <<lpc, connCount, accepted, pc, OtherThanLife>>

\* The peer closed, went silent past its idle budget, sent a line that costs
\* it the connection, or never got a thread.  conn_unregister comes first.
Unregister(c) ==
    /\ pc[c] = "recv"
    /\ \/ life[c] = "open" /\ Spend("closes")
       \/ life[c] = "shut" /\ UNCHANGED budget
    /\ ~ConnsLocked
    /\ Unlink(c)
    /\ life' = [life EXCEPT ![c] = "unlinked"]
    /\ UNCHANGED <<lpc, connCount, accepted, pc, OtherThanLife>>

CloseFd(c) ==
    /\ life[c] = "unlinked"
    /\ life' = [life EXCEPT ![c] = "closed"]
    /\ UNCHANGED <<lpc, connCount, accepted, conns, pc, OtherThanLife, budget>>

FreeConn(c) ==
    /\ life[c] = "closed"
    /\ life' = [life EXCEPT ![c] = "freed"]
    /\ connCount' = connCount - 1
    /\ UNCHANGED <<lpc, accepted, conns, pc, OtherThanLife, budget>>

\* The miner stops reading (external).
Stall(c) ==
    /\ life[c] = "open" /\ ~deaf[c]
    /\ Spend("stalls")
    /\ deaf' = [deaf EXCEPT ![c] = TRUE]
    /\ UNCHANGED <<jobVars, walkVars, lifeVars, pc, sessVars, diff, jobDiffs, cb,
                   shareVars, out, wireVars, crossed>>

-----------------------------------------------------------------------------
(* A connection's thread between two lines: stratum_handle_message. *)

Receives(c) == pc[c] = "recv" /\ life[c] = "open"

Goto(c, label) == pc' = [pc EXCEPT ![c] = label]

\* handle_subscribe.  A miner subscribes once.
Subscribe(c) ==
    /\ Receives(c) /\ ~subscribed[c]
    /\ subscribed' = [subscribed EXCEPT ![c] = TRUE]
    /\ late' = [late EXCEPT ![c] = authorized[c]]
    /\ UNCHANGED <<jobVars, walkVars, lifeVars, pc, authorized, addr, renamed,
                   diff, jobDiffs, cb, shareVars, out, wireVars, deaf, crossed,
                   budget>>

\* handle_authorize with an address that validates: the connection is
\* authorized before its difficulty is settled.  Address 1 is the one a miner
\* starts with.
Authorize(c, a) ==
    /\ Receives(c)
    /\ a = 1 \/ authorized[c]
    /\ Spend("auths")
    /\ addr' = [addr EXCEPT ![c] = a]
    /\ authorized' = [authorized EXCEPT ![c] = TRUE]
    /\ renamed' = [renamed EXCEPT ![c] = @ \/ cb[c].addr \notin {None, a}]
    /\ Goto(c, "assign")
    /\ UNCHANGED <<jobVars, walkVars, lifeVars, subscribed, late, diff, jobDiffs,
                   cb, shareVars, out, wireVars, deaf, crossed>>

\* An address that does not validate clears the one the connection had, and
\* leaves it authorized if it was.
AuthorizeFails(c) ==
    /\ Receives(c)
    /\ Spend("auths")
    /\ addr' = [addr EXCEPT ![c] = None]
    /\ UNCHANGED <<jobVars, walkVars, lifeVars, pc, subscribed, authorized, late,
                   renamed, diff, jobDiffs, cb, shareVars, out, wireVars, deaf,
                   crossed>>

\* A new difficulty, if the budget has one left.
Retarget(c, d) ==
    \/ d = diff[c] /\ UNCHANGED <<diff, budget>>
    \/ d # diff[c] /\ Spend("retargets") /\ diff' = [diff EXCEPT ![c] = d]

AssignDifficulty(c) ==
    /\ pc[c] = "assign"
    /\ \E d \in Diffs :
         Retarget(c, d) /\ out' = [out EXCEPT ![c].diff = d]
    /\ Goto(c, "notify")
    /\ UNCHANGED <<jobVars, walkVars, lifeVars, sessVars, jobDiffs, cb, shareVars,
                   wireVars, deaf, crossed>>

\* send_current_notify, into the handler's own buffer.
NotifyAuthorized(c) ==
    /\ pc[c] = "notify"
    /\ IF current = None THEN UNCHANGED <<cb, jobDiffs, out, crossed>> ELSE
       /\ cb' = [cb EXCEPT ![c] = Render(c, current)]
       /\ jobDiffs' = [jobDiffs EXCEPT ![c] =
                         RecordJobDifficulty(@, current, diff[c])]
       /\ out' = [out EXCEPT ![c].job = current, ![c].addr = cb'[c].addr]
       /\ Cross(c, Rerendered(c))
    /\ Goto(c, "write")
    /\ UNCHANGED <<jobVars, walkVars, lifeVars, sessVars, diff, shareVars, wireVars,
                   deaf, budget>>

\* mining.suggest_difficulty only raises what is assigned.
SuggestDifficulty(c) ==
    /\ Receives(c)
    /\ Spend("suggests")
    /\ \E d \in Diffs :
         /\ d > diff[c]
         /\ diff' = [diff EXCEPT ![c] = d]
         /\ out' = IF authorized[c] THEN [out EXCEPT ![c].diff = d] ELSE out
    /\ Goto(c, "write")
    /\ UNCHANGED <<jobVars, walkVars, lifeVars, sessVars, jobDiffs, cb, shareVars,
                   wireVars, deaf, crossed>>

\* The handler's buffer is written under write_lock; a failure is ignored.
WriteOut(c) ==
    /\ pc[c] = "write"
    /\ IF deaf[c] THEN UNCHANGED wireVars ELSE Deliver(c, out[c])
    /\ Cross(c, out[c].diff # None /\ wpc = "write" /\ Head(wlist) = c)
    /\ out' = [out EXCEPT ![c] = NoOutput]
    /\ res' = [res EXCEPT ![c] = NoVerdict]
    /\ msg' = [msg EXCEPT ![c] = <<>>]
    /\ Goto(c, "recv")
    /\ UNCHANGED <<jobVars, walkVars, lifeVars, sessVars, diff, jobDiffs, cb, seen,
                   hashes, credited, deaf, budget>>

-----------------------------------------------------------------------------
(* mining.submit *)

\* A miner submits work it did: for a job it was given, at any difficulty.
\* It mined the coinbase it was last sent for that job.  Spelling 1 is the one
\* it sends first.
Submit(c, share) ==
    /\ Receives(c) /\ authorized[c]
    /\ agreed[c][share.job] # None
    /\ share.framing \in {1, Malformed} \/ [share EXCEPT !.framing = 1] \in Range(seen[c])
    /\ Spend("submits")
    /\ msg' = [msg EXCEPT ![c] = <<share, sent[c][share.job]>>]
    /\ Goto(c, "find")
    /\ UNCHANGED <<jobVars, walkVars, lifeVars, sessVars, diff, jobDiffs, cb, seen,
                   res, hashes, credited, out, wireVars, deaf, crossed>>

Job(c) == msg[c][1].job

Answer(c, v) == res' = [res EXCEPT ![c].verdict = v]

NotShares == <<lifeVars, sessVars, wireVars, deaf, crossed>>

\* find_job: the current job under job_lock ...
FindCurrent(c) ==
    /\ pc[c] = "find"
    /\ IF current = Job(c)
       THEN Goto(c, "dedupe") /\ refs' = [refs EXCEPT ![Job(c)] = @ + 1]
       ELSE Goto(c, "ring") /\ UNCHANGED refs
    /\ UNCHANGED <<current, recent, head, aged, walkVars, diff, jobDiffs, cb,
                   shareVars, out, budget, NotShares>>

\* Mutant: find_job returns a borrowed pointer.
FindRecentBorrows(c) ==
    /\ pc[c] = "ring"
    /\ IF \E i \in DOMAIN recent : recent[i] = Job(c)
       THEN /\ Goto(c, "dedupe")
            /\ UNCHANGED <<refs, res>>
       ELSE /\ Goto(c, "write")
            /\ res' = [res EXCEPT ![c].verdict = "stale",
                                  ![c].inHand = (wold = Job(c))]
            /\ UNCHANGED refs
    /\ UNCHANGED <<current, recent, head, aged, walkVars, diff, jobDiffs, cb,
                   seen, msg, hashes, credited, out, budget, NotShares>>

\* Mutant: the search of the ring starts one slot late.
FindRecentFromOne(c) ==
    /\ pc[c] = "ring"
    /\ IF \E i \in DOMAIN recent \ {0} : recent[i] = Job(c)
       THEN /\ Goto(c, "dedupe")
            /\ refs' = [refs EXCEPT ![Job(c)] = @ + 1]
            /\ UNCHANGED res
       ELSE /\ Goto(c, "write")
            /\ res' = [res EXCEPT ![c].verdict = "stale",
                                  ![c].inHand = (wold = Job(c))]
            /\ UNCHANGED refs
    /\ UNCHANGED <<current, recent, head, aged, walkVars, diff, jobDiffs, cb,
                   seen, msg, hashes, credited, out, budget, NotShares>>

\* ... then the retention ring under recent_lock.
FindRecent(c) ==
    /\ pc[c] = "ring"
    /\ IF \E i \in DOMAIN recent : recent[i] = Job(c)
       THEN /\ Goto(c, "dedupe")
            /\ refs' = [refs EXCEPT ![Job(c)] = @ + 1]
            /\ UNCHANGED res
       ELSE /\ Goto(c, "write")
            /\ res' = [res EXCEPT ![c].verdict = "stale",
                                  ![c].inHand = (wold = Job(c))]
            /\ UNCHANGED refs
    /\ UNCHANGED <<current, recent, head, aged, walkVars, diff, jobDiffs, cb,
                   seen, msg, hashes, credited, out, budget, NotShares>>

\* The solution a submit stands for.  A coinbase other than the one it was
\* mined on makes another header of it, which meets nothing.
Solution(c) == <<c, Job(c), msg[c][1].meets, msg[c][2]>>

Meets(c) == IF Render(c, Job(c)).addr = msg[c][2] THEN msg[c][1].meets ELSE None

\* Mutant: the server-wide key depends on how the share was framed.
HashAsSpelled(c) == <<Solution(c), msg[c][1].framing, Render(c, Job(c)).addr>>

Hash(c) == <<Solution(c), Render(c, Job(c)).addr>>

Release(c) == refs' = [refs EXCEPT ![Job(c)] = @ - 1]

\* The answer of a submit that is not judged, which gives the job back.
Refuse(c, v) == Answer(c, v) /\ Release(c) /\ Goto(c, "write")

\* The connection's own ring, then ntime, nonce and extranonce2, the coinbase,
\* the header it makes, and the server-wide ring of hashes.
Dedupe(c) ==
    /\ pc[c] = "dedupe"
    /\ LET duplicate == msg[c][1] \in Range(seen[c])
           malformed == msg[c][1].framing = Malformed
           renders   == CanRender(c)
           known     == Hash(c) \in hashes
       IN \/ duplicate /\ Refuse(c, "dup") /\ UNCHANGED <<seen, cb, hashes>>
          \/ /\ ~duplicate
             /\ seen' = [seen EXCEPT ![c] = Push(@, msg[c][1], DedupeRing)]
             /\ \/ malformed /\ Refuse(c, "bad") /\ UNCHANGED <<cb, hashes>>
                \/ ~malformed /\ ~renders /\ Refuse(c, "render") /\ UNCHANGED <<cb, hashes>>
                \/ /\ ~malformed /\ renders
                   /\ cb' = [cb EXCEPT ![c] = Render(c, Job(c))]
                   /\ \/ known /\ Refuse(c, "dup") /\ UNCHANGED hashes
                      \/ /\ ~known
                         /\ hashes' = hashes \cup {Hash(c)}
                         /\ res' = [res EXCEPT ![c].meets = Meets(c)]
                         /\ Goto(c, "judge") /\ UNCHANGED refs
    /\ UNCHANGED <<current, recent, head, aged, walkVars, diff, jobDiffs, msg,
                   credited, out, budget, NotShares>>

\* Mutant: a share is judged at what the connection has drifted to.
AssignedNow(c) == diff[c]

\* The difficulty this job went out under, or else the connection's.
Assigned(c) ==
    LET d == JobDifficulty(jobDiffs[c], Job(c))
    IN  IF d = None THEN diff[c] ELSE d

\* What a share that meets m is credited at: its job's difficulty, the lower
\* one the connection was moved to since, the network's for a block that
\* meets neither, or nothing.
CreditFor(c, m) ==
    IF m >= Assigned(c) THEN Assigned(c)
    ELSE IF m >= diff[c] THEN diff[c]
    ELSE IF m >= NetDiff[Job(c)] THEN NetDiff[Job(c)]
    ELSE None

Credit(c) ==
    credited' = [x \in DOMAIN credited \cup {Solution(c)} |->
                   (IF x \in DOMAIN credited THEN credited[x] ELSE 0)
                   + (IF x = Solution(c) THEN 1 ELSE 0)]

\* The verdict, on_share, the retarget it may bring, and the job let go.
Judge(c) ==
    /\ pc[c] = "judge"
    /\ LET credit == CreditFor(c, res[c].meets) IN
       IF credit = None
       THEN Answer(c, "low") /\ UNCHANGED <<credited, diff, out, budget>>
       ELSE /\ res' = [res EXCEPT ![c].verdict = "ok", ![c].credit = credit]
            /\ Credit(c)
            /\ \E d \in Diffs :
                 /\ Retarget(c, d)
                 /\ out' = IF d = diff[c] THEN out ELSE [out EXCEPT ![c].diff = d]
    /\ Release(c)
    /\ Goto(c, "write")
    /\ UNCHANGED <<current, recent, head, aged, walkVars, jobDiffs, cb, seen, msg,
                   hashes, NotShares>>

-----------------------------------------------------------------------------
ConnThread(c) ==
    \/ AssignDifficulty(c) \/ NotifyAuthorized(c) \/ WriteOut(c)
    \/ FindCurrent(c) \/ FindRecent(c) \/ Dedupe(c) \/ Judge(c)
    \/ CloseFd(c) \/ FreeConn(c)

Miner(c) ==
    \/ Subscribe(c) \/ AuthorizeFails(c) \/ SuggestDifficulty(c) \/ Stall(c)
    \/ \E a \in Addresses : Authorize(c, a)
    \/ \E share \in Share : Submit(c, share)

Next ==
    \/ SetJob \/ Walk \/ Age
    \/ \E l \in Listeners : Accept(l) \/ Count(l) \/ Register(l)
    \/ \E c \in Conns : ConnThread(c) \/ Unregister(c) \/ Miner(c)

Spec == Init /\ [][Next]_vars /\ WF_vars(Walk)

-----------------------------------------------------------------------------
(* Properties. *)

One(p) == IF p THEN 1 ELSE 0

Holds(c, j) == pc[c] \in {"dedupe", "judge"} /\ Job(c) = j

\* Every reference is accounted for: the current slot, the ring's slots, the
\* job between swap and retire, and the submits reading it.  A job in any of
\* those hands is therefore never freed, and one in none always is.
RefsExact ==
    \A j \in Jobs :
        refs[j] = One(current = j) + One(wold = j)
                  + Cardinality({i \in DOMAIN recent : recent[i] = j})
                  + Cardinality({c \in Conns : Holds(c, j)})

\* The walk never holds a connection whose socket is closed: its notify
\* would reach whoever was given the descriptor next.
NotifyReachesItsConn ==
    \A i \in DOMAIN wlist : life[wlist[i]] \in {"open", "shut"}

\* An honest share counts.  One that meets the difficulty its job was agreed
\* at is credited at that difficulty, and one that solves a block is never
\* refused as low; no share is credited above what it meets.  Not promised
\* for a job that crossed another message on its way to the miner, for a
\* connection that took another name, and for a submit so slow that the
\* record of its job is overwritten while it is handled.
HonestWorkCounts ==
    \A c \in Conns : pc[c] = "write" /\ msg[c] # <<>> /\ ~renamed[c] =>
        LET share == msg[c][1] IN
        share.job \notin crossed[c] /\ share.job + JobDiffRing > current =>
        /\ res[c].verdict = "low" =>
               share.meets < agreed[c][share.job] /\ share.meets < NetDiff[share.job]
        /\ res[c].verdict = "ok" =>
               /\ res[c].credit <= share.meets
               /\ share.meets >= agreed[c][share.job] =>
                      res[c].credit = agreed[c][share.job]
        /\ res[c].verdict = "render" => addr[c] = None

\* A share is refused as stale only if its job has left the ring, or is in
\* the watcher's hands between current_job and the ring.
StaleMeansGone ==
    \A c \in Conns : pc[c] = "write" /\ res[c].verdict = "stale" /\ ~res[c].inHand =>
        Job(c) # current /\ \A i \in DOMAIN recent : recent[i] # Job(c)

\* One solution is credited once, however it is spelled.
CreditedOnce == \A x \in DOMAIN credited : credited[x] <= 1

\* When nothing is in progress, every miner that can be served works on the
\* current job.
Quiet == wpc = "idle" /\ \A c \in Conns : pc[c] = "recv"

CurrentOnWire ==
    Quiet => \A c \in Conns :
        life[c] = "open" /\ Eligible(c) /\ CanRender(c)
            /\ ~deaf[c] /\ current \notin crossed[c] /\ ~late[c] => last[c] = current

\* A walk ends, whoever has stopped reading.
WalkEnds == wpc # "idle" ~> wpc = "idle"
=============================================================================
