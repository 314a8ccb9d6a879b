----------------------------- MODULE Difficulty ----------------------------
(***************************************************************************)
(* The difficulty of one connection (stratum.c, config.c): the policy its  *)
(* listener line gives it, the miner's own requests, and vardiff, which    *)
(* retargets from the shares of a window whose jobs may have gone out      *)
(* under earlier difficulties while the network's difficulty moves.        *)
(*                                                                         *)
(* Difficulties are natural numbers, rounded down; 0 is "not given".  Time *)
(* is counted in windows (vardiff_window_sec).  Shares that are rejected   *)
(* never reach vardiff and are left out.                                   *)
(***************************************************************************)
EXTENDS Integers, Sequences

CONSTANTS
    Lines,         \* listener lines: [min, initial, max]
    Servers,       \* server-wide settings: [initial, min, max, cap, vardiff]
    NetDiffs,      \* difficulties of templates
    Requests,      \* difficulties a miner asks for
    Achieved,      \* difficulties a share's hash achieves
    Expected,      \* shares in one window at vardiff_target_spm
    MinSamples,    \* vardiff_min_samples
    WindowMult,    \* vardiff_max_window_mult
    StepCap,       \* 4: the largest step of the rate loop
    IdleStep,      \* vardiff_idle_step
    FloorSamples,  \* VD_FLOOR_MIN_SAMPLES
    FloorTrigger,  \* VD_FLOOR_TRIGGER
    MaxCounted     \* bound: shares counted in one window

ASSUME DifficultyAssumption ==
    /\ NetDiffs \cup Requests \cup Achieved \subseteq Nat \ {0}
    /\ {Expected, WindowMult, StepCap, IdleStep, FloorSamples, FloorTrigger}
         \subseteq Nat \ {0}
    /\ MinSamples \in Nat
    /\ Lines \subseteq [min : Nat, initial : Nat, max : Nat]
    /\ Servers \subseteq [initial : Nat \ {0}, min : Nat \ {0}, max : Nat, cap : Nat,
                          vardiff : BOOLEAN]

VARIABLES
    srv,         \* stratum_cfg_t
    pol,         \* pol_*: the policy the connection was accepted under
    net,         \* current_net_diff: 0 until there is a job
    authorized,
    assigned,    \* c->difficulty
    requested,   \* requested_min_diff
    vdWin,       \* vd_window_*
    held,        \* bound: the last two jobs, newest first: what each went out under
    raise        \* the last retarget: did the floor detector raise it, by what right

difficultyVars == <<srv, pol, net, authorized, assigned, requested, vdWin, held, raise>>

LesserOf(a, b)  == IF a < b THEN a ELSE b
GreaterOf(a, b) == IF a > b THEN a ELSE b

\* parse_listener: the floor is the starting difficulty too, unless one is given.
ParsedLine(l) ==
    [min |-> l.min, initial |-> IF l.initial > 0 THEN l.initial ELSE l.min, max |-> l.max]

LineIsAccepted(l) == l.max > 0 => ParsedLine(l).initial <= l.max

\* conn_apply_listener over conn_new: what the line leaves out is the server's.
PolicyOf(s, l) ==
    LET p == ParsedLine(l) IN
    [initial |-> IF p.initial > 0 THEN p.initial ELSE s.initial,
     min     |-> IF p.min > 0 THEN p.min ELSE s.min,
     max     |-> IF p.max > 0 THEN p.max ELSE s.max,
     floor   |-> p.min]

\* No share yet: nothing achieved, under nothing.
NewWindow == [shares |-> 0, elapsed |-> 0, least |-> 0, most |-> 0, earned |-> TRUE]

InitDifficulty ==
    /\ srv \in Servers
    /\ \E l \in {x \in Lines : LineIsAccepted(x)} : pol = PolicyOf(srv, l)
    /\ net = 0
    /\ authorized = FALSE
    /\ assigned = pol.initial
    /\ requested = 0
    /\ vdWin = NewWindow
    /\ held = <<>>
    /\ raise = [floor |-> FALSE, earned |-> TRUE]

\* clamp_assigned_difficulty: the network's ceiling, then the port's floor.
Clamp(d) ==
    LET c == IF net > 0 THEN LesserOf(d, net) ELSE d
        f == GreaterOf(c, pol.floor)
    IN  IF f <= 0 THEN 1 ELSE f

UnderMax(d) == IF pol.max > 0 THEN LesserOf(d, pol.max) ELSE d

\* apply_requested_diff: the floor a request becomes.
Granted(req) == UnderMax(Clamp(LesserOf(req, srv.cap)))

HasEffect(req) == req > 0 /\ srv.cap > 0

\* send_current_notify: the current job goes out again, under d.
Renotified(d) ==
    IF net = 0 THEN held
    ELSE <<[diff |-> d, net |-> net]>> \o (IF Len(held) = 2 THEN Tail(held) ELSE <<>>)

\* The end of handle_authorize; pw is the d= of the password, or 0.
TakeDifficulty(pw) ==
    \E req \in {IF pw > 0 THEN pw ELSE requested} :
    /\ authorized' = TRUE
    /\ requested' = IF HasEffect(req) THEN Granted(req) ELSE requested
    /\ assigned' = Clamp(IF HasEffect(req) THEN GreaterOf(assigned, Granted(req)) ELSE assigned)
    /\ vdWin' = NewWindow
    /\ held' = Renotified(assigned')
    /\ UNCHANGED <<srv, pol, net, raise>>

\* handle_suggest_difficulty, before or after authorize.
SuggestDiff(req) ==
    /\ HasEffect(req)
    /\ requested' = Granted(req)
    /\ assigned' = GreaterOf(assigned, Granted(req))
    /\ UNCHANGED <<srv, pol, net, authorized, vdWin, held, raise>>

\* A job, notified under the difficulty of now.
Notified(n) ==
    /\ net' = n
    /\ held' = IF ~authorized THEN held
               ELSE <<[diff |-> assigned, net |-> n]>>
                      \o (IF held = <<>> THEN <<>> ELSE <<Head(held)>>)
    /\ UNCHANGED <<srv, pol, authorized, assigned, requested, vdWin, raise>>

\* Another window's length passes.
WindowPasses ==
    /\ authorized /\ vdWin.elapsed < WindowMult
    /\ vdWin' = [vdWin EXCEPT !.elapsed = @ + 1]
    /\ UNCHANGED <<srv, pol, net, authorized, assigned, requested, held, raise>>

\* conn_job_difficulty: what a share may be judged by.  A job is judged as it
\* went out; one the connection was not sent, or no longer holds a record of,
\* by the difficulty of now.
JudgedAs ==
    {held[k] : k \in DOMAIN held}
      \cup {[diff |-> assigned, net |-> n] : n \in {m \in NetDiffs : net > 0}}

\* submit_with_job's verdict: a share meets its job's difficulty, or it is a
\* block, even where the port's floor is above the network's difficulty; or,
\* after a cut, it meets the lower difficulty of now, which some firmware
\* applies to the work in hand.
Accepted(from, achieved) ==
    \/ achieved >= from.diff
    \/ achieved >= from.net
    \/ assigned < from.diff /\ achieved >= assigned

\* Mutant: a share taken at the lower difficulty is counted under that one.
CountedAsTaken(d, achieved) ==
    [vdWin EXCEPT
        !.shares = @ + 1,
        !.least  = IF vdWin.shares = 0 THEN achieved ELSE LesserOf(@, achieved),
        !.most   = GreaterOf(@, IF achieved >= d THEN d ELSE LesserOf(d, assigned)),
        !.earned = @ /\ achieved > FloorTrigger * d]

\* The window with one more share, of a job that went out under d: that
\* difficulty counts, whichever one the share was taken at.
Counted(d, achieved) ==
    [vdWin EXCEPT
        !.shares = @ + 1,
        !.least  = IF vdWin.shares = 0 THEN achieved ELSE LesserOf(@, achieved),
        !.most   = GreaterOf(@, d),
        !.earned = @ /\ achieved > FloorTrigger * d]

\* Too few samples leave it open, up to a limit.
IsOver(w) == w.elapsed >= 1 /\ (w.shares >= MinSamples \/ w.elapsed >= WindowMult)

\* The rate loop: nothing within a factor of two of the target, else in
\* proportion, by a bounded step.
RateProposal(w) ==
    LET expected == Expected * w.elapsed
        step     == IF w.shares >= MinSamples THEN StepCap ELSE IdleStep
    IN  IF w.shares <= 2 * expected /\ 2 * w.shares >= expected THEN assigned
        ELSE GreaterOf(LesserOf((assigned * w.shares) \div expected, assigned * step),
                       assigned \div step)

\* What the window's shares were mined under, at most.
FloorBasis(w) == GreaterOf(w.most, assigned)

\* The miner filters at a floor of its own; 0 if it does not.
MeasuredFloor(w) ==
    IF w.shares >= FloorSamples /\ w.least > FloorTrigger * FloorBasis(w)
    THEN (w.least * 95) \div 100 ELSE 0

\* Mutant: the request lasts one window.
BoundedForgets(d) == Clamp(UnderMax(GreaterOf(d, pol.min)))

Bounded(d) == Clamp(UnderMax(GreaterOf(GreaterOf(d, requested), pol.min)))

\* An accepted share, and vardiff_maybe_retarget.
ShareTicks(from, achieved) ==
    /\ authorized /\ vdWin.shares < MaxCounted
    /\ Accepted(from, achieved)
    /\ \E w \in {Counted(from.diff, achieved)} :
       IF ~srv.vardiff \/ ~IsOver(w)
       THEN vdWin' = w /\ UNCHANGED <<assigned, raise>>
       ELSE /\ assigned' = Bounded(GreaterOf(RateProposal(w), MeasuredFloor(w)))
            /\ raise' = [floor |-> MeasuredFloor(w) > RateProposal(w), earned |-> w.earned]
            /\ vdWin' = NewWindow
    /\ UNCHANGED <<srv, pol, net, authorized, requested, held>>

NextDifficulty ==
    \/ \E pw \in Requests \cup {0} : TakeDifficulty(pw)
    \/ \E req \in Requests : SuggestDiff(req)
    \/ \E n \in NetDiffs : Notified(n)
    \/ WindowPasses
    \/ \E from \in JudgedAs, a \in Achieved : ShareTicks(from, a)

DifficultySpec == InitDifficulty /\ [][NextDifficulty]_difficultyVars
-----------------------------------------------------------------------------
\* Whatever moves a working miner's difficulty (the chain, vardiff, the miner
\* itself), it never ends below the floor its port promised; above what the
\* network can back, where the miner would filter out blocks, only for that
\* floor; above the port's ceiling only for that floor or the difficulty it
\* began with; and below what the miner asked for only as far as the network
\* forces it.
BoundsKept ==
    [][authorized' /\ assigned' # assigned =>
         /\ assigned' >= pol.floor
         /\ net > 0 => assigned' <= GreaterOf(net, pol.floor)
         /\ pol.max > 0 => assigned' <= GreaterOf(pol.max, GreaterOf(pol.floor, pol.initial))
         /\ assigned' < assigned /\ requested' > 0 => assigned' >= LesserOf(requested', net)
      ]_difficultyVars

\* The difficulty is raised to a miner's floor only if every share of the
\* window beat, fourfold, the difficulty its own job went out under: a cut
\* the rate loop just made is not undone by shares of older jobs.
FloorIsMeasured == raise.floor => raise.earned
=============================================================================
