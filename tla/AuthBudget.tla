---------------------------- MODULE AuthBudget -----------------------------
(***************************************************************************)
(* The budget of failed mining.authorize calls (stratum.c): per connection *)
(* and per peer address, in a fixed table probed a few slots deep whose    *)
(* entries expire and may be evicted.  The gate, the failure and the       *)
(* success are three critical sections; other connections of the same      *)
(* address, and of others, run in between.                                 *)
(*                                                                         *)
(* The clock is in units of the lockout's resolution.                      *)
(***************************************************************************)
EXTENDS Integers, Sequences, FiniteSets

CONSTANTS
    Peers,       \* peer addresses
    AuthSlots,   \* AUTH_FAIL_SLOTS
    AuthProbe,   \* AUTH_FAIL_PROBE
    Clients,     \* connections
    PeerOf,      \* PeerOf[c]
    AuthMax,     \* auth_max_failures
    Lockout,     \* auth_fail_lockout_sec
    CallMax,     \* AUTH_MAX_CALLS_PER_WINDOW
    MaxNow       \* bound: the clock

NoIp == ""    \* marks a free entry; the address of a connection that is not charged

ASSUME AuthAssumption ==
    /\ IsFiniteSet(Clients) /\ PeerOf \in [Clients -> Peers]
    /\ NoIp \notin Peers
    /\ {AuthSlots, AuthProbe, AuthMax, Lockout, CallMax} \subseteq Nat \ {0}
    /\ AuthProbe <= AuthSlots /\ MaxNow \in Nat

VARIABLES
    authHome,   \* per address: its home slot, whatever the hash makes it
    now,
    table,      \* auth_fail
    apc,        \* per connection: where its handle_authorize is
    mono,       \* per connection: the clock as auth_gate read it, before the lock
    connFails,  \* auth_failures
    calls,      \* auth_calls_in_window, up to the ceiling; its window is one unit of the clock
    failedAt    \* per address: when it last failed since it last succeeded

authVars == <<authHome, now, table, apc, mono, connFails, calls, failedAt>>

NoEntry == [ip |-> NoIp, fails |-> 0, start |-> 0]

InitAuth ==
    /\ authHome \in [Peers -> 0..AuthSlots - 1]
    /\ now = 0
    /\ table = [i \in 0..AuthSlots - 1 |-> NoEntry]
    /\ apc = [c \in Clients |-> "idle"]
    /\ mono = [c \in Clients |-> 0]
    /\ connFails = [c \in Clients |-> 0]
    /\ calls = [c \in Clients |-> 0]
    /\ failedAt = [ip \in Peers |-> <<>>]

Run(ip) == [k \in 0..AuthProbe - 1 |-> (authHome[ip] + k) % AuthSlots]

\* By the clock t; the difference is unsigned, so an entry begun after t is past.
Past(e, t) == t < e.start \/ t - e.start >= Lockout

\* The first slot of the run, in probe order, among those in S; as a set.
First(ip, S) ==
    LET at == {k \in 0..AuthProbe - 1 : Run(ip)[k] \in S}
    IN  IF at = {} THEN {} ELSE {Run(ip)[CHOOSE k \in at : \A m \in at : k <= m]}

Holding(ip) == First(ip, {i \in DOMAIN table : table[i].ip = ip})

Free(ip) == First(ip, {i \in DOMAIN table : table[i].ip = NoIp \/ Past(table[i], now)})

Oldest(ip) ==
    First(ip, {i \in DOMAIN table : \A k \in DOMAIN Run(ip) :
                                      table[i].start <= table[Run(ip)[k]].start})

Fresh(ip, t) == [ip |-> ip, fails |-> 0, start |-> t]

\* auth_fail_find: an expired entry forgets its count and keeps its slot.
Found(ip, t) ==
    [i \in DOMAIN table |->
        IF i \in Holding(ip) /\ Past(table[i], t) THEN Fresh(ip, t) ELSE table[i]]

\* Mutant: a slot taken over keeps the count of the address it was taken from.
ClaimedSlotInherits(ip) ==
    IF Holding(ip) # {} THEN Found(ip, now) ELSE
    LET at == IF Free(ip) # {} THEN Free(ip) ELSE Oldest(ip)
    IN  [i \in DOMAIN table |->
            IF i \in at THEN [table[i] EXCEPT !.ip = ip, !.start = now] ELSE table[i]]

\* ... and with `create`, a free slot of the run or else the oldest.
ClaimedSlot(ip) ==
    IF Holding(ip) # {} THEN Found(ip, now) ELSE
    LET at == IF Free(ip) # {} THEN Free(ip) ELSE Oldest(ip)
    IN  [i \in DOMAIN table |-> IF i \in at THEN Fresh(ip, now) ELSE table[i]]

SlotOf(t, ip) == {i \in DOMAIN t : t[i].ip = ip}

Locked(t, ip) == \E i \in SlotOf(t, ip) : t[i].fails >= AuthMax

\* auth_gate reads the clock ...
ReadClock(c) ==
    /\ apc[c] = "idle"
    /\ apc' = [apc EXCEPT ![c] = "gate"]
    /\ mono' = [mono EXCEPT ![c] = now]
    /\ UNCHANGED <<authHome, now, table, connFails, calls, failedAt>>

\* ... and takes the lock.  A locked address is answered and its connection closed; the
\* client may come back on a new one.  Else the call is over the ceiling; or
\* the address is missing, too long or does not validate; or it is valid; or
\* accrual is suspended, which is not charged.
Gate(c) ==
    /\ apc[c] = "gate"
    /\ table' = Found(PeerOf[c], mono[c])
    /\ IF Locked(table', PeerOf[c])
       THEN /\ connFails' = [connFails EXCEPT ![c] = 0]
            /\ calls' = [calls EXCEPT ![c] = 0]
            /\ apc' = [apc EXCEPT ![c] = "idle"]
       ELSE /\ calls' = [calls EXCEPT ![c] = IF mono[c] # now THEN 0
                                            ELSE IF @ = CallMax THEN @ ELSE @ + 1]
            /\ \E to \in IF calls[c] = CallMax THEN {"failed"}
                         ELSE {"failed", "succeeded", "idle"} :
                  apc' = [apc EXCEPT ![c] = to]
            /\ UNCHANGED connFails
    /\ mono' = [mono EXCEPT ![c] = 0]
    /\ UNCHANGED <<authHome, now, failedAt>>

\* auth_failed: the connection is closed once its own budget is spent.
AuthFailed(c) ==
    /\ apc[c] = "failed"
    /\ table' = [i \in DOMAIN table |->
                   IF i \in SlotOf(ClaimedSlot(PeerOf[c]), PeerOf[c])
                   THEN [ClaimedSlot(PeerOf[c])[i] EXCEPT !.fails = @ + 1]
                   ELSE ClaimedSlot(PeerOf[c])[i]]
    /\ failedAt' = [failedAt EXCEPT ![PeerOf[c]] =
                      LET s == Append(@, now) IN IF Len(s) > AuthMax THEN Tail(s) ELSE s]
    /\ IF connFails[c] + 1 >= AuthMax
       THEN /\ connFails' = [connFails EXCEPT ![c] = 0]
            /\ calls' = [calls EXCEPT ![c] = 0]
       ELSE /\ connFails' = [connFails EXCEPT ![c] = @ + 1]
            /\ UNCHANGED calls
    /\ apc' = [apc EXCEPT ![c] = "idle"]
    /\ UNCHANGED <<authHome, now, mono>>

\* auth_succeeded forgives the address: its slot is free again.
AuthSucceeded(c) ==
    /\ apc[c] = "succeeded"
    /\ connFails' = [connFails EXCEPT ![c] = 0]
    /\ table' = [i \in DOMAIN table |->
                   IF i \in Holding(PeerOf[c])
                   THEN [Found(PeerOf[c], now)[i] EXCEPT !.ip = NoIp]
                   ELSE table[i]]
    /\ failedAt' = [failedAt EXCEPT ![PeerOf[c]] = <<>>]
    /\ apc' = [apc EXCEPT ![c] = "idle"]
    /\ UNCHANGED <<authHome, now, mono, calls>>

\* Time passes, and with it the window of calls, but for one being judged by the
\* clock it has read.
Wait ==
    /\ now < MaxNow
    /\ now' = now + 1
    /\ calls' = [c \in Clients |-> IF apc[c] = "gate" THEN calls[c] ELSE 0]
    /\ UNCHANGED <<authHome, table, apc, mono, connFails, failedAt>>

NextAuth ==
    \/ \E c \in Clients : ReadClock(c) \/ Gate(c) \/ AuthFailed(c) \/ AuthSucceeded(c)
    \/ Wait

AuthSpec == InitAuth /\ [][NextAuth]_authVars
-----------------------------------------------------------------------------
\* The budget is exact.  An address is locked out only by its own failures,
\* AuthMax of them since it last succeeded and none older than the lockout,
\* whoever had its slot before.  And the gate and the charge are two critical
\* sections, so calls already past the gate may fail after the last one the
\* budget allows: one for each other connection of the address, and no more.
BudgetIsExact ==
    \A ip \in Peers : \A i \in SlotOf(table, ip) :
        /\ table[i].fails >= AuthMax /\ ~Past(table[i], now) =>
              Len(failedAt[ip]) = AuthMax /\ now - failedAt[ip][1] < Lockout
        /\ table[i].fails <= AuthMax - 1 + Cardinality({c \in Clients : PeerOf[c] = ip})
=============================================================================
