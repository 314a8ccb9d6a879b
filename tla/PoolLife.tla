------------------------------ MODULE PoolLife -----------------------------
(***************************************************************************)
(* The life of the pool's process: main() from its first line to its last  *)
(* (main.c), the start and the stop of the Stratum server with its         *)
(* listener threads (stratum.c), and the table of descriptors they share   *)
(* with the rest of the process.                                           *)
(*                                                                         *)
(* A descriptor is a number; whoever opens one is given the lowest number  *)
(* that is free.  Every call that can fail may fail, and main takes the    *)
(* exit the code has for it.  A listener reads its slot's number without a *)
(* lock, each time it polls and each time it accepts.                      *)
(***************************************************************************)
EXTENDS Integers, Sequences, FiniteSets

CONSTANTS
    Ports,     \* the listeners in their order: their names
    MaxFd      \* bound: descriptors are 0..MaxFd

Owners == {"nobody", "stdin", "others", "miner"}
PortNames == {Ports[i] : i \in DOMAIN Ports}

ASSUME PoolAssumption ==
    /\ Ports \in Seq(STRING) /\ Ports # <<>>
    /\ Cardinality(PortNames) = Len(Ports) /\ PortNames \cap Owners = {}
    /\ MaxFd \in Nat

VARIABLES
    stage,      \* where main is
    held,       \* what it has opened and not closed
    code,       \* what it returns
    slot,       \* the listener slot at hand, in a loop over the slots
    phase,      \* where it is with that slot
    fdOf,       \* per port: the slot's fd
    lat,        \* per port: where its thread is
    stopping,   \* the server's stop flag
    silenced,   \* the ports shutdown() was called on
    signalled,  \* g_shutdown
    watching,   \* the tip watcher runs
    files       \* per descriptor: whose it is

poolVars == <<stage, held, code, slot, phase, fdOf, lat, stopping, silenced,
              signalled, watching, files>>
serverVars == <<slot, phase, fdOf, lat, stopping, silenced, files>>

NoFd == -1
Port == Ports[slot]

\* Mutant: the slots keep the zero that calloc left in them.
FreshSlotsZero == [p \in PortNames |-> 0]

FreshSlots == [p \in PortNames |-> NoFd]

InitPool ==
    /\ stage = "config" /\ held = {} /\ code = 0
    /\ slot = 1 /\ phase = "open"
    /\ fdOf = FreshSlots
    /\ lat = [p \in PortNames |-> "none"]
    /\ stopping = FALSE /\ silenced = {}
    /\ signalled = FALSE /\ watching = FALSE
    /\ files = [f \in 0..MaxFd |-> IF f = 0 THEN "stdin" ELSE "nobody"]

-----------------------------------------------------------------------------
(* main() up to the server: one stage after the other. *)

Proceed(here, next, opened) ==
    /\ stage = here /\ stage' = next
    /\ held' = held \cup opened
    /\ UNCHANGED <<code, serverVars, signalled, watching>>

\* An error exit, and what it closes on the way.
Quit(here, status, closed) ==
    /\ stage = here /\ stage' = "exited"
    /\ held' = held \ closed
    /\ code' = status
    /\ UNCHANGED <<serverVars, signalled, watching>>

\* proxy_config_load and the operator's address
LoadConfig ==
    Proceed("config", "clients", {}) \/ Quit("config", 2, {})

\* The three clients: general, long poll, submitblock.
MakeClients ==
    Proceed("clients", "ping", {"clients"}) \/ Quit("clients", 3, {"clients"})

\* Skipped if there are no credentials.
Ping ==
    Proceed("ping", "store", {}) \/ Quit("ping", 3, {"clients"})

OpenStore ==
    Proceed("store", "identity", {"store"}) \/ Quit("store", 4, {"clients"})

\* resolve_network and the published list of ports; no failure stops the pool.
RecordIdentity == Proceed("identity", "broadcast", {})

\* Without Redis the pool goes on.
OpenBroadcast ==
    Proceed("broadcast", "template", {"broadcast"}) \/ Proceed("broadcast", "template", {})

GetTemplate ==
    \/ Proceed("template", "job", {"template"})
    \/ Quit("template", 5, {"store", "clients"})

BuildJob ==
    \/ Proceed("job", "address", {"job"})
    \/ Quit("job", 6, {"template", "store", "clients"})

\* pool_btc_address, where a mode pays the pool; nothing is closed.
CheckPoolAddress ==
    Proceed("address", "serve", {}) \/ Quit("address", 2, {})

-----------------------------------------------------------------------------
(* Descriptors. *)

FreeFds == {f \in DOMAIN files : files[f] = "nobody"}
LowestFree == CHOOSE f \in FreeFds : \A g \in FreeFds : f <= g

Opened(who) == [files EXCEPT ![LowestFree] = who]

\* close() of a number, whoever has it.
Closed(f) == IF f = NoFd THEN files ELSE [files EXCEPT ![f] = "nobody"]

-----------------------------------------------------------------------------
(* stratum_server_start. *)

\* socket, bind and listen, and the thread.
BindPort ==
    /\ stage = "serve" /\ FreeFds # {}
    /\ fdOf' = [fdOf EXCEPT ![Port] = LowestFree]
    /\ files' = Opened(Port)
    /\ lat' = [lat EXCEPT ![Port] = "test"]
    /\ IF slot = Len(Ports) THEN stage' = "first" /\ UNCHANGED slot
       ELSE slot' = slot + 1 /\ UNCHANGED stage
    /\ UNCHANGED <<held, code, phase, stopping, silenced, signalled, watching>>

\* One of them fails: the socket is there, or not even that.
BindFails ==
    /\ stage = "serve"
    /\ \/ UNCHANGED <<fdOf, files>>
       \/ /\ FreeFds # {}
          /\ fdOf' = [fdOf EXCEPT ![Port] = LowestFree]
          /\ files' = Opened(Port)
    /\ stopping' = TRUE
    /\ stage' = "teardown" /\ slot' = 1 /\ phase' = "close"
    /\ UNCHANGED <<held, code, lat, silenced, signalled, watching>>

Ended(p) == lat[p] \in {"none", "done"}

\* bind_failed: here a slot is closed before its thread is joined.
CloseThenJoin ==
    /\ stage = "teardown"
    /\ \/ /\ phase = "close" /\ phase' = "join"
          /\ files' = Closed(fdOf[Port])
          /\ fdOf' = [fdOf EXCEPT ![Port] = NoFd]
          /\ UNCHANGED <<stage, held, code, slot>>
       \/ /\ phase = "join" /\ Ended(Port)
          /\ phase' = "close"
          /\ UNCHANGED <<files, fdOf>>
          /\ IF slot < Len(Ports) THEN slot' = slot + 1 /\ UNCHANGED <<stage, held, code>>
             ELSE /\ stage' = "exited" /\ code' = 7
                  /\ held' = held \ {"job", "template", "store", "clients"}
                  /\ UNCHANGED slot
    /\ UNCHANGED <<lat, stopping, silenced, signalled, watching>>

-----------------------------------------------------------------------------
(* The threads of the server, and the rest of the process. *)

Alive == stage \notin {"exited", "killed"}

ListenerTests(p) ==
    /\ Alive /\ lat[p] = "test"
    /\ lat' = [lat EXCEPT ![p] = IF stopping THEN "done" ELSE "poll"]
    /\ UNCHANGED <<stage, held, code, slot, phase, fdOf, stopping, silenced, signalled,
                   watching, files>>

\* poll() ends after LISTEN_POLL_MS, or because there is something to accept.
ListenerPolls(p) ==
    /\ Alive /\ lat[p] = "poll"
    /\ \E l \in {"test", "accept"} : lat' = [lat EXCEPT ![p] = l]
    /\ UNCHANGED <<stage, held, code, slot, phase, fdOf, stopping, silenced, signalled,
                   watching, files>>

\* A miner is accepted and served by a detached thread.
ListenerAccepts(p) ==
    /\ Alive /\ lat[p] = "accept"
    /\ fdOf[p] # NoFd /\ files[fdOf[p]] = p /\ p \notin silenced
    /\ FreeFds # {}
    /\ files' = Opened("miner")
    /\ lat' = [lat EXCEPT ![p] = "test"]
    /\ UNCHANGED <<stage, held, code, slot, phase, fdOf, stopping, silenced, signalled,
                   watching>>

AcceptFails(p) ==
    /\ Alive /\ lat[p] = "accept"
    /\ lat' = [lat EXCEPT ![p] = IF stopping THEN "done" ELSE "test"]
    /\ UNCHANGED <<stage, held, code, slot, phase, fdOf, stopping, silenced, signalled,
                   watching, files>>

\* A connection's thread ends, or could not be created.  Nobody joins it.
MinerLeaves ==
    /\ Alive
    /\ \E f \in DOMAIN files : files[f] = "miner" /\ files' = Closed(f)
    /\ UNCHANGED <<stage, held, code, slot, phase, fdOf, lat, stopping, silenced,
                   signalled, watching>>

\* Redis and SQLite open and close descriptors of their own.
OthersOpenOrClose ==
    /\ Alive /\ held \cap {"store", "broadcast"} # {}
    /\ \/ FreeFds # {} /\ files' = Opened("others")
       \/ \E f \in DOMAIN files : files[f] = "others" /\ files' = Closed(f)
    /\ UNCHANGED <<stage, held, code, slot, phase, fdOf, lat, stopping, silenced,
                   signalled, watching>>

-----------------------------------------------------------------------------
(* main() from the first job to the end. *)

\* The job goes to the server, or is dropped if it cannot carry a window;
\* the template is not needed any more.
FirstJob ==
    /\ stage = "first" /\ stage' = "signals"
    /\ held' = (held \ {"job", "template"}) \cup {"server"}
    /\ UNCHANGED <<code, serverVars, signalled, watching>>

StartWatcher ==
    /\ stage = "signals" /\ stage' = "up"
    /\ watching' = TRUE
    /\ UNCHANGED <<held, code, serverVars, signalled>>

\* SIGTERM or SIGINT: before the handlers are there it ends the process.
Signal ==
    /\ Alive /\ ~signalled
    /\ IF stage = "up"
       THEN signalled' = TRUE /\ UNCHANGED stage
       ELSE stage' = "killed" /\ UNCHANGED signalled
    /\ UNCHANGED <<held, code, serverVars, watching>>

WatcherEnds ==
    /\ stage = "up" /\ watching /\ signalled
    /\ watching' = FALSE
    /\ UNCHANGED <<stage, held, code, serverVars, signalled>>

\* The watcher is joined; stratum_server_stop begins.
Shutdown ==
    /\ stage = "up" /\ signalled /\ ~watching
    /\ stage' = "stop" /\ stopping' = TRUE
    /\ slot' = 1 /\ phase' = "shut"
    /\ UNCHANGED <<held, code, fdOf, lat, silenced, signalled, watching, files>>

StopsWith(next, closes) ==
    /\ phase' = next
    /\ IF closes THEN files' = Closed(fdOf[Port]) /\ fdOf' = [fdOf EXCEPT ![Port] = NoFd]
       ELSE UNCHANGED <<files, fdOf>>
    /\ UNCHANGED <<stage, slot>>

\* After the last slot the server is freed.
NextSlot ==
    IF slot < Len(Ports)
    THEN slot' = slot + 1 /\ phase' = "shut" /\ UNCHANGED stage
    ELSE stage' = "free" /\ UNCHANGED <<slot, phase>>

\* Mutant: the socket is closed as soon as it is shut down.
StopSlotClosesFirst ==
    /\ stage = "stop"
    /\ \/ /\ phase = "shut" /\ StopsWith("join", TRUE)
          /\ silenced' = silenced \cup {Port}
       \/ /\ phase = "join" /\ Ended(Port)
          /\ StopsWith("close", FALSE) /\ UNCHANGED silenced
       \/ /\ phase = "close"
          /\ NextSlot /\ UNCHANGED <<fdOf, files, silenced>>
    /\ UNCHANGED <<held, code, lat, stopping, signalled, watching>>

\* shutdown(), then join, then close().
StopSlot ==
    /\ stage = "stop"
    /\ \/ /\ phase = "shut" /\ StopsWith("join", FALSE)
          /\ silenced' = silenced \cup {Port}
       \/ /\ phase = "join" /\ Ended(Port)
          /\ StopsWith("close", TRUE) /\ UNCHANGED silenced
       \/ /\ phase = "close"
          /\ NextSlot /\ UNCHANGED <<fdOf, files, silenced>>
    /\ UNCHANGED <<held, code, lat, stopping, signalled, watching>>

Release(here, next, closed) ==
    /\ stage = here /\ stage' = next
    /\ held' = held \ closed
    /\ UNCHANGED <<code, serverVars, signalled, watching>>

\* stratum_server_free: the current job and the ring's, and the server.
FreeServer == Release("free", "flush", {"server"})

\* store_flush, the statistics and store_close
CloseStore == Release("flush", "close", {"store"})

CloseRest == Release("close", "exited", {"broadcast", "clients"})

NextPool ==
    \/ LoadConfig \/ MakeClients \/ Ping \/ OpenStore \/ RecordIdentity
    \/ OpenBroadcast \/ GetTemplate \/ BuildJob \/ CheckPoolAddress
    \/ BindPort \/ BindFails \/ CloseThenJoin
    \/ \E p \in PortNames :
          ListenerTests(p) \/ ListenerPolls(p) \/ ListenerAccepts(p) \/ AcceptFails(p)
    \/ MinerLeaves \/ OthersOpenOrClose
    \/ FirstJob \/ StartWatcher \/ Signal \/ WatcherEnds \/ Shutdown
    \/ StopSlot \/ FreeServer \/ CloseStore \/ CloseRest

PoolSpec == InitPool /\ [][NextPool]_poolVars
-----------------------------------------------------------------------------
\* The server closes no number that is not its own, and on a server that has
\* started none that a listener may still be polling or accepting on, although
\* another thread may be given the number at once.
OwnDescriptors ==
    /\ files[0] = "stdin"
    /\ \A p \in PortNames :
          Alive /\ ~Ended(p) /\ stage # "teardown" =>
              fdOf[p] # NoFd /\ files[fdOf[p]] = p

\* By whatever exit main leaves, no port is half open: nothing listens and no
\* listener runs; and the store was closed, which writes what was queued,
\* unless the pool's own address was refused.
NothingLeft ==
    stage = "exited" =>
        /\ \A p \in PortNames : Ended(p) /\ \A f \in DOMAIN files : files[f] # p
        /\ "store" \in held => code = 2

\* Both: stop, failed start and every error exit of main close what the server
\* opened, nothing of anybody else's and nothing still in use.
OrderlyEnd == OwnDescriptors /\ NothingLeft
=============================================================================
