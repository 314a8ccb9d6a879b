----------------------------- MODULE MCServices ----------------------------
(* Five components that share no state, for TLC: a behaviour is one of one   *)
(* component, chosen at the start, while the others stay where they began.   *)
(* The state spaces add up instead of multiplying, and no property of one    *)
(* can be met or missed through another.                                     *)
EXTENDS PayoutQueue, ShareWindow, DedupeIndex, Difficulty, PpsRate

VARIABLE part

\* PayoutQueue, with real bytes: 31 for a P2WPKH output, 43 for a taproot one,
\* 134 for a transaction with the default tag and a witness commitment.
\* One worker is paid to a taproot address.
MCOutputBytes == [w \in Workers |-> IF w = 3 THEN 43 ELSE 31]

\* Five miners, the last one below the floor, or nobody yet.
MCWindows == {<<8, 4, 3, 2, 1>>, <<0, 0, 0, 0, 0>>}

\* Room for three payouts; rented ports beside a roomier one; the backend's
\* coinbase.
MCSetups ==
    {[ceilings |-> {300}, fromTemplate |-> FALSE, envelope |-> 134, guess |-> 160],
     [ceilings |-> {230, 280, 340}, fromTemplate |-> FALSE, envelope |-> 134,
      guess |-> 160],
     [ceilings |-> {300}, fromTemplate |-> TRUE, envelope |-> 134, guess |-> 298]}

\* The guesses of these setups leave room for the largest claim.
ASSUME MCReservedFit == ReservedFit

\* Blocks differ in nothing but their hash.
HashSymmetry == Permutations(Hashes)

\* ShareWindow: a first batch of one row and a window of five make the walk
\* grow its batch once or twice over four shares.
MCAssigned == 1 :> 1 @@ 2 :> 3 @@ 3 :> 2

\* Difficulty: a bare line, a floor that is also the start, a floor above the
\* start, and one above the ceiling; requests capped, or none and no vardiff.
MCLines ==
    {[min |-> 0, initial |-> 0, max |-> 0],  [min |-> 8,  initial |-> 0, max |-> 16],
     [min |-> 8, initial |-> 4, max |-> 0],  [min |-> 32, initial |-> 4, max |-> 16]}
MCServers ==
    {[initial |-> 8, min |-> 1, max |-> 32, cap |-> 16, vardiff |-> TRUE],
     [initial |-> 8, min |-> 1, max |-> 0,  cap |-> 0,  vardiff |-> FALSE]}

\* PpsRate: a derived and an overridden rate, with and without a floor.
MCPpsTemplates == {[net |-> 4, value |-> 1200], [net |-> 10, value |-> 1200]}
MCPpsConfigs ==
    {[override |-> 0,   feeBps |-> 200, minNet |-> 8, interval |-> 10, refuse |-> TRUE],
     [override |-> 500, feeBps |-> 200, minNet |-> 0, interval |-> 10, refuse |-> TRUE]}

\* What may differ at the start differs only for the component chosen.
AtRest == part = "dedupe" \/ \A k \in DOMAIN home : home[k] = 0

QueueAtRest == part = "queue" \/ setup = CHOOSE s \in Setups : TRUE

SettingsAtRest ==
    part = "difficulty" \/ /\ srv = CHOOSE s \in Servers : TRUE
                           /\ pol = PolicyOf(srv, [min |-> 0, initial |-> 0, max |-> 0])

PricesAtRest == part = "pps" \/ (pps = (CHOOSE g \in PpsConfigs : TRUE) /\ rate > 0)

ServicesInit ==
    /\ part \in {"queue", "window", "dedupe", "difficulty", "pps"}
    /\ Init /\ QueueAtRest
    /\ InitWindow
    /\ InitDedupe /\ AtRest
    /\ InitDifficulty /\ SettingsAtRest
    /\ InitPps /\ PricesAtRest

OnlyQueue ==
    /\ part = "queue" /\ Next
    /\ UNCHANGED <<windowVars, dedupeVars, difficultyVars, ppsVars>>
OnlyWindow ==
    /\ part = "window" /\ NextWindow
    /\ UNCHANGED <<vars, dedupeVars, difficultyVars, ppsVars>>
OnlyDedupe ==
    /\ part = "dedupe" /\ NextDedupe
    /\ UNCHANGED <<vars, windowVars, difficultyVars, ppsVars>>
OnlyDifficulty ==
    /\ part = "difficulty" /\ NextDifficulty
    /\ UNCHANGED <<vars, windowVars, dedupeVars, ppsVars>>
OnlyPps ==
    /\ part = "pps" /\ NextPps
    /\ UNCHANGED <<vars, windowVars, dedupeVars, difficultyVars>>

ServicesNext ==
    /\ OnlyQueue \/ OnlyWindow \/ OnlyDedupe \/ OnlyDifficulty \/ OnlyPps
    /\ UNCHANGED part

servicesVars == <<part, vars, windowVars, dedupeVars, difficultyVars, ppsVars>>

ServicesSpec == ServicesInit /\ [][ServicesNext]_servicesVars
=============================================================================
