----------------------------- MODULE MCStratum -----------------------------
(* Instances of Stratum for TLC. *)
EXTENDS Stratum, TLC

Nothing == [i \in Inputs |-> 0]

\* A miner authorizes again, or asks for a difficulty, around a new job.
Renegotiating == [Nothing EXCEPT !["jobs"] = 2, !["accepts"] = 1, !["auths"] = 2,
                                 !["submits"] = 1, !["suggests"] = 1]

\* A retarget between two shares.
Retargeting == [Nothing EXCEPT !["jobs"] = 2, !["accepts"] = 1, !["auths"] = 1,
                               !["submits"] = 2, !["retargets"] = 1]

\* Late shares, spelled twice, for jobs that leave the ring or expire.
LateShares == [Nothing EXCEPT !["jobs"] = 3, !["accepts"] = 1, !["auths"] = 1,
                              !["submits"] = 2, !["ages"] = 1]

\* Two miners come and go, and one stalls, while a walk visits them.
ComingAndGoing == [Nothing EXCEPT !["jobs"] = 2, !["accepts"] = 2, !["auths"] = 2,
                                  !["closes"] = 1]

Stalling == [Nothing EXCEPT !["jobs"] = 1, !["accepts"] = 2, !["auths"] = 2,
                            !["closes"] = 1, !["stalls"] = 1]

\* More connections than the server takes.
Crowd == [Nothing EXCEPT !["accepts"] = 4, !["closes"] = 2]

MCScenarios == {Renegotiating, Retargeting, LateShares, ComingAndGoing, Stalling,
                Crowd}

MCNetDiff == [j \in 1..MaxJobs |-> 2]
=============================================================================
