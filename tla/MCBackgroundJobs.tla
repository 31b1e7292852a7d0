-------------------------- MODULE MCBackgroundJobs --------------------------
(* Instances of BackgroundJobs for TLC.                                    *)
EXTENDS BackgroundJobs, TLC

CONSTANTS j1, j2, alice, bob, w1, w2, r1, r2

\* Every job is submitted by alice; bob only makes requests.
AliceSubmits == [j \in Jobs |-> alice]
=============================================================================
