---------------------------- MODULE MCBilledCall ----------------------------
(* Instances of BilledCall for TLC.                                        *)
EXTENDS BilledCall, TLC

CONSTANTS c1, c2, c3, alice, bob, modelark

\* Two calls of one remote principal that do not fit the limit together with
\* their estimates of 2 and 1 units, and a call of somebody else.
TwoOwners   == c1 :> alice @@ c2 :> alice @@ c3 :> bob
OneOwner    == [c \in Calls |-> alice]
OneProvider == [c \in Calls |-> modelark]
Estimates   == [c \in Calls |-> IF c = c1 THEN 2 ELSE 1]

\* Failures that leave no doubt, or that are reported as ambiguous.
HonestOutcomes == {"ok", "client_error", "throttled", "server_error",
                   "timeout", "connect_error"}
=============================================================================
