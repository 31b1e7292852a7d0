------------------------- MODULE MCGenerationTasks -------------------------
(* Instances of GenerationTasks for TLC.                                   *)
EXTENDS GenerationTasks, TLC

CONSTANTS alice, bob, root

Authors == [t \in Tasks |-> IF t = 2 THEN bob ELSE alice]
=============================================================================
