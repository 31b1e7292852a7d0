-------------------------- MODULE MCArtifactStore ---------------------------
(* Instances of ArtifactStore for TLC.                                     *)
EXTENDS ArtifactStore

CONSTANTS w1, w2, i1, i2, p1, p2
=============================================================================
