-------------------------- MODULE MCVariationBatch --------------------------
(* Instances of VariationBatch for TLC.                                    *)
EXTENDS VariationBatch, TLC

CONSTANTS v1, v2, v3
=============================================================================
