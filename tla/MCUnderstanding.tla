--------------------------- MODULE MCUnderstanding ---------------------------
(* An instance of Understanding for TLC.                                   *)
EXTENDS Understanding, TLC

CONSTANTS f1, f2
=============================================================================
