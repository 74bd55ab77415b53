--------------------------- MODULE MCL1Validation ---------------------------
(* Instance of L1Validation for TLC: the longest distance, the bin with two    *)
(* producers and the bin with the additional requirement.                      *)
EXTENDS L1Validation

MCBins == {"H05", "H10", "H18"}
=============================================================================
