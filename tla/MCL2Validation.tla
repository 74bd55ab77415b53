--------------------------- MODULE MCL2Validation ---------------------------
(* Instances of L2Validation for TLC: the cfg files give every constant.      *)
EXTENDS L2Validation
=============================================================================
