--------------------------- MODULE MCEpochLearning ---------------------------
(* Instance of EpochLearning for TLC: the smallest register file, an arm for   *)
(* each shape of template, epochs of no, one and two blocks, greedy and        *)
(* exploring engines, and budgets that cut epochs at every word.               *)
EXTENDS EpochLearning

MCArms == {"A1", "A4", "A7", "A8", "A9"}
\* Three epochs of a delimiter alone, and epochs with blocks.
MCConfigs ==
    [nominal : {1}, budget : {3}, explores : BOOLEAN]
        \cup [nominal : {3, 5}, budget : 14 .. 16, explores : BOOLEAN]
=============================================================================
