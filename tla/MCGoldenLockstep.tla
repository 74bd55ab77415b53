-------------------------- MODULE MCGoldenLockstep --------------------------
(* Instances of GoldenLockstep for TLC: all programs over a few instructions *)
(* chosen per run so that the case the run is about happens often.  The word *)
(* has 16 values (four lanes of two); 12 is -4 and 15 is -1.                 *)
EXTENDS GoldenLockstep

MCImm == {0, 1, 4, 8, 12, 15}

(* Everything here is word aligned, so that no run of it meets a defect:     *)
(* every value, address and byte is compared with the golden model.          *)
DataSubImm == {15}
DataProgram ==
    {IType("ADDI", 1, 0, 4), IType("ADDI", 2, 1, 8), Add(1, 1, 2),
     IType("LW", 1, 0, 4), IType("LW", 2, 1, 0), Sw(2, 0, 4), Sw(1, 2, 0)}

(* Branches of both signs, taken and not, both jumps, links that are read at *)
(* once, a load that feeds a branch.  The fetch PC has 8 values, the word    *)
(* 16: targets are cut.                                                      *)
ControlSubImm == {15}
ControlProgram ==
    {IType("ADDI", 1, 1, 4), IType("ADDI", 2, 1, 12), BType("BEQ", 1, 2, 8),
     BType("BLT", 2, 1, 8), BType("BGEU", 1, 2, 12),
     UType("JAL", 1, 0, 0, 8), IType("JALR", 2, 1, 8), IType("LW", 2, 0, 4)}

(* Each documented defect next to the instructions that expose it.           *)
DefectSubImm == {12}
DefectProgram ==
    {UType("LUI", 1, 0, 0, 8), UType("AUIPC", 2, 1, 1, 4), IType("ADDI", 0, 1, 1),
     IType("ADDI", 2, 1, 12), Add(1, 1, 2), IType("LW", 0, 0, 0),
     IType("LW", 1, 0, 1), Sw(1, 2, 0), IType("JALR", 1, 1, 1)}
=============================================================================
