----------------------------- MODULE MCL1Hazards -----------------------------
(* One instruction of every class that the twenty rows tell apart, over two   *)
(* registers.  Almost every value is zero, so that the histories and not the  *)
(* data make up the states.  The branch goes to the next word, so that a wrong *)
(* decision costs cycles and not the path.                                   *)
EXTENDS L1Hazards

MCImm == {0, 4}
MCSubImm == {}

L1Program ==
    {IType("ADDI", 0, 0, 0), IType("ADDI", 1, 1, 0), IType("ADDI", 2, 1, 0), Add(1, 1, 2),
     IType("LW", 1, 0, 0), IType("LW", 0, 0, 0), Sw(1, 0, 0),
     UType("LUI", 1, 0, 1, 0), UType("AUIPC", 1, 0, 2, 0),
     UType("JAL", 2, 1, 0, 4), BType("BEQ", 1, 0, 4)}
=============================================================================
