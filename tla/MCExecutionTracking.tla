------------------------ MODULE MCExecutionTracking ------------------------
(* Instances of ExecutionTracking for TLC.  The word has 16 values (four     *)
(* lanes of two), the PC 16 and the data memory 8 addresses; the programs    *)
(* are all sequences over the instructions below.                            *)
EXTENDS TrackingInvariant

MCImm == {0, 1, 4, 8, 12}
MCSubImm == {12}

\* Loads with and without a dependent successor, a load of x0, an instruction
\* whose raw rs2 merely looks like the load's rd, a store, a taken and a data
\* dependent branch.
StallProgram ==
    {IType("LW", 1, 0, 0), IType("LW", 0, 1, 4), Add(2, 1, 1),
     IType("ADDI", 2, 0, 1), Sw(1, 0, 4), BType("BNE", 1, 2, 8)}

\* Jumps behind loads, a taken branch, and a store that can be on the wrong path.
ControlProgram ==
    {UType("JAL", 1, 1, 2, 8), IType("JALR", 2, 1, 4), IType("LW", 1, 0, 0),
     Sw(1, 0, 0), BType("BEQ", 1, 1, 8)}

\* What the frozen RTL gets wrong, next to the instructions that show it.
DefectProgram ==
    {IType("LW", 1, 0, 0), IType("ADDI", 2, 0, 1), UType("LUI", 1, 0, 0, 8),
     Add(2, 1, 1)}
=============================================================================
