------------------------- MODULE ExecutionTracking -------------------------
(***************************************************************************)
(* The cocotb observation loop around the pipeline, with the two objects   *)
(* that give the DUT's instructions an identity the DUT does not have:     *)
(* ExecutionEventAdapter (week5/impl/signal_adapter.py), which turns an    *)
(* instruction leaving A for B into a numbered ExecutionEvent, and         *)
(* RetireMonitor (week7/retire_monitor.py), which shifts the numbers       *)
(* through B, C and D and emits a RetireEvent at the falling edge.         *)
(*                                                                         *)
(* Both read the DUT after the edge has settled (ReadOnly), so an action   *)
(* here is an edge of the clock together with what the loop does after it. *)
(***************************************************************************)
EXTENDS RV32Pipeline

CONSTANTS
    NCycles,       \* cycles the loop runs (N_CYCLES)
    ProgramCycles  \* bound: cycles that still fetch; then the program has ended

ASSUME CyclesAssumption == NCycles \in Nat /\ ProgramCycles \in Nat

VARIABLES
    cycle,          \* the loop's cycle number
    pending,        \* PendingAdmission waiting for the rising edge, or NoPending
    stalledId,      \* adapter._stalled_identity
    stallCount,     \* adapter._stall_count
    index,          \* adapter._instruction_index
    event,          \* the ExecutionEvent of the last rising edge, or NoEvent
    bTag, cTag, dTag,   \* monitor._b_tag, _c_tag, _d_tag
    lastRetired,    \* monitor._last_retired_instruction_id
    retired,        \* what observe_falling_edge returned in this cycle
    protocolError,  \* RetireProtocolError was raised: the loop has ended
    resume          \* ghost: where the DUT's program continues after C

adapterVars == <<pending, stalledId, stallCount, index, event>>
monitorVars == <<bTag, cTag, dTag, lastRetired, retired, protocolError>>
vars == <<pipeVars, cycle, adapterVars, monitorVars, resume>>

NoPending == [pc |-> 0, instr |-> NoInstr, stalls |-> 0]
NoIdentity == [pc |-> 0, instr |-> NoInstr]

\* An event's id is positive, so 0 stands for None.
NoEvent == [id |-> 0, cycle |-> 0, pc |-> 0, instr |-> NoInstr,
            stalls |-> 0, fa |-> "RF", fb |-> "RF"]
NoTag == [id |-> 0, cycle |-> 0, pc |-> 0, instr |-> NoInstr]

\* RetireTag.from_execution_event.  The tag keeps the event's cycle as well, so
\* that a property can say how long an instruction has been in the pipeline.
TagOf(e) == [id |-> e.id, cycle |-> e.cycle, pc |-> e.pc, instr |-> e.instr]

NoRetire == [tag |-> NoTag, regwrite |-> FALSE, rd |-> 0, wdata |-> 0]

TrackInit ==
    /\ PipeInit
    /\ cycle = 1
    /\ pending = NoPending /\ stalledId = NoIdentity /\ stallCount = 0
    /\ index = 0 /\ event = NoEvent
    /\ bTag = NoTag /\ cTag = NoTag /\ dTag = NoTag
    /\ lastRetired = 0 /\ retired = NoRetire /\ protocolError = FALSE
    /\ resume = 0

-----------------------------------------------------------------------------
(* After the falling edge.                                                  *)

\* Fault: the tag stays in D after it was observed.
ObserveWithoutDrop ==
    /\ retired' = IF dTag = NoTag THEN NoRetire
                  ELSE [tag |-> dTag, regwrite |-> RegWrite(D.op),
                        rd |-> D.rd, wdata |-> D.val]
    /\ lastRetired' = IF dTag = NoTag THEN lastRetired ELSE dTag.id
    /\ protocolError' = (dTag = NoTag /\ RegWrite(D.op))
    /\ UNCHANGED dTag

\* RetireMonitor.observe_falling_edge.  A D tag yields exactly one event and is
\* dropped; a write without a tag, or a tag out of order, raises.
ObserveFallingEdge ==
    IF dTag = NoTag
    THEN /\ retired' = NoRetire
         /\ protocolError' = RegWrite(D.op)
         /\ UNCHANGED <<dTag, lastRetired>>
    ELSE IF dTag.id # lastRetired + 1
    THEN /\ protocolError' = TRUE
         /\ retired' = NoRetire
         /\ UNCHANGED <<dTag, lastRetired>>
    ELSE /\ retired' = [tag |-> dTag, regwrite |-> RegWrite(D.op),
                        rd |-> D.rd, wdata |-> D.val]
         /\ lastRetired' = dTag.id
         /\ dTag' = NoTag
         /\ protocolError' = FALSE

\* Fault: the history survives the acceptance or the flush.
KeepStallHistory == UNCHANGED <<stalledId, stallCount>>

\* ExecutionEventAdapter._clear_stall_history.
ClearStallHistory == stalledId' = NoIdentity /\ stallCount' = 0

\* ExecutionEventAdapter.observe_pre_edge on the settled A, Reg_Stall, PcSel and
\* reset.  The stall count is kept per (pc, instruction).
ObservePreEdge ==
    IF reset' \/ PcSel \/ A.instr = NoInstr
    THEN ClearStallHistory /\ pending' = NoPending
    ELSE IF RegStall
    THEN /\ stallCount' = IF stalledId = A THEN stallCount + 1 ELSE 1
         /\ stalledId' = A
         /\ pending' = NoPending
    ELSE /\ pending' = [pc |-> A.pc, instr |-> A.instr,
                        stalls |-> IF stalledId = A THEN stallCount ELSE 0]
         /\ ClearStallHistory

TrackFallingEdge(r) ==
    /\ ~protocolError
    /\ cycle <= NCycles
    /\ FallingEdge(r)
    /\ ObserveFallingEdge
    /\ ObservePreEdge
    /\ UNCHANGED <<cycle, index, event, bTag, cTag, resume>>

-----------------------------------------------------------------------------
(* After the rising edge.                                                   *)

\* ExecutionEventAdapter.finalize_post_edge: the accepted instruction is in B
\* now, and the forwarding selects are its own.
FinalizePostEdge ==
    IF pending = NoPending
    THEN event' = NoEvent /\ UNCHANGED index
    ELSE /\ index' = index + 1
         /\ event' = [id |-> index + 1, cycle |-> cycle,
                      pc |-> pending.pc, instr |-> pending.instr,
                      stalls |-> pending.stalls,
                      fa |-> ForwardA', fb |-> ForwardB']

\* Fault: the tags move only when an instruction is accepted.
AdvanceOnAcceptOnly ==
    IF event' = NoEvent THEN UNCHANGED <<bTag, cTag, dTag>>
    ELSE dTag' = cTag /\ cTag' = bTag /\ bTag' = TagOf(event')

\* RetireMonitor.advance_pipeline.
AdvancePipeline ==
    /\ dTag' = cTag
    /\ cTag' = bTag
    /\ bTag' = IF event' = NoEvent THEN NoTag ELSE TagOf(event')

\* Fault: the monitor's tags survive the reset.
ResetAdapterOnly ==
    /\ index' = 0 /\ event' = NoEvent /\ lastRetired' = 0
    /\ bTag' = NoTag /\ dTag' = cTag /\ cTag' = bTag

\* Fault: the monitor is reset, the adapter keeps numbering.
ResetMonitorOnly ==
    /\ UNCHANGED index /\ event' = NoEvent /\ lastRetired' = 0
    /\ bTag' = NoTag /\ cTag' = NoTag /\ dTag' = NoTag

\* adapter.reset() and monitor.reset() after a reset-active rising edge.
ResetTrackers ==
    /\ index' = 0 /\ event' = NoEvent /\ lastRetired' = 0
    /\ bTag' = NoTag /\ cTag' = NoTag /\ dTag' = NoTag

\* Ghost: B is resolved in the cycle that ends here.
Resolve ==
    resume' = IF reset THEN 0
              ELSE IF bTag = NoTag THEN resume
              ELSE IF PcSel THEN BrPC % PcSize
              ELSE (B.pc + 4) % PcSize

\* Past the end of the program, instruction memory holds zero words.
FetchedWord(i) == i \in IF cycle < ProgramCycles THEN Fetchable ELSE {NoInstr}

TrackRisingEdge(i) ==
    /\ ~protocolError
    /\ FetchedWord(i)
    /\ RisingEdge(i)
    /\ IF reset THEN ResetTrackers /\ stalledId' = NoIdentity /\ stallCount' = 0
       ELSE /\ FinalizePostEdge /\ AdvancePipeline
            /\ UNCHANGED <<lastRetired, stalledId, stallCount>>
    /\ cycle' = IF reset THEN 0 ELSE cycle + 1
    /\ pending' = NoPending
    /\ retired' = NoRetire
    /\ Resolve
    /\ UNCHANGED protocolError

TrackNext ==
    \/ \E r \in BOOLEAN : TrackFallingEdge(r)
    \/ \E i \in Fetchable \cup {NoInstr} : TrackRisingEdge(i)

TrackSpec == TrackInit /\ [][TrackNext]_vars

-----------------------------------------------------------------------------
(* Types.                                                                   *)

StageB == [op : Op \cup {"NONE"}, rd : Reg, rs1 : Reg, rs2 : Reg,
           imm : Imm, pc : FetchPc, v1 : Word, v2 : Word]
StageC == [op : Op \cup {"NONE"}, rd : Reg, alu : Word, v2 : Word, res : Word]
StageD == [op : Op \cup {"NONE"}, rd : Reg, val : Word]

PipeTypeOK ==
    /\ phase \in {"fall", "rise"}
    /\ pc \in FetchPc
    /\ A \in [pc : FetchPc, instr : InstrOrNone]
    /\ B \in StageB /\ C \in StageC /\ D \in StageD
    /\ rf \in [Reg -> Word]
    /\ dmem \in [0 .. DmSize - 1 -> Lane]
    /\ reset \in BOOLEAN /\ held \in 0 .. ResetCycles /\ resets \in 0 .. MaxResets

Sel == {"RF", "EX_MEM", "MEM_WB"}
Tag == [id : Nat, cycle : Nat, pc : FetchPc, instr : InstrOrNone]

TrackTypeOK ==
    /\ PipeTypeOK
    /\ cycle \in Nat
    /\ pending \in [pc : FetchPc, instr : InstrOrNone, stalls : Nat]
    /\ stalledId \in [pc : FetchPc, instr : InstrOrNone] /\ stallCount \in Nat
    /\ index \in Nat
    /\ event \in [id : Nat, cycle : Nat, pc : FetchPc, instr : InstrOrNone,
                  stalls : Nat, fa : Sel, fb : Sel]
    /\ bTag \in Tag /\ cTag \in Tag /\ dTag \in Tag
    /\ lastRetired \in Nat
    /\ retired \in [tag : Tag, regwrite : BOOLEAN, rd : Reg, wdata : Word]
    /\ protocolError \in BOOLEAN
    /\ resume \in FetchPc

-----------------------------------------------------------------------------
(* What the tracking must get right.                                        *)

Live(t) == t # NoTag
Count(t) == IF Live(t) THEN 1 ELSE 0

\* The identities that the monitor carries are those of the instructions that
\* physically sit in the stages, and a stage without one holds a bubble
\* (RegWrite and Curr_Instr are no valid bits: retire_monitor.py).  A stall, a
\* flush and a reset each move the two sides by different rules.
StageIdentity ==
    /\ bTag.instr.op = B.op /\ cTag.instr.op = C.op
    /\ phase = "fall" => dTag.instr.op = D.op
    /\ Live(bTag) => /\ B.pc = bTag.pc /\ B.rd = bTag.instr.rd
                     /\ B.rs1 = bTag.instr.rs1 /\ B.rs2 = bTag.instr.rs2
                     /\ B.imm = bTag.instr.imm
    /\ Live(cTag) => C.rd = cTag.instr.rd
    /\ Live(dTag) => D.rd = dTag.instr.rd

\* RetireMonitor never raises: no write-back without a tag, no tag out of order,
\* whatever mix of stalls, redirects and resets preceded.
MonitorAccepts == ~protocolError

\* The numbers in flight are exactly those between the last retirement and the
\* last acceptance, oldest deepest: no instruction is lost, retired twice or
\* overtaken.
ProgramOrder ==
    /\ Live(dTag) => dTag.id = lastRetired + 1
    /\ Live(cTag) => cTag.id = lastRetired + Count(dTag) + 1
    /\ Live(bTag) => bTag.id = lastRetired + Count(dTag) + Count(cTag) + 1
    /\ index = lastRetired + Count(dTag) + Count(cTag) + Count(bTag)

\* An instruction waits in A for at most one cycle, and then right behind the
\* load whose destination one of its raw fields names: the interlock never
\* lasts longer and never holds an instruction for any other reason.
SingleStall ==
    /\ stallCount <= 1
    /\ pending.stalls # 0 =>
        /\ pending.stalls = 1
        /\ MemRead(C.op)
        /\ C.rd \in {pending.instr.rs1, pending.instr.rs2}
        /\ ~Live(bTag)

\* RETIRE_LATENCY: every retirement is observed three cycles after acceptance,
\* also around stalls, flushes and resets.
RetireLatency == Live(retired.tag) => cycle = retired.tag.cycle + 3

\* The accepted stream follows the control flow that the DUT itself resolved:
\* the two instructions fetched behind a taken branch or jump are never
\* accepted, a redirect is never lost to a stall, and none is taken twice.
ControlContinuity ==
    pending # NoPending =>
        pending.pc = IF Live(bTag) THEN (bTag.pc + 4) % PcSize ELSE resume

\* Outside reset, the register file and the data memory change only on behalf
\* of an instruction that the stack knows: the write is the one reported as
\* retired, the store belongs to the tag in C.  A wrong-path instruction has no
\* side effect.
NoSilentSideEffect ==
    [][ /\ rf' # rf /\ ~reset =>
             /\ retired'.regwrite
             /\ rf' = [rf EXCEPT ![retired'.rd] = retired'.wdata]
        /\ dmem' # dmem => cTag.instr.op = "SW" ]_vars

\* Reset boundary (test_reset_boundary_live.py): after the first reset-active
\* rising edge nothing of the old program is left, neither in the stages nor in
\* the trackers, so no instruction from before the reset can retire after it.
ResetForgets ==
    reset /\ held > 0 =>
        /\ ~Live(bTag) /\ ~Live(cTag) /\ ~Live(dTag)
        /\ B = BubbleB /\ C = BubbleC /\ D = BubbleD
        /\ pc = 0 /\ index = 0 /\ lastRetired = 0

-----------------------------------------------------------------------------
(* A statement of the repository that the frozen RTL does not keep: a run   *)
(* of its own finds it violated.  The other known defects are GoldenLockstep's *)
(* defects.                                                                  *)

\* HAZARD_TRUTH_TABLE.md, H11 and H13: the neighbour of a LUI or AUIPC receives
\* its architectural result, that is, EX/MEM forwards what will be written back.
ForwardsTheResult ==
    event # NoEvent =>
        /\ UsesRs1(event.instr.op) /\ ForwardA = "EX_MEM" => FAmuxResult = C.res
        /\ UsesRs2(event.instr.op) /\ ForwardB = "EX_MEM" => FBmuxResult = C.res
=============================================================================
