-------------------------- MODULE EpochAccounting --------------------------
(***************************************************************************)
(* What a campaign promises about its instruction count, whatever streams  *)
(* the instructions: they are accepted one at a time; every one of them is *)
(* charged to exactly one epoch; an epoch is closed at an instruction      *)
(* boundary and, unless the budget cuts it short, holds at least the       *)
(* nominal number of instructions; the campaign ends at the budget, with   *)
(* every accepted instruction charged.                                     *)
(***************************************************************************)
EXTENDS Naturals

VARIABLES
    nominal,     \* nominal_batch
    budget,      \* instruction_budget
    accepted,    \* window.accepted_count
    charged,     \* telemetry.closed_epoch_executed_instructions
    epochs,      \* telemetry.completed_epochs
    finished     \* hard_cap_reached

accountingVars == <<nominal, budget, accepted, charged, epochs, finished>>

AccountingInit ==
    /\ nominal \in Nat \ {0} /\ budget \in Nat \ {0}
    /\ accepted = 0 /\ charged = 0 /\ epochs = 0 /\ finished = FALSE

\* An instruction in the middle of an epoch.
Execute ==
    /\ accepted + 1 < budget
    /\ accepted' = accepted + 1
    /\ UNCHANGED <<nominal, budget, charged, epochs, finished>>

\* The last instruction of an ordinary epoch.
CloseEpoch ==
    /\ accepted + 1 < budget
    /\ accepted + 1 - charged >= nominal
    /\ accepted' = accepted + 1 /\ charged' = accepted + 1 /\ epochs' = epochs + 1
    /\ UNCHANGED <<nominal, budget, finished>>

\* The last instruction of the campaign; its epoch may be short.
Finish ==
    /\ ~finished /\ accepted + 1 = budget
    /\ accepted' = budget /\ charged' = budget /\ epochs' = epochs + 1
    /\ finished' = TRUE
    /\ UNCHANGED <<nominal, budget>>

AccountingNext == Execute \/ CloseEpoch \/ Finish

AccountingSpec ==
    AccountingInit /\ [][AccountingNext]_accountingVars /\ WF_accountingVars(AccountingNext)
=============================================================================
