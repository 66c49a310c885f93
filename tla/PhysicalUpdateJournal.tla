----------------------- MODULE PhysicalUpdateJournal -----------------------
(* The record of one physical-pilot update and its transitions             *)
(* (src/src/apx_physical_update_journal.py), with the conventions of       *)
(* CleanInstallJournal.                                                    *)
EXTENDS Naturals

EffectCount == 10
ActivationBoundary == 4

Terminal == {"installed-rollback-retained", "preserved-uncertain"}
Statuses == Terminal \cup
    {"import-approved", "effect-prepared", "importing-and-verifying",
     "verified-awaiting-activation-approval", "activation-approved",
     "activating-and-verifying"}

Record == [kind : {"update"}, completed : 0..EffectCount, prepared : BOOLEAN,
           approved : BOOLEAN, status : Statuses]

StatusOf(r) ==
    IF r.prepared THEN "effect-prepared"
    ELSE IF r.completed = 0 THEN "import-approved"
    ELSE IF r.completed < ActivationBoundary THEN "importing-and-verifying"
    ELSE IF r.completed = ActivationBoundary
    THEN IF r.approved THEN "activation-approved"
                       ELSE "verified-awaiting-activation-approval"
    ELSE IF r.completed < EffectCount THEN "activating-and-verifying"
    ELSE "installed-rollback-retained"

(* validate_update_record *)
Valid(r) ==
    \/ r.status = "preserved-uncertain"
    \/ /\ r.status = StatusOf(r)
       /\ r.prepared => r.completed < EffectCount
       /\ r.completed > ActivationBoundary => r.approved
       /\ r.prepared /\ r.completed = ActivationBoundary => r.approved

New == [kind |-> "update", completed |-> 0, prepared |-> FALSE,
        approved |-> FALSE, status |-> "import-approved"]
-----------------------------------------------------------------------------
PrepareNextEffect(r) ==
    {next \in {[r EXCEPT !.prepared = TRUE, !.status = "effect-prepared"]} :
        /\ ~r.prepared
        /\ r.status \notin Terminal
        /\ r.completed < EffectCount
        /\ r.completed >= ActivationBoundary => r.approved}

RecordEffectSuccess(r) ==
    {next \in {[r EXCEPT !.completed = @ + 1, !.prepared = FALSE,
                 !.status =
                   IF r.completed + 1 = ActivationBoundary
                   THEN "verified-awaiting-activation-approval"
                   ELSE IF r.completed + 1 = EffectCount
                   THEN "installed-rollback-retained"
                   ELSE IF r.completed + 1 < ActivationBoundary
                   THEN "importing-and-verifying"
                   ELSE "activating-and-verifying"]} :
        r.status = "effect-prepared" /\ r.prepared}

BindActivationApproval(r) ==
    {next \in {[r EXCEPT !.approved = TRUE, !.status = "activation-approved"]} :
        /\ r.status = "verified-awaiting-activation-approval"
        /\ ~r.prepared
        /\ ~r.approved}

MarkUncertain(r) ==
    {next \in {[r EXCEPT !.status = "preserved-uncertain"]} :
        r.status \notin Terminal}

Steps(r) == PrepareNextEffect(r) \cup RecordEffectSuccess(r)
              \cup BindActivationApproval(r) \cup MarkUncertain(r)
-----------------------------------------------------------------------------
(* mutant of Class: staging is recognized before a prepared effect is *)
ClassByProgress(r) ==
    IF r.status = "installed-rollback-retained"
    THEN "complete-with-rollback-retained"
    ELSE IF r.status = "preserved-uncertain" THEN "preserve-and-inspect"
    ELSE IF r.completed \in 1..(ActivationBoundary - 1)
    THEN "preserve-private-staging"
    ELSE IF r.prepared THEN "preserve-effect-outcome-uncertain"
    ELSE IF r.completed = 0 THEN "no-effect-recorded"
    ELSE IF r.completed = ActivationBoundary /\ ~r.approved
    THEN "verified-awaiting-new-activation-approval"
    ELSE "preserve-partial-activation-with-rollback"

(* assess_update_recovery *)
Class(r) ==
    IF r.status = "installed-rollback-retained"
    THEN "complete-with-rollback-retained"
    ELSE IF r.prepared THEN "preserve-effect-outcome-uncertain"
    ELSE IF r.status = "preserved-uncertain" THEN "preserve-and-inspect"
    ELSE IF r.completed = 0 THEN "no-effect-recorded"
    ELSE IF r.completed < ActivationBoundary THEN "preserve-private-staging"
    ELSE IF r.completed = ActivationBoundary /\ ~r.approved
    THEN "verified-awaiting-new-activation-approval"
    ELSE "preserve-partial-activation-with-rollback"

ContinuationAllowed(r) == Class(r) = "preserve-private-staging"

(* The approval that effect k needs is bound *)
Approved(r, k) == k > ActivationBoundary => r.approved
=============================================================================
