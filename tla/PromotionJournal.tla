-------------------------- MODULE PromotionJournal --------------------------
(* The record of one release promotion and its transitions                 *)
(* (src/src/apx_release_promotion.py), with the conventions of             *)
(* CleanInstallJournal.                                                    *)
EXTENDS Naturals

EffectCount == 10
ImportStepCount == 4
VerificationStepCount == 8

Statuses == {"reserved", "effect-prepared", "importing", "quarantined",
             "verifying", "verified-awaiting-admission", "admitting",
             "admitted", "incomplete"}

Record == [kind : {"promotion"}, completed : 0..EffectCount,
           prepared : BOOLEAN, approved : BOOLEAN, status : Statuses]

(* _status_for *)
StatusFor(completed, prepared) ==
    IF prepared THEN "effect-prepared"
    ELSE IF completed = 0 THEN "reserved"
    ELSE IF completed < ImportStepCount THEN "importing"
    ELSE IF completed = ImportStepCount THEN "quarantined"
    ELSE IF completed < VerificationStepCount THEN "verifying"
    ELSE IF completed = VerificationStepCount THEN "verified-awaiting-admission"
    ELSE IF completed < EffectCount THEN "admitting"
    ELSE "admitted"

(* validate_promotion_record *)
Valid(r) ==
    /\ r.status \in {"incomplete", StatusFor(r.completed, r.prepared)}
    /\ r.prepared => r.completed < EffectCount
    /\ r.completed > VerificationStepCount => r.approved
    /\ r.approved => r.completed >= VerificationStepCount

New == [kind |-> "promotion", completed |-> 0, prepared |-> FALSE,
        approved |-> FALSE, status |-> "reserved"]
-----------------------------------------------------------------------------
PrepareNextStep(r) ==
    {next \in {[r EXCEPT !.prepared = TRUE, !.status = "effect-prepared"]} :
        /\ r.status \notin {"admitted", "incomplete"}
        /\ ~r.prepared
        /\ r.completed < EffectCount
        /\ r.completed >= VerificationStepCount => r.approved}

RecordStepSuccess(r) ==
    {next \in {[r EXCEPT !.completed = @ + 1, !.prepared = FALSE,
                         !.status = StatusFor(r.completed + 1, FALSE)]} :
        r.status = "effect-prepared" /\ r.prepared}

(* mutant of BindAdmissionApproval: it may come before the verification *)
BindAdmissionEarly(r) ==
    {next \in {[r EXCEPT !.approved = TRUE]} :
        /\ r.status \in {"quarantined", "verified-awaiting-admission"}
        /\ ~r.prepared
        /\ ~r.approved}

BindAdmissionApproval(r) ==
    {next \in {[r EXCEPT !.approved = TRUE]} :
        /\ r.status = "verified-awaiting-admission"
        /\ ~r.prepared
        /\ ~r.approved}

MarkIncomplete(r) ==
    {next \in {[r EXCEPT !.status = "incomplete"]} :
        r.status \notin {"admitted", "incomplete"}}

(* _is_exact_next_transition accepts these and nothing else *)
Steps(r) == PrepareNextStep(r) \cup RecordStepSuccess(r)
              \cup BindAdmissionApproval(r) \cup MarkIncomplete(r)

(* build_catalogue_release returns a release *)
Releasable(r) == r.status = "admitted" /\ r.completed = EffectCount
-----------------------------------------------------------------------------
(* assess_promotion_recovery *)
Class(r) ==
    IF r.status = "admitted" THEN "complete"
    ELSE IF r.prepared THEN "preserve-effect-outcome-uncertain"
    ELSE IF r.completed = 0 THEN "no-effect"
    ELSE IF r.completed < ImportStepCount THEN "preserve-partial-import"
    ELSE IF r.completed < VerificationStepCount
    THEN "preserve-quarantine-review"
    ELSE "verified-awaiting-new-admission-approval"

ContinuationAllowed(r) == Class(r) = "preserve-quarantine-review"

(* The approval that step k needs is bound *)
Approved(r, k) == k > VerificationStepCount => r.approved
=============================================================================
