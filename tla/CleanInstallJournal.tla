------------------------ MODULE CleanInstallJournal ------------------------
(***************************************************************************)
(* The record of one clean installation and its transitions                *)
(* (src/src/apx_clean_install_journal.py).  An operator for a transition   *)
(* returns the set of records it may return, {} when it raises.            *)
(*                                                                         *)
(* The effects are the 35 numbers of FLAT_EFFECTS, so completed_effects is *)
(* a number and the prepared effect is always the next one.  Digests and   *)
(* the reason are left out: the status tells whether there is a final      *)
(* evidence digest or a reason.  An approval is its stage, which fixes its *)
(* class.                                                                  *)
(***************************************************************************)
EXTENDS Naturals

EffectsByStage ==
    [observe     |-> 1..2,   dossier    |-> 3..4,   approveDisk |-> 5..6,
     storage     |-> 7..12,  arch       |-> 13..15, boot        |-> 16..18,
     bootstrap   |-> 19..22, hub        |-> 23..26, development |-> 27..30,
     separation  |-> 31..35]

Stages == DOMAIN EffectsByStage
EffectCount == 35

(* REQUIRED_APPROVAL *)
ApprovedStages == Stages \ {"observe", "dossier"}

Statuses == {"reserved", "effect-prepared", "executing", "verifying-final",
             "complete", "incomplete"}

Record == [kind : {"install"}, completed : 0..EffectCount, prepared : BOOLEAN,
           approvals : SUBSET ApprovedStages, status : Statuses]

StatusOf(r) == IF r.prepared THEN "effect-prepared"
               ELSE IF r.completed = EffectCount THEN "verifying-final"
               ELSE IF r.completed = 0 THEN "reserved" ELSE "executing"

(* The stage of the next effect; there is none after the last *)
CurrentStage(r) == {s \in Stages : r.completed + 1 \in EffectsByStage[s]}

(* validate_install_record *)
Valid(r) ==
    /\ \A s \in r.approvals : \E k \in EffectsByStage[s] : k <= r.completed + 1
    /\ r.prepared => r.completed < EffectCount
    /\ r.status = "complete" => r.completed = EffectCount
    /\ r.status \in {"incomplete", "complete", StatusOf(r)}

New == [kind |-> "install", completed |-> 0, prepared |-> FALSE,
        approvals |-> {}, status |-> "reserved"]
-----------------------------------------------------------------------------
BindStageApproval(r) ==
    {[r EXCEPT !.approvals = @ \cup {s}] :
        s \in {s \in CurrentStage(r) \cap ApprovedStages :
                  /\ ~r.prepared
                  /\ r.status \notin {"complete", "incomplete"}
                  /\ s \notin r.approvals}}

(* mutant of PrepareNextEffect: it does not ask for the stage's approval *)
PrepareUnapproved(r) ==
    {next \in {[r EXCEPT !.prepared = TRUE, !.status = "effect-prepared"]} :
        /\ r.status \notin {"complete", "incomplete", "verifying-final"}
        /\ ~r.prepared
        /\ r.completed < EffectCount}

PrepareNextEffect(r) ==
    {next \in {[r EXCEPT !.prepared = TRUE, !.status = "effect-prepared"]} :
        /\ r.status \notin {"complete", "incomplete", "verifying-final"}
        /\ ~r.prepared
        /\ r.completed < EffectCount
        /\ CurrentStage(r) \cap ApprovedStages \subseteq r.approvals}

RecordEffectSuccess(r) ==
    {next \in {[r EXCEPT !.completed = @ + 1, !.prepared = FALSE,
                         !.status = IF r.completed + 1 = EffectCount
                                    THEN "verifying-final" ELSE "executing"]} :
        r.status = "effect-prepared" /\ r.prepared}

CompleteInstall(r) ==
    {next \in {[r EXCEPT !.status = "complete"]} :
        r.status = "verifying-final" /\ r.completed = EffectCount}

(* mutant of MarkIncomplete: the prepared effect is dropped *)
MarkIncompleteCleared(r) ==
    {next \in {[r EXCEPT !.status = "incomplete", !.prepared = FALSE]} :
        r.status \notin {"complete", "incomplete"}}

MarkIncomplete(r) ==
    {next \in {[r EXCEPT !.status = "incomplete"]} :
        r.status \notin {"complete", "incomplete"}}

Steps(r) == BindStageApproval(r) \cup PrepareNextEffect(r)
              \cup RecordEffectSuccess(r) \cup CompleteInstall(r)
              \cup MarkIncomplete(r)

(* _is_exact_transition.  It derives every step the candidate may be from  *)
(* current and looks the candidate up.  A candidate with an approval of    *)
(* the current stage makes it derive a bind_stage_approval first, and when *)
(* that raises the answer is no.                                           *)
ExactTransition(current, candidate) ==
    /\ candidate.approvals \cap CurrentStage(current) # {} =>
           BindStageApproval(current) # {}
    /\ candidate \in Steps(current)
-----------------------------------------------------------------------------
(* assess_install_recovery *)
Class(r) ==
    IF r.status = "complete" THEN "complete"
    ELSE IF r.prepared THEN "preserve-effect-outcome-uncertain"
    ELSE IF r.completed = 0 THEN "no-effect"
    ELSE IF (1..r.completed) \cap EffectsByStage.storage = {}
    THEN "restart-read-only-foundation"
    ELSE "destructive-recovery-required"

ContinuationAllowed(r) == Class(r) = "restart-read-only-foundation"

(* The approval that effect k needs is bound *)
Approved(r, k) ==
    \A s \in ApprovedStages : k \in EffectsByStage[s] => s \in r.approvals
=============================================================================
