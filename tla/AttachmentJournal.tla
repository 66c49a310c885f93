------------------------- MODULE AttachmentJournal -------------------------
(* The record of one external model attachment and its transitions         *)
(* (src/src/apx_external_model_lifecycle.py), with the conventions of      *)
(* CleanInstallJournal.  Attach steps are 1..6, detach steps 7..12: no     *)
(* detach step is prepared before the last attach step is complete.        *)
EXTENDS Naturals

AttachCount == 6
EffectCount == 12

Terminal == {"detached", "preserved-uncertain"}
Statuses == Terminal \cup
    {"attach-planned", "attaching", "effect-prepared", "attached-stopped",
     "active", "detach-planned", "detaching"}

(* activated: there is activation evidence; approved: the detach approval *)
Record == [kind : {"attachment"}, completed : 0..EffectCount,
           prepared : BOOLEAN, activated : BOOLEAN, approved : BOOLEAN,
           status : Statuses]

StatusOf(r) ==
    IF r.prepared THEN "effect-prepared"
    ELSE IF r.approved
    THEN IF r.completed = EffectCount THEN "detached"
         ELSE IF r.completed > AttachCount THEN "detaching"
         ELSE "detach-planned"
    ELSE IF r.activated THEN "active"
    ELSE IF r.completed = AttachCount THEN "attached-stopped"
    ELSE IF r.completed > 0 THEN "attaching"
    ELSE "attach-planned"

(* validate_lifecycle *)
Valid(r) ==
    /\ r.completed > AttachCount => r.approved
    /\ \/ r.status = "preserved-uncertain"
       \/ /\ r.status = StatusOf(r)
          /\ r.approved \/ r.status = "active" => r.completed >= AttachCount
          /\ r.prepared => IF r.approved THEN r.completed < EffectCount
                                         ELSE r.completed < AttachCount

New == [kind |-> "attachment", completed |-> 0, prepared |-> FALSE,
        activated |-> FALSE, approved |-> FALSE, status |-> "attach-planned"]
-----------------------------------------------------------------------------
PrepareNextStep(r) ==
    {next \in {[r EXCEPT !.prepared = TRUE, !.status = "effect-prepared"]} :
        /\ ~r.prepared
        /\ \/ /\ r.status \in {"attach-planned", "attaching"}
              /\ r.completed < AttachCount
           \/ /\ r.status \in {"detach-planned", "detaching"}
              /\ r.completed < EffectCount}

RecordStepSuccess(r) ==
    {next \in {[r EXCEPT !.completed = @ + 1, !.prepared = FALSE,
                 !.status =
                   IF r.completed < AttachCount
                   THEN IF r.completed + 1 = AttachCount
                        THEN "attached-stopped" ELSE "attaching"
                   ELSE IF r.completed + 1 = EffectCount
                        THEN "detached" ELSE "detaching"]} :
        /\ r.status = "effect-prepared" /\ r.prepared
        /\ r.approved <=> r.completed >= AttachCount}

RecordActivation(r) ==
    {next \in {[r EXCEPT !.activated = TRUE, !.status = "active"]} :
        r.status = "attached-stopped" /\ ~r.prepared}

BeginDetach(r) ==
    {next \in {[r EXCEPT !.approved = TRUE, !.status = "detach-planned"]} :
        r.status \in {"active", "attached-stopped"} /\ ~r.prepared}

MarkUncertain(r) ==
    {next \in {[r EXCEPT !.status = "preserved-uncertain"]} :
        r.status \notin Terminal}

Steps(r) == PrepareNextStep(r) \cup RecordStepSuccess(r)
              \cup RecordActivation(r) \cup BeginDetach(r) \cup MarkUncertain(r)
-----------------------------------------------------------------------------
(* assess_recovery *)
Class(r) ==
    IF r.status = "detached" THEN "complete-detached"
    ELSE IF r.status = "active" THEN "active-requires-normal-stop"
    ELSE IF r.status = "attached-stopped" THEN "attached-stopped"
    ELSE IF r.prepared THEN "preserve-effect-outcome-uncertain"
    ELSE IF r.status = "preserved-uncertain" THEN "preserve-and-inspect"
    ELSE IF r.completed > AttachCount THEN "preserve-partial-detach"
    ELSE IF r.completed > 0 THEN "preserve-partial-attach"
    ELSE "no-effect-recorded"

ContinuationAllowed(r) ==
    Class(r) \in {"active-requires-normal-stop", "attached-stopped"}

(* The approval that step k needs is bound *)
Approved(r, k) == k > AttachCount => r.approved
=============================================================================
