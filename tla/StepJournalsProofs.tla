------------------------- MODULE StepJournalsProofs -------------------------
(* The invariants of StepJournals, and that it implements StagedEffects,   *)
(* for any set of drivers.                                                 *)
EXTENDS StepJournals, TLAPS

(***************************************************************************)
(* What a step from record r to record s may be, seen from the store       *)
(***************************************************************************)
Shape(r, s) ==
    /\ s.kind = r.kind
    /\ s.completed \in Nat /\ s.prepared \in BOOLEAN
    /\ \/ /\ r.prepared = TRUE /\ s.prepared = FALSE
          /\ s.completed = r.completed + 1
       \/ /\ r.prepared = FALSE /\ s.prepared = TRUE
          /\ s.completed = r.completed
       \/ /\ s.prepared = r.prepared
          /\ s.completed = r.completed

(* A prepared effect is one of the plan and has the approval it needs, and *)
(* neither an activation approval nor activation evidence is there before  *)
(* its time.  The validations admit records that are not like that, and    *)
(* from them transitions raise; no sequence of transitions reaches them.   *)
Backed(r) ==
    /\ r.prepared => r.completed < EffectCount(r)
    /\ r.prepared => Approved(r, r.completed + 1)
    /\ r.kind = "update" /\ r.approved =>
           r.completed >= Update!ActivationBoundary
    /\ r.kind = "attachment" /\ r.activated =>
           r.completed >= Attachment!AttachCount

(* An approval is never taken back *)
Keeps(r, s) ==
    /\ Backed(s)
    /\ \A k \in Nat : Approved(r, k) => Approved(s, k)

(* The steps of the clean-install journal *)
LEMMA InstallSteps ==
    ASSUME NEW r \in Install!Record, Install!Valid(r),
           Backed(r), NEW s \in Install!Steps(r)
    PROVE  /\ s \in Install!Record /\ Install!Valid(s)
           /\ Shape(r, s) /\ Keeps(r, s)
<1> USE DEF Install!Record, Install!Valid, Shape, Install!EffectCount,
        Install!StatusOf, Install!Statuses
<1>0. /\ r = [kind |-> r.kind, completed |-> r.completed,
              prepared |-> r.prepared, approvals |-> r.approvals,
              status |-> r.status]
      /\ r.kind = "install" /\ r.completed \in 0..35 /\ r.prepared \in BOOLEAN
      /\ r.approvals \in SUBSET Install!ApprovedStages
  OBVIOUS
<1>1. CASE s \in Install!BindStageApproval(r)
  <2>1. PICK stage \in Install!CurrentStage(r) \cap Install!ApprovedStages :
           /\ s = [r EXCEPT !.approvals = @ \cup {stage}]
           /\ ~r.prepared
    BY <1>1 DEF Install!BindStageApproval
  <2>2. /\ s.kind = r.kind /\ s.completed = r.completed
        /\ s.prepared = r.prepared /\ s.status = r.status
        /\ s.approvals = r.approvals \cup {stage}
        /\ s \in Install!Record
    BY <1>0, <2>1
  <2>3. \E k \in Install!EffectsByStage[stage] : k <= s.completed + 1
    <3>1. s.completed + 1 \in Install!EffectsByStage[stage]
      BY <2>1, <2>2 DEF Install!CurrentStage
    <3> QED
      BY <3>1, <2>2
  <2>4. Install!Valid(s)
    BY <2>2, <2>3
  <2>5. Keeps(r, s)
    BY <1>0, <2>1, <2>2
    DEF Backed, Keeps, Approved, EffectCount, Install!Approved
  <2> QED
    BY <2>2, <2>4, <2>5
<1>2. CASE s \in Install!PrepareNextEffect(r)
  <2>1. /\ s = [r EXCEPT !.prepared = TRUE, !.status = "effect-prepared"]
        /\ ~r.prepared /\ r.completed < 35
        /\ Install!CurrentStage(r) \cap Install!ApprovedStages \subseteq r.approvals
    BY <1>2 DEF Install!PrepareNextEffect
  <2>2. /\ s.kind = r.kind /\ s.completed = r.completed
        /\ s.prepared = TRUE /\ s.status = "effect-prepared"
        /\ s.approvals = r.approvals
        /\ s \in Install!Record
    BY <1>0, <2>1
  <2>3. Install!Valid(s)
    BY <2>1, <2>2
  <2>4. Keeps(r, s)
    BY <1>0, <2>1, <2>2
   
    DEF Backed, Keeps, Approved, EffectCount, Install!Approved,
        Install!CurrentStage,
        Install!ApprovedStages
  <2>5. Shape(r, s)
    <3>1. r.prepared = FALSE
      BY <1>0, <2>1
    <3>2. s.completed \in Nat /\ s.completed = r.completed /\ s.kind = r.kind
      BY <1>0, <2>2
    <3>3. s.prepared = TRUE
      BY <2>2
    <3> QED
      BY <3>1, <3>2, <3>3
  <2> QED
    BY <2>2, <2>3, <2>4, <2>5
<1>3. CASE s \in Install!RecordEffectSuccess(r)
  <2>1. /\ s = [r EXCEPT !.completed = @ + 1, !.prepared = FALSE,
                         !.status = IF r.completed + 1 = 35
                                    THEN "verifying-final" ELSE "executing"]
        /\ r.prepared /\ r.status = "effect-prepared"
    BY <1>3 DEF Install!RecordEffectSuccess
  <2>2. /\ s.kind = r.kind /\ s.completed = r.completed + 1
        /\ s.prepared = FALSE /\ s.approvals = r.approvals
        /\ s.status = IF r.completed + 1 = 35
                      THEN "verifying-final" ELSE "executing"
        /\ s \in Install!Record
    <3>1. r.completed + 1 \in 0..35
      BY <1>0, <2>1
    <3>2. \E status \in Install!Statuses :
             /\ s = [r EXCEPT !.completed = @ + 1, !.prepared = FALSE,
                              !.status = status]
             /\ status = IF r.completed + 1 = 35
                         THEN "verifying-final" ELSE "executing"
      BY <2>1
    <3> QED
      BY <1>0, <3>1, <3>2
  <2>3. Install!Valid(s)
    <3>1. \A stage \in s.approvals : \E k \in Install!EffectsByStage[stage] :
             k <= s.completed + 1
      <4> SUFFICES ASSUME NEW stage \in s.approvals
                   PROVE  \E k \in Install!EffectsByStage[stage] :
                             k <= s.completed + 1
        OBVIOUS
      <4>1. PICK k \in Install!EffectsByStage[stage] : k <= r.completed + 1
        BY <2>2
      <4>2. k \in Nat
        BY <1>0, <2>2 DEF Install!EffectsByStage, Install!ApprovedStages,
                          Install!Stages
      <4> QED
        BY <1>0, <2>2, <4>1, <4>2
    <3> QED
      BY <1>0, <2>1, <2>2, <3>1
  <2>4. Keeps(r, s)
    BY <1>0, <2>1, <2>2
    DEF Backed, Keeps, Approved, EffectCount, Install!Approved
  <2> QED
    BY <1>0, <2>1, <2>2, <2>3, <2>4
<1>4. CASE s \in Install!CompleteInstall(r)
  <2>1. /\ s = [r EXCEPT !.status = "complete"]
        /\ r.status = "verifying-final" /\ r.completed = 35
    BY <1>4 DEF Install!CompleteInstall
  <2>2. /\ s.kind = r.kind /\ s.completed = r.completed
        /\ s.prepared = r.prepared /\ s.approvals = r.approvals
        /\ s.status = "complete"
        /\ s \in Install!Record
    BY <1>0, <2>1
  <2>3. Keeps(r, s)
    BY <1>0, <2>1, <2>2
    DEF Backed, Keeps, Approved, EffectCount, Install!Approved
  <2> QED
    BY <1>0, <2>1, <2>2, <2>3
<1>5. CASE s \in Install!MarkIncomplete(r)
  <2>1. s = [r EXCEPT !.status = "incomplete"]
    BY <1>5 DEF Install!MarkIncomplete
  <2>2. /\ s.kind = r.kind /\ s.completed = r.completed
        /\ s.prepared = r.prepared /\ s.approvals = r.approvals
        /\ s.status = "incomplete"
        /\ s \in Install!Record
    BY <1>0, <2>1
  <2>3. Keeps(r, s)
    BY <1>0, <2>1, <2>2
    DEF Backed, Keeps, Approved, EffectCount, Install!Approved
  <2> QED
    BY <1>0, <2>1, <2>2, <2>3
<1> QED
  BY <1>1, <1>2, <1>3, <1>4, <1>5 DEF Install!Steps

(* The steps of the physical-update journal *)
LEMMA UpdateSteps ==
    ASSUME NEW r \in Update!Record, Update!Valid(r),
           Backed(r), NEW s \in Update!Steps(r)
    PROVE  /\ s \in Update!Record /\ Update!Valid(s)
           /\ Shape(r, s) /\ Keeps(r, s)
<1> USE DEF Update!Record, Update!Valid, Update!EffectCount,
        Update!ActivationBoundary, Update!StatusOf, Update!Statuses, Update!Terminal
<1>0. /\ r = [kind |-> r.kind, completed |-> r.completed,
              prepared |-> r.prepared, approved |-> r.approved,
              status |-> r.status]
      /\ r.kind = "update" /\ r.completed \in 0..10
      /\ r.prepared \in BOOLEAN
      /\ r.status \in Update!Statuses
      /\ r.approved \in BOOLEAN
  OBVIOUS
<1>a. /\ r.prepared => Update!Approved(r, r.completed + 1)
      /\ r.approved => r.completed >= 4
  BY <1>0 DEF Backed, Approved
<1>1. CASE s \in Update!PrepareNextEffect(r)
  <2>1. s = [r EXCEPT !.prepared = TRUE, !.status = "effect-prepared"]
    BY <1>1 DEF Update!PrepareNextEffect
  <2>2. /\ s.kind = r.kind
        /\ s.prepared = TRUE
        /\ s.status = "effect-prepared"
        /\ s.completed = r.completed
        /\ s.approved = r.approved
        /\ s \in Update!Record
    BY <1>0, <2>1
  <2>3. Update!Valid(s)
    BY <1>0, <1>1, <2>2 DEF Update!PrepareNextEffect
  <2>4. Shape(r, s)
    <3>1. r.prepared = FALSE
      BY <1>0, <1>1 DEF Update!PrepareNextEffect
    <3> QED
      BY <1>0, <2>2, <3>1 DEF Shape
  <2>5. Keeps(r, s)
    BY <1>0, <1>1, <2>2
    DEF Backed, Keeps, Approved, EffectCount, Update!Approved,
        Update!PrepareNextEffect
  <2> QED
    BY <2>2, <2>3, <2>4, <2>5
<1>2. CASE s \in Update!RecordEffectSuccess(r)
  <2>1. /\ r.prepared = TRUE /\ r.completed + 1 \in 0..10
        /\ r.status = "effect-prepared"
    BY <1>0, <1>2 DEF Update!RecordEffectSuccess
  <2>2. PICK status \in Update!Statuses :
           /\ s = [r EXCEPT !.completed = @ + 1, !.prepared = FALSE,
                            !.status = status]
           /\ status = IF r.completed + 1 = 4
                      THEN "verified-awaiting-activation-approval"
                      ELSE IF r.completed + 1 = 10
                      THEN "installed-rollback-retained"
                      ELSE IF r.completed + 1 < 4
                      THEN "importing-and-verifying"
                      ELSE "activating-and-verifying"
    BY <1>2, <2>1 DEF Update!RecordEffectSuccess
  <2>3. /\ s.kind = r.kind /\ s.completed = r.completed + 1
        /\ s.prepared = FALSE /\ s.status = status
        /\ s.approved = r.approved
        /\ s \in Update!Record
    BY <1>0, <2>1, <2>2
  <2>4. Update!Valid(s)
    <3>1. CASE r.completed + 1 < 4
      BY <1>0, <1>a, <1>2, <2>1, <2>2, <2>3, <3>1
      DEF Update!RecordEffectSuccess, Update!Approved
    <3>2. CASE r.completed + 1 = 4
      BY <1>0, <1>a, <1>2, <2>1, <2>2, <2>3, <3>2
      DEF Update!RecordEffectSuccess, Update!Approved
    <3>3. CASE r.completed + 1 \in 5..9
      BY <1>0, <1>a, <1>2, <2>1, <2>2, <2>3, <3>3
      DEF Update!RecordEffectSuccess, Update!Approved
    <3>4. CASE r.completed + 1 = 10
      BY <1>0, <1>a, <1>2, <2>1, <2>2, <2>3, <3>4
      DEF Update!RecordEffectSuccess, Update!Approved
    <3> QED
      BY <1>0, <2>1, <3>1, <3>2, <3>3, <3>4
  <2>5. Shape(r, s)
    BY <1>0, <2>1, <2>3 DEF Shape
  <2>6. Keeps(r, s)
    BY <1>0, <1>2, <2>3
    DEF Backed, Keeps, Approved, EffectCount, Update!Approved,
        Update!RecordEffectSuccess
  <2> QED
    BY <2>3, <2>4, <2>5, <2>6
<1>3. CASE s \in Update!BindActivationApproval(r)
  <2>1. s = [r EXCEPT !.approved = TRUE, !.status = "activation-approved"]
    BY <1>3 DEF Update!BindActivationApproval
  <2>2. /\ s.kind = r.kind
        /\ s.approved = TRUE
        /\ s.status = "activation-approved"
        /\ s.completed = r.completed
        /\ s.prepared = r.prepared
        /\ s \in Update!Record
    BY <1>0, <2>1
  <2>3. Update!Valid(s)
    BY <1>0, <1>3, <2>2 DEF Update!BindActivationApproval
  <2>4. Shape(r, s)
    BY <1>0, <2>2 DEF Shape
  <2>5. Keeps(r, s)
    BY <1>0, <1>3, <2>2
    DEF Backed, Keeps, Approved, EffectCount, Update!Approved,
        Update!BindActivationApproval
  <2> QED
    BY <2>2, <2>3, <2>4, <2>5
<1>4. CASE s \in Update!MarkUncertain(r)
  <2>1. s = [r EXCEPT !.status = "preserved-uncertain"]
    BY <1>4 DEF Update!MarkUncertain
  <2>2. /\ s.kind = r.kind
        /\ s.status = "preserved-uncertain"
        /\ s.completed = r.completed
        /\ s.prepared = r.prepared
        /\ s.approved = r.approved
        /\ s \in Update!Record
    BY <1>0, <2>1
  <2>3. Update!Valid(s)
    BY <1>0, <1>4, <2>2 DEF Update!MarkUncertain
  <2>4. Shape(r, s)
    BY <1>0, <2>2 DEF Shape
  <2>5. Keeps(r, s)
    BY <1>0, <1>4, <2>2
    DEF Backed, Keeps, Approved, EffectCount, Update!Approved,
        Update!MarkUncertain
  <2> QED
    BY <2>2, <2>3, <2>4, <2>5
<1> QED
  BY <1>1, <1>2, <1>3, <1>4 DEF Update!Steps

(* The steps of the H0 journal *)
LEMMA H0Steps ==
    ASSUME NEW r \in H0!Record, H0!Valid(r),
           Backed(r), NEW s \in H0!Steps(r)
    PROVE  /\ s \in H0!Record /\ H0!Valid(s)
           /\ Shape(r, s) /\ Keeps(r, s)
<1> USE DEF H0!Record, H0!Valid, H0!EffectCount, H0!GraphicalStartIndex,
        H0!GraphicalReadyCount, H0!TeardownStartIndex, H0!Progress, H0!Statuses,
        H0!Terminal
<1>0. /\ r = [kind |-> r.kind, completed |-> r.completed,
              prepared |-> r.prepared,
              status |-> r.status]
      /\ r.kind = "h0" /\ r.completed \in 0..10
      /\ r.prepared \in BOOLEAN
      /\ r.status \in H0!Statuses
  OBVIOUS
<1>1. CASE s \in H0!PrepareNextEffect(r)
  <2>1. s = [r EXCEPT !.prepared = TRUE, !.status = "effect-prepared"]
    BY <1>1 DEF H0!PrepareNextEffect
  <2>2. /\ s.kind = r.kind
        /\ s.prepared = TRUE
        /\ s.status = "effect-prepared"
        /\ s.completed = r.completed
        /\ s \in H0!Record
    BY <1>0, <2>1
  <2>3. H0!Valid(s)
    BY <1>0, <1>1, <2>2 DEF H0!PrepareNextEffect
  <2>4. Shape(r, s)
    <3>1. r.prepared = FALSE
      BY <1>0, <1>1 DEF H0!PrepareNextEffect
    <3> QED
      BY <1>0, <2>2, <3>1 DEF Shape
  <2>5. Keeps(r, s)
    BY <1>0, <1>1, <2>2
    DEF Backed, Keeps, Approved, EffectCount, H0!PrepareNextEffect
  <2> QED
    BY <2>2, <2>3, <2>4, <2>5
<1>2. CASE s \in H0!RecordEffectSuccess(r)
  <2>1. /\ r.prepared = TRUE /\ r.completed + 1 \in 0..10
        /\ r.status = "effect-prepared"
    BY <1>0, <1>2 DEF H0!RecordEffectSuccess
  <2>2. PICK status \in H0!Statuses :
           /\ s = [r EXCEPT !.completed = @ + 1, !.prepared = FALSE,
                            !.status = status]
           /\ status = H0!Progress(r.completed + 1)
    BY <1>2, <2>1 DEF H0!RecordEffectSuccess
  <2>3. /\ s.kind = r.kind /\ s.completed = r.completed + 1
        /\ s.prepared = FALSE /\ s.status = status
        /\ s \in H0!Record
    BY <1>0, <2>1, <2>2
  <2>4. H0!Valid(s)
    BY <1>0, <1>2, <2>1, <2>2, <2>3 DEF H0!RecordEffectSuccess
  <2>5. Shape(r, s)
    BY <1>0, <2>1, <2>3 DEF Shape
  <2>6. Keeps(r, s)
    BY <1>0, <1>2, <2>3
    DEF Backed, Keeps, Approved, EffectCount, H0!RecordEffectSuccess
  <2> QED
    BY <2>3, <2>4, <2>5, <2>6
<1>3. CASE s \in H0!MarkUncertain(r)
  <2>1. s = [r EXCEPT !.status = "preserved-uncertain"]
    BY <1>3 DEF H0!MarkUncertain
  <2>2. /\ s.kind = r.kind
        /\ s.status = "preserved-uncertain"
        /\ s.completed = r.completed
        /\ s.prepared = r.prepared
        /\ s \in H0!Record
    BY <1>0, <2>1
  <2>3. H0!Valid(s)
    BY <1>0, <1>3, <2>2 DEF H0!MarkUncertain
  <2>4. Shape(r, s)
    BY <1>0, <2>2 DEF Shape
  <2>5. Keeps(r, s)
    BY <1>0, <1>3, <2>2
    DEF Backed, Keeps, Approved, EffectCount, H0!MarkUncertain
  <2> QED
    BY <2>2, <2>3, <2>4, <2>5
<1> QED
  BY <1>1, <1>2, <1>3 DEF H0!Steps

(* The steps of the promotion journal *)
LEMMA PromotionSteps ==
    ASSUME NEW r \in Promotion!Record, Promotion!Valid(r),
           Backed(r), NEW s \in Promotion!Steps(r)
    PROVE  /\ s \in Promotion!Record /\ Promotion!Valid(s)
           /\ Shape(r, s) /\ Keeps(r, s)
<1> USE DEF Promotion!Record, Promotion!Valid, Promotion!EffectCount,
        Promotion!ImportStepCount, Promotion!VerificationStepCount,
        Promotion!StatusFor, Promotion!Statuses
<1>0. /\ r = [kind |-> r.kind, completed |-> r.completed,
              prepared |-> r.prepared, approved |-> r.approved,
              status |-> r.status]
      /\ r.kind = "promotion" /\ r.completed \in 0..10
      /\ r.prepared \in BOOLEAN
      /\ r.status \in Promotion!Statuses
      /\ r.approved \in BOOLEAN
  OBVIOUS
<1>a. r.prepared => Promotion!Approved(r, r.completed + 1)
  BY <1>0 DEF Backed, Approved
<1>1. CASE s \in Promotion!PrepareNextStep(r)
  <2>1. s = [r EXCEPT !.prepared = TRUE, !.status = "effect-prepared"]
    BY <1>1 DEF Promotion!PrepareNextStep
  <2>2. /\ s.kind = r.kind
        /\ s.prepared = TRUE
        /\ s.status = "effect-prepared"
        /\ s.completed = r.completed
        /\ s.approved = r.approved
        /\ s \in Promotion!Record
    BY <1>0, <2>1
  <2>3. Promotion!Valid(s)
    BY <1>0, <1>1, <2>2 DEF Promotion!PrepareNextStep
  <2>4. Shape(r, s)
    <3>1. r.prepared = FALSE
      BY <1>0, <1>1 DEF Promotion!PrepareNextStep
    <3> QED
      BY <1>0, <2>2, <3>1 DEF Shape
  <2>5. Keeps(r, s)
    BY <1>0, <1>1, <2>2
    DEF Backed, Keeps, Approved, EffectCount, Promotion!Approved,
        Promotion!PrepareNextStep
  <2> QED
    BY <2>2, <2>3, <2>4, <2>5
<1>2. CASE s \in Promotion!RecordStepSuccess(r)
  <2>1. /\ r.prepared = TRUE /\ r.completed + 1 \in 0..10
        /\ r.status = "effect-prepared"
    BY <1>0, <1>2 DEF Promotion!RecordStepSuccess
  <2>2. PICK status \in Promotion!Statuses :
           /\ s = [r EXCEPT !.completed = @ + 1, !.prepared = FALSE,
                            !.status = status]
           /\ status = Promotion!StatusFor(r.completed + 1, FALSE)
    BY <1>2, <2>1 DEF Promotion!RecordStepSuccess
  <2>3. /\ s.kind = r.kind /\ s.completed = r.completed + 1
        /\ s.prepared = FALSE /\ s.status = status
        /\ s.approved = r.approved
        /\ s \in Promotion!Record
    BY <1>0, <2>1, <2>2
  <2>4. Promotion!Valid(s)
    <3>1. CASE r.completed + 1 <= 8
      BY <1>0, <1>a, <1>2, <2>1, <2>2, <2>3, <3>1
      DEF Promotion!RecordStepSuccess, Promotion!Approved
    <3>2. CASE r.completed + 1 \in 9..10
      BY <1>0, <1>a, <1>2, <2>1, <2>2, <2>3, <3>2
      DEF Promotion!RecordStepSuccess, Promotion!Approved
    <3> QED
      BY <1>0, <2>1, <3>1, <3>2
  <2>5. Shape(r, s)
    BY <1>0, <2>1, <2>3 DEF Shape
  <2>6. Keeps(r, s)
    BY <1>0, <1>2, <2>3
    DEF Backed, Keeps, Approved, EffectCount, Promotion!Approved,
        Promotion!RecordStepSuccess
  <2> QED
    BY <2>3, <2>4, <2>5, <2>6
<1>3. CASE s \in Promotion!BindAdmissionApproval(r)
  <2>1. s = [r EXCEPT !.approved = TRUE]
    BY <1>3 DEF Promotion!BindAdmissionApproval
  <2>2. /\ s.kind = r.kind
        /\ s.approved = TRUE
        /\ s.status = r.status
        /\ s.completed = r.completed
        /\ s.prepared = r.prepared
        /\ s \in Promotion!Record
    BY <1>0, <2>1
  <2>3. Promotion!Valid(s)
    BY <1>0, <1>3, <2>2 DEF Promotion!BindAdmissionApproval
  <2>4. Shape(r, s)
    BY <1>0, <2>2 DEF Shape
  <2>5. Keeps(r, s)
    BY <1>0, <1>3, <2>2
    DEF Backed, Keeps, Approved, EffectCount, Promotion!Approved,
        Promotion!BindAdmissionApproval
  <2> QED
    BY <2>2, <2>3, <2>4, <2>5
<1>4. CASE s \in Promotion!MarkIncomplete(r)
  <2>1. s = [r EXCEPT !.status = "incomplete"]
    BY <1>4 DEF Promotion!MarkIncomplete
  <2>2. /\ s.kind = r.kind
        /\ s.status = "incomplete"
        /\ s.completed = r.completed
        /\ s.prepared = r.prepared
        /\ s.approved = r.approved
        /\ s \in Promotion!Record
    BY <1>0, <2>1
  <2>3. Promotion!Valid(s)
    BY <1>0, <1>4, <2>2 DEF Promotion!MarkIncomplete
  <2>4. Shape(r, s)
    BY <1>0, <2>2 DEF Shape
  <2>5. Keeps(r, s)
    BY <1>0, <1>4, <2>2
    DEF Backed, Keeps, Approved, EffectCount, Promotion!Approved,
        Promotion!MarkIncomplete
  <2> QED
    BY <2>2, <2>3, <2>4, <2>5
<1> QED
  BY <1>1, <1>2, <1>3, <1>4 DEF Promotion!Steps

(* The steps of the attachment journal *)
LEMMA AttachmentSteps ==
    ASSUME NEW r \in Attachment!Record, Attachment!Valid(r),
           Backed(r), NEW s \in Attachment!Steps(r)
    PROVE  /\ s \in Attachment!Record /\ Attachment!Valid(s)
           /\ Shape(r, s) /\ Keeps(r, s)
<1> USE DEF Attachment!Record, Attachment!Valid, Attachment!EffectCount,
        Attachment!AttachCount, Attachment!StatusOf, Attachment!Statuses, Attachment!Terminal
<1>0. /\ r = [kind |-> r.kind, completed |-> r.completed,
              prepared |-> r.prepared, activated |-> r.activated,
              approved |-> r.approved,
              status |-> r.status]
      /\ r.kind = "attachment" /\ r.completed \in 0..12
      /\ r.prepared \in BOOLEAN
      /\ r.status \in Attachment!Statuses
      /\ r.activated \in BOOLEAN
      /\ r.approved \in BOOLEAN
  OBVIOUS
<1>a. /\ r.prepared => Attachment!Approved(r, r.completed + 1)
      /\ r.activated => r.completed >= 6
  BY <1>0 DEF Backed, Approved
<1>1. CASE s \in Attachment!PrepareNextStep(r)
  <2>1. s = [r EXCEPT !.prepared = TRUE, !.status = "effect-prepared"]
    BY <1>1 DEF Attachment!PrepareNextStep
  <2>2. /\ s.kind = r.kind
        /\ s.prepared = TRUE
        /\ s.status = "effect-prepared"
        /\ s.completed = r.completed
        /\ s.activated = r.activated
        /\ s.approved = r.approved
        /\ s \in Attachment!Record
    BY <1>0, <2>1
  <2>3. Attachment!Valid(s)
    BY <1>0, <1>1, <2>2 DEF Attachment!PrepareNextStep
  <2>4. Shape(r, s)
    <3>1. r.prepared = FALSE
      BY <1>0, <1>1 DEF Attachment!PrepareNextStep
    <3> QED
      BY <1>0, <2>2, <3>1 DEF Shape
  <2>5. Keeps(r, s)
    BY <1>0, <1>1, <2>2
    DEF Backed, Keeps, Approved, EffectCount, Attachment!Approved,
        Attachment!PrepareNextStep
  <2> QED
    BY <2>2, <2>3, <2>4, <2>5
<1>2. CASE s \in Attachment!RecordStepSuccess(r)
  <2>1. /\ r.prepared = TRUE /\ r.completed + 1 \in 0..12
        /\ r.status = "effect-prepared"
    BY <1>0, <1>2 DEF Attachment!RecordStepSuccess
  <2>2. PICK status \in Attachment!Statuses :
           /\ s = [r EXCEPT !.completed = @ + 1, !.prepared = FALSE,
                            !.status = status]
           /\ status = IF r.completed < 6
                      THEN IF r.completed + 1 = 6
                           THEN "attached-stopped" ELSE "attaching"
                      ELSE IF r.completed + 1 = 12
                           THEN "detached" ELSE "detaching"
    BY <1>2, <2>1 DEF Attachment!RecordStepSuccess
  <2>3. /\ s.kind = r.kind /\ s.completed = r.completed + 1
        /\ s.prepared = FALSE /\ s.status = status
        /\ s.activated = r.activated
        /\ s.approved = r.approved
        /\ s \in Attachment!Record
    BY <1>0, <2>1, <2>2
  <2>4. Attachment!Valid(s)
    <3>1. CASE r.completed + 1 < 6
      BY <1>0, <1>a, <1>2, <2>1, <2>2, <2>3, <3>1
      DEF Attachment!RecordStepSuccess, Attachment!Approved
    <3>2. CASE r.completed + 1 = 6
      BY <1>0, <1>a, <1>2, <2>1, <2>2, <2>3, <3>2
      DEF Attachment!RecordStepSuccess, Attachment!Approved
    <3>3. CASE r.completed + 1 \in 7..11
      BY <1>0, <1>a, <1>2, <2>1, <2>2, <2>3, <3>3
      DEF Attachment!RecordStepSuccess, Attachment!Approved
    <3>4. CASE r.completed + 1 = 12
      BY <1>0, <1>a, <1>2, <2>1, <2>2, <2>3, <3>4
      DEF Attachment!RecordStepSuccess, Attachment!Approved
    <3> QED
      BY <1>0, <2>1, <3>1, <3>2, <3>3, <3>4
  <2>5. Shape(r, s)
    BY <1>0, <2>1, <2>3 DEF Shape
  <2>6. Keeps(r, s)
    BY <1>0, <1>2, <2>3
    DEF Backed, Keeps, Approved, EffectCount, Attachment!Approved,
        Attachment!RecordStepSuccess
  <2> QED
    BY <2>3, <2>4, <2>5, <2>6
<1>3. CASE s \in Attachment!RecordActivation(r)
  <2>1. s = [r EXCEPT !.activated = TRUE, !.status = "active"]
    BY <1>3 DEF Attachment!RecordActivation
  <2>2. /\ s.kind = r.kind
        /\ s.status = "active"
        /\ s.activated = TRUE
        /\ s.completed = r.completed
        /\ s.prepared = r.prepared
        /\ s.approved = r.approved
        /\ s \in Attachment!Record
    BY <1>0, <2>1
  <2>3. Attachment!Valid(s)
    BY <1>0, <1>3, <2>2 DEF Attachment!RecordActivation
  <2>4. Shape(r, s)
    BY <1>0, <2>2 DEF Shape
  <2>5. Keeps(r, s)
    BY <1>0, <1>3, <2>2
    DEF Backed, Keeps, Approved, EffectCount, Attachment!Approved,
        Attachment!RecordActivation
  <2> QED
    BY <2>2, <2>3, <2>4, <2>5
<1>4. CASE s \in Attachment!BeginDetach(r)
  <2>1. s = [r EXCEPT !.approved = TRUE, !.status = "detach-planned"]
    BY <1>4 DEF Attachment!BeginDetach
  <2>2. /\ s.kind = r.kind
        /\ s.approved = TRUE
        /\ s.status = "detach-planned"
        /\ s.completed = r.completed
        /\ s.prepared = r.prepared
        /\ s.activated = r.activated
        /\ s \in Attachment!Record
    BY <1>0, <2>1
  <2>3. Attachment!Valid(s)
    BY <1>0, <1>4, <2>2 DEF Attachment!BeginDetach
  <2>4. Shape(r, s)
    BY <1>0, <2>2 DEF Shape
  <2>5. Keeps(r, s)
    BY <1>0, <1>4, <2>2
    DEF Backed, Keeps, Approved, EffectCount, Attachment!Approved,
        Attachment!BeginDetach
  <2> QED
    BY <2>2, <2>3, <2>4, <2>5
<1>5. CASE s \in Attachment!MarkUncertain(r)
  <2>1. s = [r EXCEPT !.status = "preserved-uncertain"]
    BY <1>5 DEF Attachment!MarkUncertain
  <2>2. /\ s.kind = r.kind
        /\ s.status = "preserved-uncertain"
        /\ s.completed = r.completed
        /\ s.prepared = r.prepared
        /\ s.activated = r.activated
        /\ s.approved = r.approved
        /\ s \in Attachment!Record
    BY <1>0, <2>1
  <2>3. Attachment!Valid(s)
    BY <1>0, <1>5, <2>2 DEF Attachment!MarkUncertain
  <2>4. Shape(r, s)
    BY <1>0, <2>2 DEF Shape
  <2>5. Keeps(r, s)
    BY <1>0, <1>5, <2>2
    DEF Backed, Keeps, Approved, EffectCount, Attachment!Approved,
        Attachment!MarkUncertain
  <2> QED
    BY <2>2, <2>3, <2>4, <2>5
<1> QED
  BY <1>1, <1>2, <1>3, <1>4, <1>5 DEF Attachment!Steps
-----------------------------------------------------------------------------
(* The steps of all journals *)
StepRecords == {r \in Records : Backed(r)}

LEMMA StepsFacts ==
    ASSUME NEW r \in StepRecords, NEW s \in Steps(r)
    PROVE  /\ s \in StepRecords
           /\ Shape(r, s) /\ Keeps(r, s)
<1>1. CASE r \in Install!Record /\ Install!Valid(r)
  <2>1. r.kind = "install"
    BY <1>1 DEF Install!Record
  <2>2. s \in Install!Steps(r)
    BY <2>1 DEF Steps
  <2> QED
    BY <1>1, <2>2, InstallSteps DEF StepRecords, Records, Keeps
<1>2. CASE r \in Update!Record /\ Update!Valid(r)
  <2>1. r.kind = "update"
    BY <1>2 DEF Update!Record
  <2>2. s \in Update!Steps(r)
    BY <2>1 DEF Steps
  <2> QED
    BY <1>2, <2>2, UpdateSteps DEF StepRecords, Records, Keeps
<1>3. CASE r \in H0!Record /\ H0!Valid(r)
  <2>1. r.kind = "h0"
    BY <1>3 DEF H0!Record
  <2>2. s \in H0!Steps(r)
    BY <2>1 DEF Steps
  <2> QED
    BY <1>3, <2>2, H0Steps DEF StepRecords, Records, Keeps
<1>4. CASE r \in Promotion!Record /\ Promotion!Valid(r)
  <2>1. r.kind = "promotion"
    BY <1>4 DEF Promotion!Record
  <2>2. s \in Promotion!Steps(r)
    BY <2>1 DEF Steps
  <2> QED
    BY <1>4, <2>2, PromotionSteps DEF StepRecords, Records, Keeps
<1>5. CASE r \in Attachment!Record /\ Attachment!Valid(r)
  <2>1. r.kind = "attachment"
    BY <1>5 DEF Attachment!Record
  <2>2. s \in Attachment!Steps(r)
    BY <2>1 DEF Steps
  <2> QED
    BY <1>5, <2>2, AttachmentSteps DEF StepRecords, Records, Keeps
<1> QED
  BY <1>1, <1>2, <1>3, <1>4, <1>5 DEF StepRecords, Records

(* The record every operation starts from *)
LEMMA NewFacts ==
    ASSUME NEW r \in NewRecords
    PROVE  /\ r \in StepRecords
           /\ r.completed = 0 /\ r.prepared = FALSE
<1>1. CASE r = Install!New
  BY <1>1 DEF Install!New, StepRecords, Records, Install!Record, Install!Valid,
     Install!StatusOf, Install!Statuses, Install!EffectCount, Backed
<1>2. CASE r = Update!New
  BY <1>2 DEF Update!New, StepRecords, Records, Update!Record, Update!Valid,
     Update!StatusOf, Update!Statuses, Update!EffectCount, Backed,
     Update!ActivationBoundary
<1>3. CASE r = H0!New
  BY <1>3 DEF H0!New, StepRecords, Records, H0!Record, H0!Valid,
     H0!Statuses, H0!EffectCount, Backed
<1>4. CASE r = Promotion!New
  BY <1>4 DEF Promotion!New, StepRecords, Records, Promotion!Record,
     Promotion!Valid, Promotion!StatusFor, Promotion!Statuses,
     Promotion!EffectCount, Promotion!VerificationStepCount, Backed
<1>5. CASE r = Attachment!New
  BY <1>5 DEF Attachment!New, StepRecords, Records, Attachment!Record,
     Attachment!Valid, Attachment!StatusOf, Attachment!Statuses,
     Attachment!EffectCount, Attachment!AttachCount, Backed
<1> QED
  BY <1>1, <1>2, <1>3, <1>4, <1>5 DEF NewRecords

LEMMA RecordFacts ==
    ASSUME NEW r \in StepRecords
    PROVE  /\ r \in Records /\ r # NoRecord
           /\ r.completed \in Nat /\ r.prepared \in BOOLEAN
BY NoRecordAssumption
DEF StepRecords, Records, Install!Record, Update!Record, H0!Record,
    Promotion!Record, Attachment!Record, Install!EffectCount,
    Update!EffectCount, H0!EffectCount, Promotion!EffectCount,
    Attachment!EffectCount
-----------------------------------------------------------------------------
(* Type correctness, with what no step ever leaves *)
TypeInv ==
    /\ TypeOK
    /\ stored \in StepRecords \cup {NoRecord}
    /\ held \in [Drivers -> StepRecords \cup {NoRecord}]
    /\ \A d \in Drivers : turn[d] # "none" => held[d] # NoRecord

LEMMA TypeInvInductive == TypeInv /\ [Next]_vars => TypeInv'
<1> SUFFICES ASSUME TypeInv, [Next]_vars
             PROVE  TypeInv'
  OBVIOUS
<1> USE DEF TypeInv, TypeOK
<1>a. StepRecords \subseteq Records
  BY DEF StepRecords
<1>1. ASSUME NEW d \in Drivers, PublishNew(d)
      PROVE  TypeInv'
  <2>1. PICK r \in NewRecords : stored' = r /\ Hold(d, r, "none")
    BY <1>1 DEF PublishNew
  <2>2. r \in StepRecords
    BY NewFacts
  <2> QED
    BY <1>1, <1>a, <2>1, <2>2 DEF PublishNew, Hold
<1>2. ASSUME NEW d \in Drivers, Read(d)
      PROVE  TypeInv'
  BY <1>2, <1>a DEF Read, Hold
<1>3. ASSUME NEW d \in Drivers, Swap(d)
      PROVE  TypeInv'
  <2>1. PICK next \in Steps(held[d]) :
           /\ stored' = next
           /\ Hold(d, next, IF next.prepared /\ ~held[d].prepared
                            THEN "prepared" ELSE "none")
    BY <1>3 DEF Swap
  <2>2. held[d] \in StepRecords
    BY <1>3 DEF Swap
  <2>3. next \in StepRecords
    BY <2>2, StepsFacts
  <2> QED
    BY <1>3, <1>a, <2>1, <2>3, RecordFacts DEF Swap, Hold
<1>4. ASSUME NEW d \in Drivers, StartEffect(d)
      PROVE  TypeInv'
  <2>1. held[d] \in StepRecords
    BY <1>4 DEF StartEffect
  <2> QED
    BY <1>4, <2>1, RecordFacts DEF StartEffect
<1>5. ASSUME NEW d \in Drivers, PublishCatalogue(d)
      PROVE  TypeInv'
  BY <1>5, <1>a DEF PublishCatalogue
<1>6. ASSUME NEW d \in Drivers, Abandon(d)
      PROVE  TypeInv'
  BY <1>6 DEF Abandon, Hold
<1>7. CASE UNCHANGED vars
  BY <1>7 DEF vars
<1> QED
  BY <1>1, <1>2, <1>3, <1>4, <1>5, <1>6, <1>7 DEF Next

LEMMA TypeInvHolds == Spec => []TypeInv
<1>1. Init => TypeInv
  BY DEF Init, TypeInv, TypeOK
<1> QED
  BY <1>1, TypeInvInductive, PTL DEF Spec

(* All state has its type: no sequence of transitions derives a record     *)
(* that the validation of its journal refuses.                             *)
THEOREM TypeCorrect == Spec => []TypeOK
BY TypeInvHolds, PTL DEF TypeInv
-----------------------------------------------------------------------------
(***************************************************************************)
(* Order of the effects.  A driver has its turn from the swap that         *)
(* prepares an effect to its next swap.  No two drivers have it at once,   *)
(* and while one has it the journal cannot count another effect.           *)
(***************************************************************************)
TurnInv(d) ==
    /\ stored # NoRecord /\ stored.prepared
    /\ held[d].prepared /\ held[d].completed = stored.completed
    /\ Len(started) = stored.completed + IF turn[d] = "prepared" THEN 0 ELSE 1

OrderInv ==
    /\ JournalTrue
    /\ EffectsInOrder
    /\ EffectsApproved
    /\ \A d \in Drivers : turn[d] # "none" => TurnInv(d)
    /\ \A d, e \in Drivers : turn[d] # "none" /\ turn[e] # "none" => d = e

LEMMA OrderInvInductive ==
    TypeInv /\ OrderInv /\ [Next]_vars => OrderInv'
<1> SUFFICES ASSUME TypeInv, OrderInv, [Next]_vars
             PROVE  OrderInv'
  OBVIOUS
<1> USE DEF TypeInv, TypeOK
<1>1. ASSUME NEW d \in Drivers, PublishNew(d)
      PROVE  OrderInv'
  <2>1. PICK r \in NewRecords : stored' = r /\ Hold(d, r, "none")
    BY <1>1 DEF PublishNew
  <2>2. r \in StepRecords /\ r # NoRecord /\ r.completed = 0
    BY NewFacts, RecordFacts
  <2>3. started = <<>> /\ started' = <<>>
    BY <1>1 DEF PublishNew, OrderInv, JournalTrue
  <2>4. \A e \in Drivers : turn'[e] = "none"
    BY <1>1, <2>1 DEF PublishNew, Hold, OrderInv, TurnInv
  <2>5. JournalTrue'
    BY <2>1, <2>2, <2>3, NewFacts DEF JournalTrue
  <2>6. EffectsInOrder' /\ EffectsApproved'
    BY <2>3 DEF EffectsInOrder, EffectsApproved
  <2> QED
    BY <2>4, <2>5, <2>6 DEF OrderInv
<1>2. ASSUME NEW d \in Drivers, Read(d)
      PROVE  OrderInv'
  BY <1>2 DEF Read, Hold, OrderInv, TurnInv, JournalTrue, EffectsInOrder,
     EffectsApproved
<1>3. ASSUME NEW d \in Drivers, Swap(d)
      PROVE  OrderInv'
  <2>1. PICK next \in Steps(held[d]) :
           /\ next.completed > held[d].completed => turn[d] = "performed"
           /\ stored' = next
           /\ Hold(d, next, IF next.prepared /\ ~held[d].prepared
                            THEN "prepared" ELSE "none")
    BY <1>3 DEF Swap
  <2>2. held[d] \in StepRecords /\ stored = held[d] /\ stored # NoRecord
    BY <1>3 DEF Swap
  <2>3. /\ next \in StepRecords /\ next # NoRecord
        /\ Shape(stored, next) /\ Keeps(stored, next)
    BY <2>2, StepsFacts, RecordFacts
  <2>4. /\ stored.completed \in Nat /\ stored.prepared \in BOOLEAN
        /\ next.completed \in Nat /\ next.prepared \in BOOLEAN
        /\ Len(started) \in Nat
    BY <2>2, <2>3, RecordFacts
  <2>5. UNCHANGED started
    BY <1>3 DEF Swap
  <2>6. EffectsInOrder' /\ EffectsApproved'
    <3>1. \A k \in DOMAIN started : k \in Nat
      OBVIOUS
    <3> QED
      BY <2>1, <2>3, <2>5, <3>1
      DEF OrderInv, EffectsInOrder, EffectsApproved, Keeps
  <2>7. CASE stored.prepared = TRUE /\ next.prepared = FALSE
    <3>1. next.completed = stored.completed + 1
      BY <2>3, <2>7 DEF Shape
    <3>2. turn[d] = "performed"
      BY <2>1, <2>2, <2>4, <3>1
    <3>3. Len(started) = stored.completed + 1
      BY <3>2 DEF OrderInv, TurnInv
    <3>4. \A e \in Drivers : turn'[e] = "none"
      BY <2>1, <2>7, <3>2 DEF Hold, OrderInv
    <3>5. JournalTrue'
      BY <2>1, <2>3, <2>4, <2>5, <2>7, <3>1, <3>3 DEF JournalTrue
    <3> QED
      BY <2>6, <3>4, <3>5 DEF OrderInv
  <2>8. CASE stored.prepared = FALSE /\ next.prepared = TRUE
    <3>1. next.completed = stored.completed
      BY <2>3, <2>8 DEF Shape
    <3>2. \A e \in Drivers : turn[e] = "none"
      BY <2>8 DEF OrderInv, TurnInv
    <3>3. Len(started) = stored.completed
      BY <2>2, <2>4, <2>8 DEF OrderInv, JournalTrue
    <3>4. /\ turn'[d] = "prepared" /\ held'[d] = next
          /\ \A e \in Drivers \ {d} : turn'[e] = "none"
      BY <2>1, <2>2, <2>8, <3>2 DEF Hold
    <3>5. JournalTrue' /\ TurnInv(d)'
      BY <2>1, <2>3, <2>4, <2>5, <2>8, <3>1, <3>3, <3>4
      DEF JournalTrue, TurnInv
    <3> QED
      BY <2>6, <3>4, <3>5 DEF OrderInv
  <2>9. CASE next.prepared = stored.prepared
    <3>1. next.completed = stored.completed
      BY <2>3, <2>4, <2>9 DEF Shape
    <3>2. /\ turn'[d] = "none"
          /\ \A e \in Drivers \ {d} : turn'[e] = turn[e] /\ held'[e] = held[e]
      BY <2>1, <2>2, <2>9 DEF Hold
    <3>3. JournalTrue'
      BY <2>1, <2>2, <2>3, <2>5, <2>9, <3>1 DEF OrderInv, JournalTrue
    <3>4. ASSUME NEW e \in Drivers, turn'[e] # "none"
          PROVE  TurnInv(e)'
      BY <2>1, <2>3, <2>5, <2>9, <3>1, <3>2, <3>4 DEF OrderInv, TurnInv
    <3>5. \A c, e \in Drivers : turn'[c] # "none" /\ turn'[e] # "none" => c = e
      BY <3>2 DEF OrderInv
    <3> QED
      BY <2>6, <3>3, <3>4, <3>5 DEF OrderInv
  <2> QED
    BY <2>4, <2>7, <2>8, <2>9
<1>4. ASSUME NEW d \in Drivers, StartEffect(d)
      PROVE  OrderInv'
  <2>1. /\ turn[d] = "prepared"
        /\ started' = Append(started, held[d].completed + 1)
        /\ turn' = [turn EXCEPT ![d] = "performed"]
        /\ UNCHANGED <<stored, held>>
    BY <1>4 DEF StartEffect
  <2>2. /\ stored # NoRecord /\ stored.prepared
        /\ held[d].prepared /\ held[d].completed = stored.completed
        /\ Len(started) = stored.completed
        /\ stored \in StepRecords /\ stored.completed \in Nat
    BY <2>1, RecordFacts DEF OrderInv, TurnInv
  <2>3. /\ Len(started') = stored.completed + 1
        /\ DOMAIN started' = 1..(stored.completed + 1)
        /\ started'[stored.completed + 1] = stored.completed + 1
        /\ \A k \in DOMAIN started : started'[k] = started[k]
        /\ DOMAIN started = 1..stored.completed
    BY <2>1, <2>2
  <2>4. JournalTrue'
    BY <2>1, <2>2, <2>3 DEF JournalTrue
  <2>5. EffectsInOrder'
    BY <2>2, <2>3 DEF EffectsInOrder, OrderInv
  <2>6. EffectsApproved'
    <3>1. Approved(stored, stored.completed + 1)
      BY <2>2 DEF StepRecords, Backed
    <3> QED
      BY <2>1, <2>2, <2>3, <3>1 DEF EffectsApproved, OrderInv
  <2>7. \A e \in Drivers : turn'[e] # "none" => e = d
    BY <2>1 DEF OrderInv
  <2>8. TurnInv(d)'
    BY <2>1, <2>2, <2>3 DEF TurnInv
  <2> QED
    BY <2>4, <2>5, <2>6, <2>7, <2>8 DEF OrderInv
<1>5. ASSUME NEW d \in Drivers, PublishCatalogue(d)
      PROVE  OrderInv'
  BY <1>5 DEF PublishCatalogue, OrderInv, TurnInv, JournalTrue,
     EffectsInOrder, EffectsApproved
<1>6. ASSUME NEW d \in Drivers, Abandon(d)
      PROVE  OrderInv'
  BY <1>6 DEF Abandon, Hold, OrderInv, TurnInv, JournalTrue,
     EffectsInOrder, EffectsApproved
<1>7. CASE UNCHANGED vars
  BY <1>7 DEF vars, OrderInv, TurnInv, JournalTrue, EffectsInOrder,
     EffectsApproved
<1> QED
  BY <1>1, <1>2, <1>3, <1>4, <1>5, <1>6, <1>7 DEF Next

LEMMA OrderInvHolds == Spec => []OrderInv
<1>1. Init => OrderInv
  BY DEF Init, OrderInv, JournalTrue, EffectsInOrder, EffectsApproved
<1> QED
  BY <1>1, TypeInvHolds, OrderInvInductive, PTL DEF Spec

(* Effects happen once and in the order of the plan, whatever any number   *)
(* of drivers read, lose or repeat.                                        *)
THEOREM EffectsInOrderHolds == Spec => []EffectsInOrder
BY OrderInvHolds, PTL DEF OrderInv

(* The stored record counts exactly the effects performed, but for the one *)
(* it says is prepared.                                                    *)
THEOREM JournalTrueHolds == Spec => []JournalTrue
BY OrderInvHolds, PTL DEF OrderInv

(* No effect is ever started without the approval of its stage or boundary *)
THEOREM EffectsApprovedHolds == Spec => []EffectsApproved
BY OrderInvHolds, PTL DEF OrderInv
-----------------------------------------------------------------------------
(* The recovery classes, for n effects started *)
Truth(r, n) ==
    /\ n \in Promised(r)
    /\ ContinuationAllowed(r) => n = r.completed
    /\ r.kind = "h0" /\ ~H0!RecoveryVtRequired(r) => n \in {0, H0!EffectCount}

LEMMA ClassesTrue ==
    ASSUME NEW r \in StepRecords, NEW n \in Nat,
           n \in r.completed..(r.completed + IF r.prepared THEN 1 ELSE 0)
    PROVE  Truth(r, n)
<1>n. /\ r.prepared = FALSE => n = r.completed
      /\ r.prepared = TRUE => n \in r.completed..(r.completed + 1)
      /\ r.prepared \in BOOLEAN /\ r.completed \in Nat
      /\ r.prepared = TRUE => r.completed < EffectCount(r)
  BY RecordFacts DEF StepRecords, Backed
<1>1. CASE r \in Install!Record /\ Install!Valid(r)
  <2>1. r.kind = "install"
    BY <1>1 DEF Install!Record
  <2>2. CASE r.prepared = TRUE
    BY <1>1, <2>1, <2>2, <1>n
    DEF Truth, Promised, Class, ContinuationAllowed, EffectCount,
        Install!Record, Install!Valid, Install!Class, Install!StatusOf,
        Install!ContinuationAllowed, Install!EffectCount,
        Install!EffectsByStage
  <2>3. CASE r.prepared = FALSE
    BY <1>1, <2>1, <2>3, <1>n
    DEF Truth, Promised, Class, ContinuationAllowed, EffectCount,
        Install!Record, Install!Valid, Install!Class, Install!StatusOf,
        Install!ContinuationAllowed, Install!EffectCount,
        Install!EffectsByStage
  <2> QED
    BY <1>n, <2>2, <2>3
<1>2. CASE r \in Update!Record /\ Update!Valid(r)
  <2>1. r.kind = "update"
    BY <1>2 DEF Update!Record
  <2>2. CASE r.prepared = TRUE
    BY <1>2, <2>1, <2>2, <1>n
    DEF Truth, Promised, Class, ContinuationAllowed, EffectCount,
        Update!Record, Update!Valid, Update!Class, Update!StatusOf,
        Update!ContinuationAllowed, Update!EffectCount,
        Update!ActivationBoundary
  <2>3. CASE r.prepared = FALSE
    BY <1>2, <2>1, <2>3, <1>n
    DEF Truth, Promised, Class, ContinuationAllowed, EffectCount,
        Update!Record, Update!Valid, Update!Class, Update!StatusOf,
        Update!ContinuationAllowed, Update!EffectCount,
        Update!ActivationBoundary
  <2> QED
    BY <1>n, <2>2, <2>3
<1>3. CASE r \in H0!Record /\ H0!Valid(r)
  <2>1. r.kind = "h0"
    BY <1>3 DEF H0!Record
  <2>2. CASE r.prepared = TRUE
    BY <1>3, <2>1, <2>2, <1>n
    DEF Truth, Promised, Class, ContinuationAllowed, EffectCount,
        H0!Record, H0!Valid, H0!Class, H0!RecoveryVtRequired, H0!Progress,
        H0!EffectCount, H0!GraphicalStartIndex, H0!GraphicalReadyCount,
        H0!TeardownStartIndex
  <2>3. CASE r.prepared = FALSE
    BY <1>3, <2>1, <2>3, <1>n
    DEF Truth, Promised, Class, ContinuationAllowed, EffectCount,
        H0!Record, H0!Valid, H0!Class, H0!RecoveryVtRequired, H0!Progress,
        H0!EffectCount, H0!GraphicalStartIndex, H0!GraphicalReadyCount,
        H0!TeardownStartIndex
  <2> QED
    BY <1>n, <2>2, <2>3
<1>4. CASE r \in Promotion!Record /\ Promotion!Valid(r)
  <2>1. r.kind = "promotion"
    BY <1>4 DEF Promotion!Record
  <2>2. CASE r.prepared = TRUE
    BY <1>4, <2>1, <2>2, <1>n
    DEF Truth, Promised, Class, ContinuationAllowed, EffectCount,
        Promotion!Record, Promotion!Valid, Promotion!Class,
        Promotion!StatusFor, Promotion!ContinuationAllowed,
        Promotion!EffectCount,
        Promotion!ImportStepCount, Promotion!VerificationStepCount
  <2>3. CASE r.prepared = FALSE
    BY <1>4, <2>1, <2>3, <1>n
    DEF Truth, Promised, Class, ContinuationAllowed, EffectCount,
        Promotion!Record, Promotion!Valid, Promotion!Class,
        Promotion!StatusFor, Promotion!ContinuationAllowed,
        Promotion!EffectCount,
        Promotion!ImportStepCount, Promotion!VerificationStepCount
  <2> QED
    BY <1>n, <2>2, <2>3
<1>5. CASE r \in Attachment!Record /\ Attachment!Valid(r)
  <2>1. r.kind = "attachment"
    BY <1>5 DEF Attachment!Record
  <2>2. CASE r.prepared = TRUE
    BY <1>5, <2>1, <2>2, <1>n
    DEF Truth, Promised, Class, ContinuationAllowed, EffectCount,
        Attachment!Record, Attachment!Valid, Attachment!Class,
        Attachment!StatusOf, Attachment!ContinuationAllowed,
        Attachment!EffectCount, Attachment!AttachCount
  <2>3. CASE r.prepared = FALSE
    BY <1>5, <2>1, <2>3, <1>n
    DEF Truth, Promised, Class, ContinuationAllowed, EffectCount,
        Attachment!Record, Attachment!Valid, Attachment!Class,
        Attachment!StatusOf, Attachment!ContinuationAllowed,
        Attachment!EffectCount, Attachment!AttachCount
  <2> QED
    BY <1>n, <2>2, <2>3
<1> QED
  BY <1>1, <1>2, <1>3, <1>4, <1>5 DEF StepRecords, Records

(* What recovery says of the stored record is true of the host. *)
THEOREM RecoveryTrueHolds == Spec => []RecoveryTrue
<1>1. TypeInv /\ OrderInv => RecoveryTrue
  <2> SUFFICES ASSUME TypeInv, OrderInv, stored # NoRecord
               PROVE  Truth(stored, Len(started))
    BY DEF RecoveryTrue, Truth
  <2>1. stored \in StepRecords /\ Len(started) \in Nat
    BY DEF TypeInv, TypeOK
  <2>2. Len(started) \in
            stored.completed..(stored.completed + IF stored.prepared THEN 1 ELSE 0)
    BY DEF OrderInv, JournalTrue
  <2> QED
    BY <2>1, <2>2, ClassesTrue
<1> QED
  BY <1>1, TypeInvHolds, OrderInvHolds, PTL
-----------------------------------------------------------------------------
(* An admitted promotion is the end of its journal *)
CatalogueInv ==
    catalogue # NoRecord =>
        /\ stored = catalogue
        /\ stored.kind = "promotion" /\ Promotion!Releasable(stored)

LEMMA AdmittedIsLast ==
    ASSUME NEW r \in Records, r.kind = "promotion", Promotion!Releasable(r)
    PROVE  /\ Steps(r) = {}
           /\ r.prepared = FALSE /\ r.completed = 10 /\ r.approved = TRUE
<1>1. r \in Promotion!Record /\ Promotion!Valid(r)
  BY DEF Records, Install!Record, Update!Record, H0!Record, Promotion!Record,
     Attachment!Record
<1>2. r.prepared = FALSE /\ r.completed = 10 /\ r.approved = TRUE
  BY <1>1 DEF Promotion!Releasable, Promotion!Record, Promotion!Valid,
     Promotion!StatusFor, Promotion!EffectCount, Promotion!VerificationStepCount
<1>3. Promotion!Steps(r) = {}
  BY <1>2 DEF Promotion!Releasable, Promotion!Steps, Promotion!PrepareNextStep,
     Promotion!RecordStepSuccess, Promotion!BindAdmissionApproval,
     Promotion!MarkIncomplete, Promotion!EffectCount
<1> QED
  BY <1>2, <1>3 DEF Steps

LEMMA CatalogueInvInductive ==
    TypeInv /\ CatalogueInv /\ [Next]_vars => CatalogueInv'
<1> SUFFICES ASSUME TypeInv, CatalogueInv, [Next]_vars
             PROVE  CatalogueInv'
  OBVIOUS
<1> USE DEF CatalogueInv
<1>a. stored \in Records \cup {NoRecord} /\ NoRecord \notin Records
  BY NoRecordAssumption DEF TypeInv, TypeOK
<1>1. ASSUME NEW d \in Drivers, PublishNew(d)
      PROVE  CatalogueInv'
  BY <1>1 DEF PublishNew
<1>2. ASSUME NEW d \in Drivers, Read(d)
      PROVE  CatalogueInv'
  BY <1>2 DEF Read
<1>3. ASSUME NEW d \in Drivers, Swap(d)
      PROVE  CatalogueInv'
  <2>1. Steps(stored) # {} /\ stored # NoRecord
    BY <1>3 DEF Swap
  <2>2. catalogue = NoRecord
    BY <1>a, <2>1, AdmittedIsLast
  <2> QED
    BY <1>3, <2>2 DEF Swap
<1>4. ASSUME NEW d \in Drivers, StartEffect(d)
      PROVE  CatalogueInv'
  BY <1>4 DEF StartEffect
<1>5. ASSUME NEW d \in Drivers, PublishCatalogue(d)
      PROVE  CatalogueInv'
  BY <1>5 DEF PublishCatalogue
<1>6. ASSUME NEW d \in Drivers, Abandon(d)
      PROVE  CatalogueInv'
  BY <1>6 DEF Abandon
<1>7. CASE UNCHANGED vars
  BY <1>7 DEF vars
<1> QED
  BY <1>1, <1>2, <1>3, <1>4, <1>5, <1>6, <1>7 DEF Next

(* What the catalogue holds was admitted after all ten steps and a         *)
(* separate approval, and does not change.                                 *)
THEOREM CatalogueAdmittedHolds == Spec => []CatalogueAdmitted
<1>1. Init => CatalogueInv
  BY DEF Init, CatalogueInv
<1>2. TypeInv /\ OrderInv /\ CatalogueInv => CatalogueAdmitted
  <2> SUFFICES ASSUME TypeInv, OrderInv, CatalogueInv, catalogue # NoRecord
               PROVE  /\ stored = catalogue
                      /\ Len(started) = 10
                      /\ catalogue.approved
    BY DEF CatalogueAdmitted, Promotion!EffectCount
  <2>1. stored \in Records /\ stored = catalogue /\ stored # NoRecord
    BY NoRecordAssumption DEF TypeInv, TypeOK, CatalogueInv
  <2>2. stored.prepared = FALSE /\ stored.completed = 10 /\ stored.approved = TRUE
    BY <2>1, AdmittedIsLast DEF CatalogueInv
  <2>3. Len(started) \in stored.completed..(stored.completed + 0)
    BY <2>1, <2>2 DEF OrderInv, JournalTrue
  <2>4. Len(started) = 10
    BY <2>2, <2>3
  <2> QED
    BY <2>1, <2>2, <2>4
<1> QED
  BY <1>1, <1>2, TypeInvHolds, OrderInvHolds, CatalogueInvInductive,
     PTL DEF Spec
-----------------------------------------------------------------------------
(***************************************************************************)
(* The journals implement StagedEffects.  Every step of one is one of five *)
(***************************************************************************)
SameGrants(r, s) == \A k \in Nat : Approved(r, k) <=> Approved(s, k)

Prepares(r, s) ==
    /\ ~r.prepared /\ s.prepared /\ s.completed = r.completed
    /\ SameGrants(r, s) /\ Outcome(s) = "open"

Succeeds(r, s) ==
    /\ r.prepared /\ ~s.prepared /\ s.completed = r.completed + 1
    /\ SameGrants(r, s)
    /\ \/ Outcome(s) = "open"
       \/ Outcome(s) = "complete" /\ s.completed = EffectCount(s)

Grants(r, s) ==
    /\ ~r.prepared /\ ~s.prepared /\ s.completed = r.completed
    /\ r.completed < EffectCount(r)
    /\ ~Approved(r, r.completed + 1) /\ Approved(s, r.completed + 1)
    /\ Outcome(s) = "open"

Ends(r, s) ==
    /\ s.prepared = r.prepared /\ s.completed = r.completed
    /\ SameGrants(r, s)
    /\ \/ Outcome(s) = "given-up"
       \/ Outcome(s) = "complete" /\ s.completed = EffectCount(s)

Remarks(r, s) ==
    /\ s.prepared = r.prepared /\ s.completed = r.completed
    /\ SameGrants(r, s) /\ Outcome(s) = "open"

OneStep(r, s) ==
    /\ s.kind = r.kind /\ Outcome(r) = "open"
    /\ \/ Prepares(r, s) \/ Succeeds(r, s) \/ Grants(r, s) \/ Ends(r, s)
       \/ Remarks(r, s)

LEMMA H0OneStep ==
    ASSUME NEW r \in H0!Record, H0!Valid(r), NEW s \in H0!Steps(r)
    PROVE  OneStep(r, s)
<1> USE DEF H0!Record, H0!EffectCount, H0!Statuses, H0!Terminal, Outcome,
            SameGrants, Approved, EffectCount
<1>1. CASE s \in H0!PrepareNextEffect(r)
  <2>1. Prepares(r, s) /\ s.kind = r.kind /\ Outcome(r) = "open"
    BY <1>1 DEF H0!PrepareNextEffect, Prepares
  <2>. QED  BY <2>1 DEF OneStep
<1>2. CASE s \in H0!RecordEffectSuccess(r)
  <2>1. /\ s = [r EXCEPT !.completed = @ + 1, !.prepared = FALSE,
                         !.status = H0!Progress(r.completed + 1)]
        /\ r.prepared /\ r.status = "effect-prepared"
    BY <1>2 DEF H0!RecordEffectSuccess
  <2>2. /\ s.kind = r.kind /\ s.completed = r.completed + 1 /\ ~s.prepared
        /\ s.status = H0!Progress(s.completed)
    BY <2>1
  <2>3. r.completed < 10
    BY <2>1 DEF H0!Valid
  <2>4. Outcome(s) = "open" \/ (Outcome(s) = "complete" /\ s.completed = 10)
    BY <2>2, <2>3 DEF H0!Progress, H0!GraphicalStartIndex,
                      H0!GraphicalReadyCount, H0!TeardownStartIndex
  <2>5. Succeeds(r, s) /\ Outcome(r) = "open"
    BY <2>1, <2>2, <2>4 DEF Succeeds
  <2>. QED  BY <2>2, <2>5 DEF OneStep
<1>3. CASE s \in H0!MarkUncertain(r)
  <2>1. Ends(r, s) /\ s.kind = r.kind /\ Outcome(r) = "open"
    BY <1>3 DEF H0!MarkUncertain, Ends
  <2>. QED  BY <2>1 DEF OneStep
<1>. QED  BY <1>1, <1>2, <1>3 DEF H0!Steps

LEMMA UpdateOneStep ==
    ASSUME NEW r \in Update!Record, Update!Valid(r), NEW s \in Update!Steps(r)
    PROVE  OneStep(r, s)
<1> USE DEF Update!Record, Update!EffectCount, Update!ActivationBoundary,
            Update!Statuses, Update!Terminal, Outcome, SameGrants, Approved,
            Update!Approved, EffectCount
<1>1. CASE s \in Update!PrepareNextEffect(r)
  <2>1. Prepares(r, s) /\ s.kind = r.kind /\ Outcome(r) = "open"
    BY <1>1 DEF Update!PrepareNextEffect, Prepares
  <2>. QED  BY <2>1 DEF OneStep
<1>2. CASE s \in Update!RecordEffectSuccess(r)
  <2>1. /\ r.prepared /\ r.status = "effect-prepared"
        /\ s.kind = r.kind /\ s.completed = r.completed + 1 /\ ~s.prepared
        /\ s.approved = r.approved
    BY <1>2 DEF Update!RecordEffectSuccess
  <2>2. s.status = IF s.completed = 4
                   THEN "verified-awaiting-activation-approval"
                   ELSE IF s.completed = 10
                   THEN "installed-rollback-retained"
                   ELSE IF s.completed < 4
                   THEN "importing-and-verifying"
                   ELSE "activating-and-verifying"
    BY <1>2, <2>1 DEF Update!RecordEffectSuccess
  <2>3. Outcome(s) = "open" \/ (Outcome(s) = "complete" /\ s.completed = 10)
    BY <2>2
  <2>4. Succeeds(r, s) /\ Outcome(r) = "open"
    BY <2>1, <2>3 DEF Succeeds
  <2>. QED  BY <2>1, <2>4 DEF OneStep
<1>3. CASE s \in Update!BindActivationApproval(r)
  <2>1. r.completed = 4 /\ ~r.approved /\ ~r.prepared
    BY <1>3 DEF Update!BindActivationApproval, Update!Valid, Update!StatusOf
  <2>2. /\ s.kind = r.kind /\ s.completed = r.completed
        /\ ~s.prepared /\ s.approved /\ s.status = "activation-approved"
    BY <1>3, <2>1 DEF Update!BindActivationApproval
  <2>3. Grants(r, s) /\ Outcome(r) = "open"
    BY <1>3, <2>1, <2>2 DEF Update!BindActivationApproval, Grants
  <2>. QED  BY <2>2, <2>3 DEF OneStep
<1>4. CASE s \in Update!MarkUncertain(r)
  <2>1. Ends(r, s) /\ s.kind = r.kind /\ Outcome(r) = "open"
    BY <1>4 DEF Update!MarkUncertain, Ends
  <2>. QED  BY <2>1 DEF OneStep
<1>. QED  BY <1>1, <1>2, <1>3, <1>4 DEF Update!Steps

LEMMA PromotionOneStep ==
    ASSUME NEW r \in Promotion!Record, Promotion!Valid(r),
           NEW s \in Promotion!Steps(r)
    PROVE  OneStep(r, s)
<1> USE DEF Promotion!Record, Promotion!EffectCount, Promotion!Statuses,
            Promotion!ImportStepCount, Promotion!VerificationStepCount,
            Outcome, SameGrants, Approved, Promotion!Approved, EffectCount
<1>1. CASE s \in Promotion!PrepareNextStep(r)
  <2>1. Prepares(r, s) /\ s.kind = r.kind /\ Outcome(r) = "open"
    BY <1>1 DEF Promotion!PrepareNextStep, Prepares
  <2>. QED  BY <2>1 DEF OneStep
<1>2. CASE s \in Promotion!RecordStepSuccess(r)
  <2>1. /\ r.prepared /\ r.status = "effect-prepared"
        /\ s.kind = r.kind /\ s.completed = r.completed + 1 /\ ~s.prepared
        /\ s.approved = r.approved
    BY <1>2 DEF Promotion!RecordStepSuccess
  <2>2. s.status = Promotion!StatusFor(s.completed, FALSE)
    BY <1>2, <2>1 DEF Promotion!RecordStepSuccess
  <2>3. r.completed < 10
    BY <2>1 DEF Promotion!Valid
  <2>4. Outcome(s) = "open" \/ (Outcome(s) = "complete" /\ s.completed = 10)
    BY <2>1, <2>2, <2>3 DEF Promotion!StatusFor
  <2>5. Succeeds(r, s) /\ Outcome(r) = "open"
    BY <2>1, <2>4 DEF Succeeds
  <2>. QED  BY <2>1, <2>5 DEF OneStep
<1>3. CASE s \in Promotion!BindAdmissionApproval(r)
  <2>1. r.completed = 8 /\ ~r.approved /\ ~r.prepared
    BY <1>3 DEF Promotion!BindAdmissionApproval, Promotion!Valid,
                Promotion!StatusFor
  <2>2. /\ s.kind = r.kind /\ s.completed = r.completed
        /\ ~s.prepared /\ s.approved /\ s.status = r.status
    BY <1>3, <2>1 DEF Promotion!BindAdmissionApproval
  <2>3. Grants(r, s) /\ Outcome(r) = "open"
    BY <1>3, <2>1, <2>2 DEF Promotion!BindAdmissionApproval, Grants
  <2>. QED  BY <2>2, <2>3 DEF OneStep
<1>4. CASE s \in Promotion!MarkIncomplete(r)
  <2>1. Ends(r, s) /\ s.kind = r.kind /\ Outcome(r) = "open"
    BY <1>4 DEF Promotion!MarkIncomplete, Ends
  <2>. QED  BY <2>1 DEF OneStep
<1>. QED  BY <1>1, <1>2, <1>3, <1>4 DEF Promotion!Steps

LEMMA AttachmentOneStep ==
    ASSUME NEW r \in Attachment!Record, Attachment!Valid(r),
           NEW s \in Attachment!Steps(r)
    PROVE  OneStep(r, s)
<1> USE DEF Attachment!Record, Attachment!EffectCount, Attachment!AttachCount,
            Attachment!Statuses, Attachment!Terminal, Outcome, SameGrants,
            Approved, Attachment!Approved, EffectCount
<1>1. CASE s \in Attachment!PrepareNextStep(r)
  <2>1. Prepares(r, s) /\ s.kind = r.kind /\ Outcome(r) = "open"
    BY <1>1 DEF Attachment!PrepareNextStep, Prepares
  <2>. QED  BY <2>1 DEF OneStep
<1>2. CASE s \in Attachment!RecordStepSuccess(r)
  <2>1. /\ r.prepared /\ r.status = "effect-prepared"
        /\ s.kind = r.kind /\ s.completed = r.completed + 1 /\ ~s.prepared
        /\ s.approved = r.approved
    BY <1>2 DEF Attachment!RecordStepSuccess
  <2>2. s.status = IF r.completed < 6
                   THEN IF s.completed = 6
                        THEN "attached-stopped" ELSE "attaching"
                   ELSE IF s.completed = 12 THEN "detached" ELSE "detaching"
    BY <1>2, <2>1 DEF Attachment!RecordStepSuccess
  <2>3. Outcome(s) = "open" \/ (Outcome(s) = "complete" /\ s.completed = 12)
    BY <2>2
  <2>4. Succeeds(r, s) /\ Outcome(r) = "open"
    BY <2>1, <2>3 DEF Succeeds
  <2>. QED  BY <2>1, <2>4 DEF OneStep
<1>3. CASE s \in Attachment!RecordActivation(r)
  <2>1. Remarks(r, s) /\ s.kind = r.kind /\ Outcome(r) = "open"
    BY <1>3 DEF Attachment!RecordActivation, Remarks
  <2>. QED  BY <2>1 DEF OneStep
<1>4. CASE s \in Attachment!BeginDetach(r)
  <2>1. r.completed = 6 /\ ~r.approved /\ ~r.prepared
    BY <1>4 DEF Attachment!BeginDetach, Attachment!Valid, Attachment!StatusOf
  <2>2. /\ s.kind = r.kind /\ s.completed = r.completed
        /\ ~s.prepared /\ s.approved /\ s.status = "detach-planned"
    BY <1>4, <2>1 DEF Attachment!BeginDetach
  <2>3. Grants(r, s) /\ Outcome(r) = "open"
    BY <1>4, <2>1, <2>2 DEF Attachment!BeginDetach, Grants
  <2>. QED  BY <2>2, <2>3 DEF OneStep
<1>5. CASE s \in Attachment!MarkUncertain(r)
  <2>1. Ends(r, s) /\ s.kind = r.kind /\ Outcome(r) = "open"
    BY <1>5 DEF Attachment!MarkUncertain, Ends
  <2>. QED  BY <2>1 DEF OneStep
<1>. QED  BY <1>1, <1>2, <1>3, <1>4, <1>5 DEF Attachment!Steps

(* No effect belongs to two stages *)
LEMMA StagesDisjoint ==
    ASSUME NEW a \in Install!Stages, NEW b \in Install!Stages,
           NEW k \in Nat,
           k \in Install!EffectsByStage[a], k \in Install!EffectsByStage[b]
    PROVE  a = b
  BY DEF Install!Stages, Install!EffectsByStage

LEMMA InstallOneStep ==
    ASSUME NEW r \in Install!Record, Install!Valid(r),
           NEW s \in Install!Steps(r)
    PROVE  OneStep(r, s)
<1> USE DEF Install!Record, Install!EffectCount, Install!Statuses, Outcome,
            SameGrants, Approved, Install!Approved, EffectCount
<1>1. CASE s \in Install!PrepareNextEffect(r)
  <2>1. Prepares(r, s) /\ s.kind = r.kind /\ Outcome(r) = "open"
    BY <1>1 DEF Install!PrepareNextEffect, Prepares
  <2>. QED  BY <2>1 DEF OneStep
<1>2. CASE s \in Install!RecordEffectSuccess(r)
  <2>1. /\ r.prepared /\ r.status = "effect-prepared"
        /\ s.kind = r.kind /\ s.completed = r.completed + 1 /\ ~s.prepared
        /\ s.approvals = r.approvals
    BY <1>2 DEF Install!RecordEffectSuccess
  <2>2. s.status = IF s.completed = 35 THEN "verifying-final" ELSE "executing"
    BY <1>2, <2>1 DEF Install!RecordEffectSuccess
  <2>3. Succeeds(r, s) /\ Outcome(r) = "open"
    BY <2>1, <2>2 DEF Succeeds
  <2>. QED  BY <2>1, <2>3 DEF OneStep
<1>3. CASE s \in Install!BindStageApproval(r)
  <2>1. PICK stage \in Install!CurrentStage(r) \cap Install!ApprovedStages :
           /\ s = [r EXCEPT !.approvals = @ \cup {stage}]
           /\ ~r.prepared /\ stage \notin r.approvals
           /\ r.status \notin {"complete", "incomplete"}
    BY <1>3 DEF Install!BindStageApproval
  <2>2. /\ s.kind = r.kind /\ s.completed = r.completed
        /\ ~s.prepared /\ s.status = r.status
        /\ s.approvals = r.approvals \cup {stage}
    BY <2>1
  <2>3. /\ stage \in Install!Stages
        /\ r.completed + 1 \in Install!EffectsByStage[stage]
    BY <2>1 DEF Install!CurrentStage
  <2>4. r.completed < 35
    BY <2>3 DEF Install!Stages, Install!EffectsByStage
  <2>5. ~Approved(r, r.completed + 1)
    BY <2>1, <2>3
  <2>6. \A t \in Install!ApprovedStages :
            r.completed + 1 \in Install!EffectsByStage[t] => t = stage
    BY <2>3, StagesDisjoint DEF Install!ApprovedStages
  <2>7. Approved(s, r.completed + 1)
    BY <2>2, <2>6
  <2>8. Outcome(r) = "open" /\ Outcome(s) = "open"
    BY <2>1, <2>2
  <2>. HIDE DEF Outcome, Approved
  <2>9. Grants(r, s)
    BY <2>1, <2>2, <2>4, <2>5, <2>7, <2>8 DEF Grants
  <2>. QED  BY <2>2, <2>8, <2>9 DEF OneStep
<1>4. CASE s \in Install!CompleteInstall(r) \/ s \in Install!MarkIncomplete(r)
  <2>1. Ends(r, s) /\ s.kind = r.kind /\ Outcome(r) = "open"
    BY <1>4 DEF Install!CompleteInstall, Install!MarkIncomplete, Ends
  <2>. QED  BY <2>1 DEF OneStep
<1>. QED  BY <1>1, <1>2, <1>3, <1>4 DEF Install!Steps

LEMMA OneStepEach ==
    ASSUME NEW r \in StepRecords, NEW s \in Steps(r)
    PROVE  OneStep(r, s)
<1>1. CASE r \in Install!Record /\ Install!Valid(r)
  BY <1>1, InstallOneStep DEF Steps, Install!Record
<1>2. CASE r \in Update!Record /\ Update!Valid(r)
  BY <1>2, UpdateOneStep DEF Steps, Update!Record
<1>3. CASE r \in H0!Record /\ H0!Valid(r)
  BY <1>3, H0OneStep DEF Steps, H0!Record
<1>4. CASE r \in Promotion!Record /\ Promotion!Valid(r)
  BY <1>4, PromotionOneStep DEF Steps, Promotion!Record
<1>5. CASE r \in Attachment!Record /\ Attachment!Valid(r)
  BY <1>5, AttachmentOneStep DEF Steps, Attachment!Record
<1>. QED  BY <1>1, <1>2, <1>3, <1>4, <1>5 DEF StepRecords, Records

(* A record counts the effects of a plan of its kind. *)
Kinds == {"install", "update", "h0", "promotion", "attachment"}
Counts == [install |-> Install!EffectCount, update |-> Update!EffectCount,
           h0 |-> H0!EffectCount, promotion |-> Promotion!EffectCount,
           attachment |-> Attachment!EffectCount]

LEMMA KindFacts ==
    ASSUME NEW r \in StepRecords
    PROVE  /\ r.kind \in Kinds /\ r.kind # "none"
           /\ EffectCount(r) = Counts[r.kind] /\ EffectCount(r) \in Nat
           /\ r.completed \in Nat /\ r.prepared \in BOOLEAN
  BY DEF StepRecords, Records, Install!Record, Update!Record, H0!Record,
         Promotion!Record, Attachment!Record, Kinds, Counts, EffectCount,
         Install!EffectCount, Update!EffectCount, H0!EffectCount,
         Promotion!EffectCount, Attachment!EffectCount

LEMMA GrantedFacts ==
    ASSUME NEW r \in StepRecords, NEW s \in StepRecords, s.kind = r.kind,
           Keeps(r, s)
    PROVE  /\ Granted(r) \subseteq Granted(s)
           /\ SameGrants(r, s) => Granted(s) = Granted(r)
<1>1. EffectCount(s) = EffectCount(r) /\ EffectCount(r) \in Nat
  BY KindFacts
<1>. QED  BY <1>1 DEF Granted, Keeps, SameGrants

LEMMA NewGranted ==
    ASSUME NEW r \in NewRecords
    PROVE  Outcome(r) = "open"
  BY DEF NewRecords, Install!New, Update!New, H0!New, Promotion!New,
         Attachment!New, Outcome

(* What StagedEffects sees of the journal *)
View == <<IF stored = NoRecord THEN "none" ELSE stored.kind,
          IF stored = NoRecord THEN {} ELSE Granted(stored),
          stored # NoRecord /\ stored.prepared,
          Len(started),
          IF stored = NoRecord THEN 0 ELSE stored.completed,
          IF stored = NoRecord THEN "open" ELSE Outcome(stored),
          catalogue # NoRecord>>

LEMMA SameJournal ==
    ASSUME UNCHANGED View
    PROVE  UNCHANGED Effects!vars
  BY DEF View, Effects!vars

LEMMA SwapStep ==
    ASSUME TypeInv, OrderInv, NEW d \in Drivers, Swap(d)
    PROVE  [Effects!Next]_(Effects!vars)
<1>1. PICK next \in Steps(stored) :
         /\ stored' = next /\ stored # NoRecord
         /\ next.completed > stored.completed => turn[d] = "performed"
         /\ UNCHANGED <<started, catalogue>>
  BY DEF Swap
<1>2. stored \in StepRecords
  BY <1>1 DEF TypeInv
<1>3. next \in StepRecords /\ Keeps(stored, next) /\ OneStep(stored, next)
  BY <1>2, StepsFacts, OneStepEach
<1>4. next # NoRecord /\ next.kind = stored.kind /\ Outcome(stored) = "open"
  BY <1>3, RecordFacts DEF OneStep
<1>5. /\ stored.kind \in Kinds /\ stored.kind # "none"
      /\ EffectCount(stored) = Counts[stored.kind]
      /\ EffectCount(next) = Counts[stored.kind]
      /\ EffectCount(stored) \in Nat
      /\ stored.completed \in Nat /\ stored.prepared \in BOOLEAN
      /\ next.completed \in Nat /\ next.prepared \in BOOLEAN
  BY <1>2, <1>3, <1>4, KindFacts
<1>6. /\ Granted(stored) \subseteq Granted(next)
      /\ SameGrants(stored, next) => Granted(next) = Granted(stored)
      /\ Granted(next) \subseteq 1..EffectCount(stored)
  BY <1>2, <1>3, <1>4, <1>5, GrantedFacts DEF Granted
<1>7. (catalogue' # NoRecord) = (catalogue # NoRecord)
  BY <1>1
<1>8. CASE Prepares(stored, next)
  <2>1. /\ ~stored.prepared /\ next.prepared
        /\ next.completed = stored.completed
        /\ SameGrants(stored, next) /\ Outcome(next) = "open"
    BY <1>8 DEF Prepares
  <2>2. stored.completed + 1 \in Granted(next)
    BY <1>3, <1>5, <2>1 DEF Keeps, Backed, Granted
  <2>3. Effects!Prepare
    BY <1>1, <1>4, <1>5, <1>6, <1>7, <2>1, <2>2 DEF Effects!Prepare
  <2>. QED  BY <2>3 DEF Effects!Next
<1>9. CASE Succeeds(stored, next)
  <2>1. /\ stored.prepared /\ ~next.prepared
        /\ next.completed = stored.completed + 1
        /\ SameGrants(stored, next)
        /\ \/ Outcome(next) = "open"
           \/ Outcome(next) = "complete" /\ next.completed = EffectCount(next)
    BY <1>9 DEF Succeeds
  <2>2. Len(started) = stored.completed + 1
    BY <1>1, <1>5, <2>1 DEF OrderInv, TurnInv
  <2>3. Effects!Record
    BY <1>1, <1>4, <1>5, <1>6, <1>7, <2>1, <2>2 DEF Effects!Record, Counts
  <2>. QED  BY <2>3 DEF Effects!Next
<1>10. CASE Grants(stored, next)
  <2>1. /\ ~stored.prepared /\ ~next.prepared
        /\ next.completed = stored.completed
        /\ stored.completed < EffectCount(stored)
        /\ ~Approved(stored, stored.completed + 1)
        /\ Approved(next, stored.completed + 1)
        /\ Outcome(next) = "open"
    BY <1>10 DEF Grants
  <2>2. stored.completed + 1 \in Granted(next) \ Granted(stored)
    BY <1>5, <2>1 DEF Granted
  <2>3. Effects!Grant
    BY <1>1, <1>4, <1>5, <1>6, <1>7, <2>1, <2>2
       DEF Effects!Grant, Effects!Plan, Counts
  <2>. QED  BY <2>3 DEF Effects!Next
<1>11. CASE Ends(stored, next)
  <2>1. /\ next.prepared = stored.prepared
        /\ next.completed = stored.completed
        /\ SameGrants(stored, next)
        /\ \/ Outcome(next) = "given-up"
           \/ Outcome(next) = "complete" /\ next.completed = EffectCount(next)
    BY <1>11 DEF Ends
  <2>2. CASE Outcome(next) = "given-up"
    <3>1. Effects!GiveUp
      BY <1>1, <1>4, <1>5, <1>6, <1>7, <2>1, <2>2 DEF Effects!GiveUp
    <3>. QED  BY <3>1 DEF Effects!Next
  <2>3. CASE Outcome(next) = "complete" /\ next.completed = EffectCount(next)
    <3>1. Effects!Complete
      BY <1>1, <1>4, <1>5, <1>6, <1>7, <2>1, <2>3
         DEF Effects!Complete, Counts
    <3>. QED  BY <3>1 DEF Effects!Next
  <2>. QED  BY <2>1, <2>2, <2>3
<1>12. CASE Remarks(stored, next)
  <2>1. UNCHANGED View
    BY <1>1, <1>4, <1>6, <1>7, <1>12 DEF Remarks, View
  <2>. QED  BY <2>1, SameJournal
<1>. QED  BY <1>3, <1>8, <1>9, <1>10, <1>11, <1>12 DEF OneStep

LEMMA EffectsStep ==
    ASSUME TypeInv, OrderInv, [Next]_vars
    PROVE  [Effects!Next]_(Effects!vars)
<1>1. ASSUME NEW d \in Drivers, PublishNew(d)
      PROVE  [Effects!Next]_(Effects!vars)
  <2>1. PICK r \in NewRecords : stored' = r
    BY <1>1 DEF PublishNew
  <2>2. /\ stored = NoRecord /\ UNCHANGED <<started, catalogue>>
        /\ Len(started) = 0
    BY <1>1 DEF PublishNew, OrderInv, JournalTrue
  <2>3. /\ r \in StepRecords /\ r # NoRecord
        /\ r.completed = 0 /\ r.prepared = FALSE /\ Outcome(r) = "open"
    BY NewFacts, RecordFacts, NewGranted
  <2>4. /\ r.kind \in Kinds /\ EffectCount(r) = Counts[r.kind]
        /\ Granted(r) \subseteq 1..EffectCount(r)
    BY <2>3, KindFacts DEF Granted
  <2>5. Effects!Open
    BY <2>1, <2>2, <2>3, <2>4 DEF Effects!Open, Effects!Plan, Kinds, Counts
  <2>. QED  BY <2>5 DEF Effects!Next
<1>2. ASSUME NEW d \in Drivers, Read(d) \/ Abandon(d)
      PROVE  [Effects!Next]_(Effects!vars)
  BY <1>2, SameJournal DEF Read, Abandon, View
<1>3. ASSUME NEW d \in Drivers, Swap(d)
      PROVE  [Effects!Next]_(Effects!vars)
  BY <1>3, SwapStep
<1>4. ASSUME NEW d \in Drivers, StartEffect(d)
      PROVE  [Effects!Next]_(Effects!vars)
  <2>0. TurnInv(d) /\ turn[d] = "prepared"
    BY <1>4 DEF StartEffect, OrderInv
  <2>. stored.completed \in Nat
    BY <2>0, KindFacts DEF TurnInv, TypeInv
  <2>1. /\ stored # NoRecord /\ stored.prepared
        /\ Len(started) = stored.completed
    BY <2>0 DEF TurnInv
  <2>2. started \in Seq(Nat) /\ started' = Append(started, held[d].completed + 1)
        /\ UNCHANGED <<stored, catalogue>>
    BY <1>4 DEF StartEffect, TypeInv, TypeOK
  <2>3. Len(started') = Len(started) + 1
    BY <2>2, <1>4 DEF TypeInv, TypeOK
  <2>4. Effects!Begin
    BY <2>1, <2>2, <2>3 DEF Effects!Begin
  <2>. QED  BY <2>4 DEF Effects!Next
<1>5. ASSUME NEW d \in Drivers, PublishCatalogue(d)
      PROVE  [Effects!Next]_(Effects!vars)
  <2>1. /\ stored # NoRecord /\ stored.kind = "promotion"
        /\ Outcome(stored) = "complete"
        /\ catalogue' # NoRecord /\ UNCHANGED <<stored, started>>
    BY <1>5 DEF PublishCatalogue, Promotion!Releasable, Outcome
  <2>2. Effects!List
    BY <2>1 DEF Effects!List
  <2>. QED  BY <2>2 DEF Effects!Next
<1>6. CASE UNCHANGED vars
  BY <1>6, SameJournal DEF vars, View
<1>. QED  BY <1>1, <1>2, <1>3, <1>4, <1>5, <1>6 DEF Next

(* The five step journals implement one specification of staged effects:   *)
(* for any drivers, of whatever kind the operation is, its effects are     *)
(* approved when they are next, prepared, begun once and recorded in turn, *)
(* and nothing is added to an operation that is complete or given up.      *)
THEOREM StagedEffectsImplemented == Spec => ImplementsStagedEffects
<1>1. Init => Effects!Init
  BY DEF Init, Effects!Init
<1>2. TypeInv /\ OrderInv /\ [Next]_vars => [Effects!Next]_(Effects!vars)
  BY EffectsStep
<1>. QED  BY <1>1, <1>2, TypeInvHolds, OrderInvHolds, PTL
          DEF Spec, ImplementsStagedEffects, Effects!Spec
=============================================================================
