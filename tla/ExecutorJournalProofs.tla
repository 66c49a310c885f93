----------------------- MODULE ExecutorJournalProofs -----------------------
(***************************************************************************)
(* What the operations of ExecutorJournal return, for every number of      *)
(* effects, every set of resources and every set of observations.          *)
(***************************************************************************)
EXTENDS ExecutorJournal, FiniteSetTheorems, TLAPS

(* assess_recovery always returns one of RECOVERY_CLASSES. *)
LEMMA AssessRecoveryType ==
    ASSUME NEW j, NEW approval, NEW gates
    PROVE  AssessRecovery(j, approval, gates) \in RecoveryClasses
BY DEF AssessRecovery, RecoveryClasses

(* create_journal returns a journal that validates. *)
LEMMA NewJournalStored == NewJournal \in StoredJournal
<1>1. NewJournal \in Journal
  BY EffectCountAssumption
     DEF NewJournal, Journal, NoEffect, Statuses, RecoveryClasses
<1>2. Recorded(NewJournal.resources) = {}
  BY DEF NewJournal, Recorded
<1>3. Cardinality(Recorded(NewJournal.resources)) <= MaxResources
  BY <1>2, FS_EmptySet, MaxResourcesAssumption
<1>4. ValidJournal(NewJournal)
  BY <1>2, <1>3, EffectCountAssumption
     DEF ValidJournal, NewJournal, NoEffect
<1>. QED  BY <1>1, <1>4 DEF StoredJournal

(* _next returns nothing but journals that validate. *)
LEMMA ValidatedStored ==
    ASSUME NEW j \in Journal
    PROVE  Validated(j) \subseteq StoredJournal
BY DEF Validated, StoredJournal

(* The operations that need no evidence lead from stored journals to       *)
(* stored journals: whatever they return can be written and read back.     *)
LEMMA LocalSuccessorsStored ==
    ASSUME NEW j \in StoredJournal
    PROVE  LocalSuccessors(j) \subseteq StoredJournal
<1>. j \in Journal /\ ValidJournal(j)
  BY DEF StoredJournal
<1>1. PrepareNextEffect(j) \subseteq StoredJournal
  <2>. SUFFICES ASSUME NEW d \in PrepareNextEffect(j)
                PROVE  d \in StoredJournal
    OBVIOUS
  <2>1. j.completed + 1 \in 0..EffectCount
    BY EffectCountAssumption DEF PrepareNextEffect, Journal
  <2>2. [j EXCEPT !.status = "effect-prepared", !.prepared = j.completed + 1]
            \in Journal
    BY <2>1 DEF Journal, Statuses
  <2>. QED  BY <2>2, ValidatedStored DEF PrepareNextEffect
<1>2. BeginFinalVerification(j) \subseteq StoredJournal
  <2>1. [j EXCEPT !.status = "verifying-final"] \in Journal
    BY DEF Journal, Statuses
  <2>. QED  BY <2>1, ValidatedStored DEF BeginFinalVerification
<1>3. CompleteJournal(j) \subseteq StoredJournal
  <2>1. [j EXCEPT !.status = "complete", !.recovery = "none",
                  !.evidence = TRUE] \in Journal
    BY DEF Journal, Statuses, RecoveryClasses
  <2>. QED  BY <2>1, ValidatedStored DEF CompleteJournal
<1>4. MarkIncomplete(j) \subseteq StoredJournal
  <2>1. [j EXCEPT !.status = "incomplete",
                  !.recovery = AssessRecovery(j, FALSE, FALSE),
                  !.reason = TRUE] \in Journal
    BY AssessRecoveryType DEF Journal, Statuses
  <2>. QED  BY <2>1, ValidatedStored DEF MarkIncomplete
<1>. QED  BY <1>1, <1>2, <1>3, <1>4 DEF LocalSuccessors

(* record_effect_success leads from stored journals to stored journals     *)
(* whatever the executor reports.                                          *)
LEMMA RecordEffectSuccessStored ==
    ASSUME NEW j \in StoredJournal, NEW report \in Reports
    PROVE  RecordEffectSuccess(j, report) \subseteq StoredJournal
<1>. SUFFICES ASSUME NEW d \in RecordEffectSuccess(j, report)
              PROVE  d \in StoredJournal
  OBVIOUS
<1>. DEFINE merged == MergeResources(j.resources, report)
            next == [j EXCEPT !.status = "executing",
                              !.completed = @ + 1,
                              !.prepared = NoEffect,
                              !.resources = MergeResources(@, report)]
<1>. j \in Journal /\ ValidJournal(j)
  BY DEF StoredJournal
<1>1. j.completed + 1 \in 0..EffectCount
  BY EffectCountAssumption
     DEF RecordEffectSuccess, ValidJournal, Journal, NoEffect
<1>2. merged \in [ResourceIds -> Resource \cup {NoResource}]
  <2>1. PICK ids \in SUBSET ResourceIds : report \in [ids -> Observations]
    BY DEF Reports
  <2>2. \A id \in DOMAIN report : report[id] \in Resource
    BY <2>1, ObservationsAssumption
  <2>. QED  BY <2>2 DEF MergeResources, Journal
<1>3. NoEffect \in 0..EffectCount
  BY EffectCountAssumption DEF NoEffect
<1>4. next \in Journal
  BY <1>1, <1>2, <1>3 DEF Journal, Statuses
<1>. QED  BY <1>4, ValidatedStored DEF RecordEffectSuccess

(* The defect of mark_incomplete, for every plan: while an effect is       *)
(* prepared there is no journal it could return, since a candidate that is *)
(* incomplete and still names the prepared effect does not validate.       *)
THEOREM PreparedJournalCannotFail ==
    ASSUME NEW j \in StoredJournal, j.status = "effect-prepared"
    PROVE  MarkIncomplete(j) = {}
<1>. j.prepared # NoEffect /\ j \in Journal
  BY DEF StoredJournal, ValidJournal
<1>. DEFINE next == [j EXCEPT !.status = "incomplete",
                              !.recovery = AssessRecovery(j, FALSE, FALSE),
                              !.reason = TRUE]
<1>1. next.status = "incomplete" /\ next.prepared # NoEffect
  BY DEF Journal
<1>2. ~ValidJournal(next)
  BY <1>1 DEF ValidJournal
<1>. QED  BY <1>2 DEF MarkIncomplete, Validated

(* Every record that may follow another validates, and it counts one more  *)
(* completed effect exactly when its predecessor named a prepared one.     *)
LEMMA SuccessorsStored ==
    ASSUME NEW j \in StoredJournal
    PROVE  Successors(j) \subseteq StoredJournal
BY LocalSuccessorsStored, RecordEffectSuccessStored DEF Successors

LEMMA PreparedHasOnlySuccess ==
    ASSUME NEW j \in StoredJournal, j.prepared # NoEffect
    PROVE  LocalSuccessors(j) = {}
<1>1. j.status = "effect-prepared"
  BY DEF StoredJournal, ValidJournal
<1>2. MarkIncomplete(j) = {}
  BY <1>1, PreparedJournalCannotFail
<1>3. /\ PrepareNextEffect(j) = {} /\ BeginFinalVerification(j) = {}
      /\ CompleteJournal(j) = {}
  BY <1>1 DEF PrepareNextEffect, BeginFinalVerification, CompleteJournal
<1>. QED  BY <1>2, <1>3 DEF LocalSuccessors

LEMMA LocalSuccessorsKeepCompleted ==
    ASSUME NEW j \in StoredJournal, NEW d \in LocalSuccessors(j)
    PROVE  d.completed = j.completed
<1>. j \in Journal
  BY DEF StoredJournal
<1>1. CASE d \in PrepareNextEffect(j)
  <2>1. d = [j EXCEPT !.status = "effect-prepared",
                      !.prepared = j.completed + 1]
    BY <1>1 DEF PrepareNextEffect, Validated
  <2>. QED  BY <2>1 DEF Journal
<1>2. CASE d \in BeginFinalVerification(j)
  <2>1. d = [j EXCEPT !.status = "verifying-final"]
    BY <1>2 DEF BeginFinalVerification, Validated
  <2>. QED  BY <2>1 DEF Journal
<1>3. CASE d \in CompleteJournal(j)
  <2>1. d = [j EXCEPT !.status = "complete", !.recovery = "none",
                      !.evidence = TRUE]
    BY <1>3 DEF CompleteJournal, Validated
  <2>. QED  BY <2>1 DEF Journal
<1>4. CASE d \in MarkIncomplete(j)
  <2>1. d = [j EXCEPT !.status = "incomplete",
                      !.recovery = AssessRecovery(j, FALSE, FALSE),
                      !.reason = TRUE]
    BY <1>4 DEF MarkIncomplete, Validated
  <2>. QED  BY <2>1 DEF Journal
<1>. QED  BY <1>1, <1>2, <1>3, <1>4 DEF LocalSuccessors

LEMMA SuccessCountsOneEffect ==
    ASSUME NEW j \in StoredJournal, NEW report \in Reports,
           NEW d \in RecordEffectSuccess(j, report)
    PROVE  /\ j.prepared # NoEffect /\ j.status = "effect-prepared"
           /\ d.completed = j.completed + 1
           /\ d.prepared = NoEffect /\ d.status = "executing"
<1>. j \in Journal
  BY DEF StoredJournal
<1>1. /\ d = [j EXCEPT !.status = "executing", !.completed = @ + 1,
                       !.prepared = NoEffect,
                       !.resources = MergeResources(@, report)]
      /\ j.prepared # NoEffect /\ j.status = "effect-prepared"
  BY DEF RecordEffectSuccess, Validated
<1>. QED  BY <1>1 DEF Journal

LEMMA SuccessorsCount ==
    ASSUME NEW j \in StoredJournal, NEW d \in Successors(j)
    PROVE  /\ j.prepared = NoEffect => d.completed = j.completed
           /\ j.prepared # NoEffect => /\ d.completed = j.completed + 1
                                       /\ d.prepared = NoEffect
<1>1. CASE d \in LocalSuccessors(j)
  BY <1>1, PreparedHasOnlySuccess, LocalSuccessorsKeepCompleted
<1>2. CASE \E report \in Reports : d \in RecordEffectSuccess(j, report)
  BY <1>2, SuccessCountsOneEffect
<1>. QED  BY <1>1, <1>2 DEF Successors

(* Automatic deletion is allowed for no journal that still has a prepared  *)
(* effect, names no resource, or names one that is published, used,        *)
(* modified, foreign or of uncertain identity.                             *)
THEOREM DeletionNeedsOwnedEmptyResources ==
    ASSUME NEW j \in StoredJournal, AutomaticDeletionAllowed(j)
    PROVE  /\ j.prepared = NoEffect
           /\ Recorded(j.resources) # {}
           /\ \A id \in Recorded(j.resources) :
                 /\ j.resources[id].state = "owned-empty"
                 /\ ~Touched(j.resources[id])
<1>. DEFINE observed == {j.resources[id] : id \in Recorded(j.resources)}
<1>1. /\ j.prepared = NoEffect /\ observed # {}
      /\ \A r \in observed : r.state = "owned-empty" /\ ~Touched(r)
  BY DEF AutomaticDeletionAllowed, AssessRecovery
<1>. QED  BY <1>1
=============================================================================
