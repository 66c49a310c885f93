----------------------- MODULE JournalLifecycleProofs -----------------------
(***************************************************************************)
(* The properties of JournalLifecycle for every number of effects and      *)
(* every set of resources and observations.                                *)
(***************************************************************************)
EXTENDS JournalLifecycle, ExecutorJournalProofs

LEMMA InitTypeOK == Init => TypeOK
BY NewJournalStored DEF Init, TypeOK

LEMMA NextTypeOK == TypeOK /\ [Next]_vars => TypeOK'
<1>. SUFFICES ASSUME TypeOK, [Next]_vars
              PROVE  TypeOK'
  OBVIOUS
<1>. journal \in StoredJournal
  BY DEF TypeOK
<1>2. CASE Prepare
  BY <1>2, LocalSuccessorsStored DEF Prepare, LocalSuccessors, TypeOK
<1>3. CASE RecordSuccess
  <2>1. PICK report \in Reports :
           journal' \in RecordEffectSuccess(journal, report)
    BY <1>3 DEF RecordSuccess
  <2>. QED  BY <2>1, RecordEffectSuccessStored DEF TypeOK
<1>4. CASE BeginVerification
  BY <1>4, LocalSuccessorsStored
     DEF BeginVerification, LocalSuccessors, TypeOK
<1>5. CASE Complete
  BY <1>5, LocalSuccessorsStored
     DEF Complete, LocalSuccessors, TypeOK
<1>6. CASE Fail
  BY <1>6, LocalSuccessorsStored
     DEF Fail, LocalSuccessors, TypeOK
<1>7. CASE UNCHANGED vars
  BY <1>7 DEF vars, TypeOK
<1>. QED  BY <1>2, <1>3, <1>4, <1>5, <1>6, <1>7 DEF Next

(* Every journal the operations reach can be serialized and read back.     *)
THEOREM TypeCorrect == Spec => []TypeOK
<1>. QED  BY InitTypeOK, NextTypeOK, PTL DEF Spec

(* What the fields that decide a classification are, once they are known.  *)
LEMMA MarkIncompleteKeepsEvidence ==
    ASSUME NEW j \in StoredJournal, NEW d \in MarkIncomplete(j)
    PROVE  /\ d.status = "incomplete" /\ d.prepared = NoEffect
           /\ d.completed = j.completed /\ d.resources = j.resources
           /\ j.prepared = NoEffect /\ j.status # "complete"
           /\ d.recovery = AssessRecovery(j, FALSE, FALSE)
<1>1. /\ d = [j EXCEPT !.status = "incomplete",
                       !.recovery = AssessRecovery(j, FALSE, FALSE),
                       !.reason = TRUE]
      /\ ValidJournal(d)
      /\ j.status \notin {"complete", "incomplete"}
  BY DEF MarkIncomplete, Validated
<1>2. j \in Journal
  BY DEF StoredJournal
<1>3. /\ d.status = "incomplete" /\ d.prepared = j.prepared
      /\ d.completed = j.completed /\ d.resources = j.resources
      /\ d.recovery = AssessRecovery(j, FALSE, FALSE)
  BY <1>1, <1>2 DEF Journal
<1>4. d.prepared = NoEffect
  BY <1>1, <1>3 DEF ValidJournal
<1>. QED  BY <1>1, <1>3, <1>4

(* The class written by mark_incomplete is the class any later assessment  *)
(* of the failed journal finds, whatever the approval and the gates.       *)
LEMMA IncompleteStaysClassified ==
    ASSUME NEW j \in StoredJournal, NEW d \in MarkIncomplete(j),
           NEW approval \in BOOLEAN, NEW gates \in BOOLEAN
    PROVE  AssessRecovery(d, approval, gates) = d.recovery
<1>. DEFINE Observed(r) == {r[id] : id \in Recorded(r)}
<1>1. /\ d.status = "incomplete" /\ d.prepared = NoEffect
      /\ d.completed = j.completed /\ d.resources = j.resources
      /\ j.prepared = NoEffect /\ j.status # "complete"
      /\ d.recovery = AssessRecovery(j, FALSE, FALSE)
  BY MarkIncompleteKeepsEvidence
<1>2. Observed(d.resources) = Observed(j.resources)
  BY <1>1
<1>3. AssessRecovery(d, approval, gates) = AssessRecovery(j, FALSE, FALSE)
  BY <1>1, <1>2, Zenon DEF AssessRecovery
<1>. QED  BY <1>1, <1>3

(* No operation but mark_incomplete returns an incomplete journal. *)
LEMMA OnlyFailIsIncomplete ==
    ASSUME NEW j \in StoredJournal, NEW d, d.status = "incomplete",
           \/ d \in PrepareNextEffect(j)
           \/ d \in BeginFinalVerification(j)
           \/ d \in CompleteJournal(j)
           \/ \E report \in Reports : d \in RecordEffectSuccess(j, report)
    PROVE  FALSE
<1>. j \in Journal
  BY DEF StoredJournal
<1>1. CASE d \in PrepareNextEffect(j)
  <2>1. d = [j EXCEPT !.status = "effect-prepared",
                      !.prepared = j.completed + 1]
    BY <1>1 DEF PrepareNextEffect, Validated
  <2>. QED  BY <2>1 DEF Journal
<1>2. CASE d \in BeginFinalVerification(j)
  <2>1. d = [j EXCEPT !.status = "verifying-final"]
    BY <1>2 DEF BeginFinalVerification, Validated
  <2>. QED  BY <2>1 DEF Journal
<1>3. CASE d \in CompleteJournal(j)
  <2>1. d = [j EXCEPT !.status = "complete", !.recovery = "none",
                      !.evidence = TRUE]
    BY <1>3 DEF CompleteJournal, Validated
  <2>. QED  BY <2>1 DEF Journal
<1>4. ASSUME NEW report \in Reports, d \in RecordEffectSuccess(j, report)
      PROVE  FALSE
  <2>1. d = [j EXCEPT !.status = "executing", !.completed = @ + 1,
                      !.prepared = NoEffect,
                      !.resources = MergeResources(@, report)]
    BY <1>4 DEF RecordEffectSuccess, Validated
  <2>. QED  BY <2>1 DEF Journal
<1>. QED  BY <1>1, <1>2, <1>3, <1>4

(* A failed operation is classified once and for all: a valid approval and *)
(* passing gates never give an incomplete journal its continuation back.   *)
THEOREM StableClassificationHolds == Spec => []StableClassification
<1>1. Init => StableClassification
  BY DEF Init, NewJournal, StableClassification
<1>2. TypeOK /\ StableClassification /\ [Next]_vars => StableClassification'
  <2>. SUFFICES ASSUME TypeOK, StableClassification, [Next]_vars
                PROVE  StableClassification'
    OBVIOUS
  <2>. journal \in StoredJournal
    BY DEF TypeOK
  <2>1. CASE Fail
    BY <2>1, IncompleteStaysClassified DEF Fail, StableClassification
  <2>2. CASE Prepare \/ RecordSuccess \/ BeginVerification \/ Complete
    <3>1. journal'.status # "incomplete"
      BY <2>2, OnlyFailIsIncomplete
         DEF Prepare, RecordSuccess, BeginVerification, Complete
    <3>. QED  BY <3>1 DEF StableClassification
  <2>3. CASE UNCHANGED vars
    BY <2>3 DEF vars, StableClassification
  <2>. QED  BY <2>1, <2>2, <2>3 DEF Next
<1>. QED  BY <1>1, <1>2, TypeCorrect, PTL DEF Spec

(* A merged report keeps every entry that was there, with its identity.    *)
LEMMA MergeKeepsIdentities ==
    ASSUME NEW current \in [ResourceIds -> Resource \cup {NoResource}],
           NEW report \in Reports, Mergeable(current, report),
           NEW id \in Recorded(current)
    PROVE  /\ id \in Recorded(MergeResources(current, report))
           /\ MergeResources(current, report)[id].identity
                  = current[id].identity
<1>1. PICK ids \in SUBSET ResourceIds : report \in [ids -> Observations]
  BY DEF Reports
<1>2. id \in ResourceIds /\ current[id] # NoResource
  BY DEF Recorded
<1>3. CASE id \in ids
  <2>1. MergeResources(current, report)[id] = report[id]
    BY <1>1, <1>2, <1>3 DEF MergeResources
  <2>2. report[id] \in Resource
    BY <1>1, <1>3, ObservationsAssumption
  <2>3. current[id].identity = report[id].identity
    BY <1>1, <1>3 DEF Mergeable
  <2>. QED  BY <1>2, <2>1, <2>2, <2>3, NoResourceAssumption DEF Recorded
<1>4. CASE id \notin ids
  <2>1. MergeResources(current, report)[id] = current[id]
    BY <1>1, <1>2, <1>4 DEF MergeResources
  <2>. QED  BY <1>2, <2>1 DEF Recorded
<1>. QED  BY <1>3, <1>4

(* Effects, resource identities and terminal journals are never undone by  *)
(* any operation of the journal.                                           *)
THEOREM MovesForwardHolds == Spec => MovesForward
<1>1. TypeOK /\ [Next]_vars => [ForwardStep]_vars
  <2>. SUFFICES ASSUME TypeOK, Next
                PROVE  ForwardStep
    BY DEF vars
  <2>. /\ journal \in StoredJournal /\ journal \in Journal
       /\ ValidJournal(journal)
    BY DEF TypeOK, StoredJournal
  <2>. DEFINE Kept == /\ journal'.completed = journal.completed
                      /\ journal'.resources = journal.resources
  <2>1. ASSUME Kept, journal.status \notin {"complete", "incomplete"}
        PROVE  ForwardStep
    BY <2>1 DEF ForwardStep, Journal
  <2>2. CASE Prepare
    <3>1. journal' = [journal EXCEPT !.status = "effect-prepared",
                                     !.prepared = journal.completed + 1]
      BY <2>2 DEF Prepare, PrepareNextEffect, Validated
    <3>2. Kept
      BY <3>1 DEF Journal
    <3>. QED  BY <2>1, <2>2, <3>2 DEF Prepare, PrepareNextEffect
  <2>3. CASE RecordSuccess
    <3>1. PICK report \in Reports :
             journal' \in RecordEffectSuccess(journal, report)
      BY <2>3 DEF RecordSuccess
    <3>. DEFINE merged == MergeResources(journal.resources, report)
    <3>2. /\ journal' = [journal EXCEPT !.status = "executing",
                                        !.completed = @ + 1,
                                        !.prepared = NoEffect,
                                        !.resources = merged]
          /\ journal.status = "effect-prepared"
          /\ Mergeable(journal.resources, report)
      BY <3>1 DEF RecordEffectSuccess, Validated
    <3>3. /\ journal'.completed = journal.completed + 1
          /\ journal'.resources = merged
      BY <3>2 DEF Journal
    <3>4. journal'.completed >= journal.completed
      BY <3>3, EffectCountAssumption DEF Journal
    <3>5. journal.resources \in [ResourceIds -> Resource \cup {NoResource}]
      BY DEF Journal
    <3>. QED  BY <3>2, <3>3, <3>4, <3>5, MergeKeepsIdentities DEF ForwardStep
  <2>4. CASE BeginVerification
    <3>1. journal' = [journal EXCEPT !.status = "verifying-final"]
      BY <2>4 DEF BeginVerification, BeginFinalVerification, Validated
    <3>2. Kept
      BY <3>1 DEF Journal
    <3>. QED  BY <2>1, <2>4, <3>2 DEF BeginVerification, BeginFinalVerification
  <2>5. CASE Complete
    <3>1. journal' = [journal EXCEPT !.status = "complete",
                                     !.recovery = "none", !.evidence = TRUE]
      BY <2>5 DEF Complete, CompleteJournal, Validated
    <3>2. Kept
      BY <3>1 DEF Journal
    <3>. QED  BY <2>1, <2>5, <3>2 DEF Complete, CompleteJournal
  <2>6. CASE Fail
    <3>1. Kept
      BY <2>6, MarkIncompleteKeepsEvidence DEF Fail
    <3>. QED  BY <2>1, <2>6, <3>1 DEF Fail, MarkIncomplete
  <2>. QED  BY <2>2, <2>3, <2>4, <2>5, <2>6 DEF Next
<1>. QED  BY <1>1, TypeCorrect, PTL DEF Spec, MovesForward
=============================================================================
