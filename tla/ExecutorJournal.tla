--------------------------- MODULE ExecutorJournal ---------------------------
(***************************************************************************)
(* The durable-operation journal of src/src/apx_executor_journal.py as a   *)
(* value: what one journal record holds, what makes it valid, the          *)
(* operations that derive the next record from it, and the read-only       *)
(* recovery assessment.  The module has no variables; JournalLifecycle     *)
(* drives one journal through sequences of these operations and            *)
(* JournalStore keeps journals in a file shared by processes.              *)
(*                                                                         *)
(* An operation of the code returns the next record or raises.  Here it    *)
(* is the set of records it may return, which is empty when it raises.     *)
(*                                                                         *)
(* Data abstracted away: an effect is its position in the plan's ordered,  *)
(* duplicate-free effect tuple, so "an exact ordered prefix is complete"   *)
(* is a number; the fields fixed at creation (plan, request, approval and  *)
(* nonce digests, names, versions) are left out; final_evidence_digest and *)
(* failure_reason are kept as present or absent, and an argument that is   *)
(* not canonical is never passed.  sequence, previous_digest and           *)
(* journal_digest belong to the chain of records, see JournalStore.        *)
(***************************************************************************)
EXTENDS Integers, FiniteSets

CONSTANTS
    EffectCount,    \* number of effects in the approved plan
    ResourceIds,    \* names a resource of this operation may have
    Identities,     \* identity digests an observation may carry
    NoIdentity,     \* identity_digest = None
    NoResource,     \* the journal has no entry for the resource
    MaxResources,   \* MAX_RESOURCES
    Observations    \* the resource entries an executor may report

Statuses == {"reserved", "executing", "effect-prepared", "verifying-final",
             "complete", "incomplete"}

RecoveryClasses ==
    {"none", "no-effect", "continuation-eligible",
     "automatic-rollback-eligible", "preserve-recovery-required",
     "preserve-identity-uncertain", "preserve-effect-outcome-uncertain"}

ResourceStates == {"not-created", "owned-empty", "owned-modified",
                   "published", "foreign-or-conflicting",
                   "identity-uncertain"}

Resource == [identity : Identities \cup {NoIdentity},
             state : ResourceStates,
             published : BOOLEAN, used : BOOLEAN, modified : BOOLEAN]

ASSUME EffectCountAssumption == EffectCount \in Nat \ {0}
ASSUME MaxResourcesAssumption == MaxResources \in Nat
ASSUME ObservationsAssumption == Observations \subseteq Resource
ASSUME NoResourceAssumption == NoResource \notin Resource

(* prepared = NoEffect is prepared_effect = None; effects are 1..EffectCount *)
NoEffect == 0

Journal == [completed : 0..EffectCount,
            prepared : 0..EffectCount,
            resources : [ResourceIds -> Resource \cup {NoResource}],
            status : Statuses,
            recovery : RecoveryClasses,
            evidence : BOOLEAN,
            reason : BOOLEAN]

Recorded(resources) ==
    {id \in ResourceIds : resources[id] # NoResource}

(***************************************************************************)
(* validate_resource and validate_journal                                  *)
(***************************************************************************)
ValidResource(resource) ==
    /\ resource.state = "not-created" =>
           ~(resource.published \/ resource.used \/ resource.modified)
    /\ resource.published <=> resource.state = "published"

ValidJournal(j) ==
    /\ j.prepared # NoEffect => /\ j.completed < EffectCount
                                /\ j.prepared = j.completed + 1
    /\ j.status = "effect-prepared" <=> j.prepared # NoEffect
    /\ j.status = "complete" => j.completed = EffectCount
    /\ j.status = "complete" <=> j.evidence
    /\ j.status = "incomplete" <=> j.reason
    /\ Cardinality(Recorded(j.resources)) <= MaxResources
    /\ \A id \in Recorded(j.resources) : ValidResource(j.resources[id])

(* parse_journal validates, so only valid journals can be read back *)
StoredJournal == {j \in Journal : ValidJournal(j)}

(* mutant of Validated: the candidate is returned unvalidated *)
Unvalidated(j) == {j}

(* _next: a candidate that does not validate is never returned *)
Validated(j) == {candidate \in {j} : ValidJournal(candidate)}

(***************************************************************************)
(* The operations                                                          *)
(***************************************************************************)
NewJournal ==
    [completed |-> 0, prepared |-> NoEffect,
     resources |-> [id \in ResourceIds |-> NoResource],
     status |-> "reserved", recovery |-> "none",
     evidence |-> FALSE, reason |-> FALSE]

PrepareNextEffect(j) ==
    {candidate \in Validated([j EXCEPT !.status = "effect-prepared",
                                       !.prepared = j.completed + 1]) :
        /\ ValidJournal(j)
        /\ j.status \in {"reserved", "executing"}
        /\ j.prepared = NoEffect
        /\ j.completed < EffectCount}

(***************************************************************************)
(* What a report of an executor may hold: at most one observation of each  *)
(* resource.  Of several entries for one resource in one report the last   *)
(* wins and all must agree on the identity, so one entry stands for them.  *)
(***************************************************************************)
Reports == UNION {[ids -> Observations] : ids \in SUBSET ResourceIds}

MergeResources(current, report) ==
    [id \in ResourceIds |-> IF id \in DOMAIN report THEN report[id]
                                                     ELSE current[id]]

(* mutant of Mergeable: a report may change the identity of a resource *)
MergeableByName(current, report) ==
    /\ \A id \in DOMAIN report : ValidResource(report[id])
    /\ Cardinality(Recorded(MergeResources(current, report))) <= MaxResources

(* The conditions under which _merge_resources does not raise *)
Mergeable(current, report) ==
    /\ \A id \in DOMAIN report :
          /\ ValidResource(report[id])
          /\ id \in Recorded(current) =>
                 current[id].identity = report[id].identity
    /\ Cardinality(Recorded(MergeResources(current, report))) <= MaxResources

RecordEffectSuccess(j, report) ==
    {candidate \in
        Validated([j EXCEPT !.status = "executing",
                            !.completed = @ + 1,
                            !.prepared = NoEffect,
                            !.resources = MergeResources(@, report)]) :
        /\ ValidJournal(j)
        /\ j.status = "effect-prepared"
        /\ j.prepared # NoEffect
        /\ Mergeable(j.resources, report)}

BeginFinalVerification(j) ==
    {candidate \in Validated([j EXCEPT !.status = "verifying-final"]) :
        /\ ValidJournal(j)
        /\ j.status = "executing"
        /\ j.prepared = NoEffect
        /\ j.completed = EffectCount}

CompleteJournal(j) ==
    {candidate \in Validated([j EXCEPT !.status = "complete",
                                       !.recovery = "none",
                                       !.evidence = TRUE]) :
        /\ ValidJournal(j)
        /\ j.status = "verifying-final"}

(***************************************************************************)
(* assess_recovery: the first case that applies decides.                   *)
(***************************************************************************)
Uncertain(resource) ==
    resource.state \in {"foreign-or-conflicting", "identity-uncertain"}

Touched(resource) ==
    resource.published \/ resource.used \/ resource.modified

(* mutant of AssessRecovery: "nothing recorded" is decided before it is    *)
(* known whether an effect is prepared                                     *)
AssessRecoveryByRecord(j, approvalStillValid, gatesConfirmed) ==
    LET observed == {j.resources[id] : id \in Recorded(j.resources)}
    IN  IF j.status = "complete" THEN "none"
        ELSE IF j.completed = 0 /\ observed = {} THEN "no-effect"
        ELSE IF j.prepared # NoEffect
        THEN "preserve-effect-outcome-uncertain"
        ELSE IF approvalStillValid /\ gatesConfirmed
        THEN "continuation-eligible"
        ELSE "preserve-recovery-required"

AssessRecovery(j, approvalStillValid, gatesConfirmed) ==
    LET observed == {j.resources[id] : id \in Recorded(j.resources)}
    IN  IF j.status = "complete" THEN "none"
        ELSE IF j.prepared # NoEffect
        THEN "preserve-effect-outcome-uncertain"
        ELSE IF j.completed = 0 /\ observed = {} THEN "no-effect"
        ELSE IF \E r \in observed : Uncertain(r)
        THEN "preserve-identity-uncertain"
        ELSE IF \E r \in observed : Touched(r)
        THEN "preserve-recovery-required"
        ELSE IF observed # {} /\ \A r \in observed : r.state = "owned-empty"
        THEN "automatic-rollback-eligible"
        ELSE IF /\ approvalStillValid /\ gatesConfirmed
                /\ j.status \in {"reserved", "executing", "verifying-final"}
        THEN "continuation-eligible"
        ELSE "preserve-recovery-required"

AutomaticDeletionAllowed(j) ==
    AssessRecovery(j, FALSE, FALSE) = "automatic-rollback-eligible"

ContinuationAllowed(j) ==
    AssessRecovery(j, TRUE, TRUE) = "continuation-eligible"

(* mutant of MarkIncomplete: classified as if the approval still stood *)
MarkIncompleteApproved(j) ==
    {candidate \in
        Validated([j EXCEPT !.status = "incomplete",
                            !.recovery = AssessRecovery(j, TRUE, TRUE),
                            !.reason = TRUE]) :
        /\ ValidJournal(j)
        /\ j.status \notin {"complete", "incomplete"}}

MarkIncomplete(j) ==
    {candidate \in
        Validated([j EXCEPT !.status = "incomplete",
                            !.recovery = AssessRecovery(j, FALSE, FALSE),
                            !.reason = TRUE]) :
        /\ ValidJournal(j)
        /\ j.status \notin {"complete", "incomplete"}}

(* Every operation that needs no evidence from outside the journal *)
LocalSuccessors(j) ==
    PrepareNextEffect(j) \cup BeginFinalVerification(j)
        \cup CompleteJournal(j) \cup MarkIncomplete(j)

(* The records that may follow record j in the chain of one operation *)
Successors(j) ==
    LocalSuccessors(j)
        \cup UNION {RecordEffectSuccess(j, report) : report \in Reports}
=============================================================================
