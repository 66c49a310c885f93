------------------------- MODULE CleanupCompletion -------------------------
(***************************************************************************)
(* When the deletion of an Environment is over (src/src/apx_cleanup.py): a *)
(* plan lists every resource and what becomes of it, evidence about each   *)
(* is gathered in the course of time, and an assessment of the evidence    *)
(* says whether the name is free again.                                    *)
(*                                                                         *)
(* The resources of an Environment are told apart by their kinds, one of a *)
(* kind.  Deleting and looking are done by others; the source only says    *)
(* which observations there are.  Byte counts and texts are left out.      *)
(***************************************************************************)
EXTENDS Integers, FiniteSets

CONSTANTS
    Deletables,     \* bound: the names that are deleted
    Kinds,          \* the kinds of resources
    Mandatory,      \* root, home, account, registration and qgroup
    Registered,     \* account and registration
    Copies          \* snapshot and archive

ASSUME KindsAssumption ==
    /\ Registered \subseteq Mandatory /\ Mandatory \subseteq Kinds
    /\ Copies \subseteq Kinds /\ Mandatory \cap Copies = {}
    /\ Mandatory # {}

Scopes == {"environment_only", "complete_purge"}
Dispositions == {"delete", "preserve", "unlisted"}

(* A resource is there, is being freed, is gone, or its identity is no     *)
(* longer the one that was planned; the last two are told apart from the   *)
(* first by looking, which may also fail.                                  *)
Stages == {"present", "under_deletion", "absent", "foreign"}
Gone == {"absent", "foreign"}
Observed == Stages \cup {"uncertain"}

VARIABLES
    plan,           \* of each name, the disposition of each kind
    stage,          \* of each name, where each of its resources is
    seen,           \* of each name, the observations of this round
    approved        \* of each name, the approval of its deletion is good

cleanupVars == <<plan, stage, seen, approved>>

NothingSeen == [r \in Kinds |-> "unseen"]

Listed(p) == {r \in Kinds : p[r] # "unlisted"}
ToDelete(p) == {r \in Kinds : p[r] = "delete"}

(* validate_cleanup_plan *)
ValidPlan(p, scope) ==
    /\ Mandatory \subseteq Listed(p)
    /\ \A r \in Listed(p) :
          p[r] = IF scope = "environment_only" /\ r \in Copies
                 THEN "preserve" ELSE "delete"

(* An Environment with these resources besides the mandatory ones *)
PlanFor(extra, scope) ==
    [r \in Kinds |->
        IF r \notin Mandatory \cup extra THEN "unlisted"
        ELSE IF scope = "environment_only" /\ r \in Copies
             THEN "preserve" ELSE "delete"]

(* assess_cleanup.  The rest of the evidence is whether it is              *)
(* authoritative, whether the safety conditions hold, whether account and  *)
(* registration are gone, and the approval, which is the caller's.         *)
Uncertain(p, obs) ==
    \E r \in Listed(p) : obs[r] \in {"uncertain", "foreign"}
Pending(p, obs) == {r \in ToDelete(p) : obs[r] # "absent"}
Freeing(p, obs) == {r \in ToDelete(p) : obs[r] = "under_deletion"}

(* mutant of AssessCleanup: what is being freed counts as gone *)
AssessCleanupByPath(p, obs, rest) ==
    IF ~rest.approved THEN "awaiting_approval"
    ELSE IF Uncertain(p, obs) \/ ~rest.authoritative THEN "preserved_uncertain"
    ELSE IF ~rest.safe THEN "failed"
    ELSE IF Pending(p, obs) \subseteq Freeing(p, obs) THEN "complete"
    ELSE "deleting"

(* mutant of AssessCleanup: a preserved resource is waited for as well *)
AssessCleanupOfAll(p, obs, rest) ==
    IF ~rest.approved THEN "awaiting_approval"
    ELSE IF Uncertain(p, obs) \/ ~rest.authoritative THEN "preserved_uncertain"
    ELSE IF ~rest.safe THEN "failed"
    ELSE IF (\A r \in Listed(p) : obs[r] = "absent") /\ rest.unregistered
         THEN "complete"
    ELSE IF Freeing(p, obs) # {} THEN "freeing_space"
    ELSE "deleting"

AssessCleanup(p, obs, rest) ==
    IF ~rest.approved THEN "awaiting_approval"
    ELSE IF Uncertain(p, obs) \/ ~rest.authoritative THEN "preserved_uncertain"
    ELSE IF ~rest.safe THEN "failed"
    ELSE IF Pending(p, obs) = {} /\ rest.unregistered THEN "complete"
    ELSE IF Freeing(p, obs) # {} THEN "freeing_space"
    ELSE "deleting"
-----------------------------------------------------------------------------
CleanupTypeOK ==
    /\ plan \in [Deletables -> [Kinds -> Dispositions]]
    /\ stage \in [Deletables -> [Kinds -> Stages]]
    /\ seen \in [Deletables -> [Kinds -> Observed \cup {"unseen"}]]
    /\ approved \in [Deletables -> BOOLEAN]

CleanupInit ==
    /\ plan = [n \in Deletables |-> [r \in Kinds |-> "unlisted"]]
    /\ stage = [n \in Deletables |-> [r \in Kinds |-> "absent"]]
    /\ seen = [n \in Deletables |-> NothingSeen]
    /\ approved = [n \in Deletables |-> FALSE]

(* An approved deletion begins: the plan lists what the Environment has. *)
BeginCleanup(n) ==
    \E extra \in SUBSET (Kinds \ Mandatory), scope \in Scopes :
       LET p == PlanFor(extra, scope) IN
       /\ ValidPlan(p, scope)
       /\ plan' = [plan EXCEPT ![n] = p]
       /\ stage' = [stage EXCEPT ![n] =
             [r \in Kinds |-> IF p[r] = "unlisted" THEN "absent"
                              ELSE "present"]]
       /\ seen' = [seen EXCEPT ![n] = NothingSeen]
       /\ approved' = [approved EXCEPT ![n] = TRUE]

(* The machine takes a deletion one step on.  What is being freed goes on  *)
(* being freed; what is not yet takes an approval.                         *)
Reclaim(n, r) ==
    /\ plan[n][r] = "delete"
    /\ \/ stage[n][r] = "present" /\ approved[n]
       \/ stage[n][r] = "under_deletion"
    /\ \E to \in {"under_deletion", "absent"} :
          to # stage[n][r] /\ stage' = [stage EXCEPT ![n][r] = to]
    /\ UNCHANGED <<plan, seen, approved>>

(* Something else is found where the resource was. *)
Replace(n, r) ==
    /\ plan[n][r] # "unlisted" /\ stage[n][r] \in {"present", "absent"}
    /\ stage' = [stage EXCEPT ![n][r] = "foreign"]
    /\ UNCHANGED <<plan, seen, approved>>

(* One resource is looked at; the others change meanwhile.  A look that    *)
(* fails makes the round as uncertain as evidence without authority does.  *)
(* Evidence without an approval leads nowhere and is left out.             *)
Look(n, r) ==
    /\ approved[n] /\ plan[n][r] # "unlisted"
    /\ seen[n][r] = "unseen"
    /\ seen' = [seen EXCEPT ![n][r] = stage[n][r]]
    /\ UNCHANGED <<plan, stage, approved>>

(* The observations are those of the plan, no more and no fewer. *)
AllSeen(n) == \A r \in Listed(plan[n]) : seen[n][r] # "unseen"

(* Account and registration have evidence of their own. *)
Rest(n, authoritative, safe) ==
    [approved |-> approved[n], authoritative |-> authoritative, safe |-> safe,
     unregistered |-> \A r \in Registered : stage[n][r] \in Gone]

Verdict(n, authoritative, safe) ==
    AssessCleanup(plan[n], seen[n], Rest(n, authoritative, safe))

(* What is still being deleted is looked at anew. *)
NotYet(n) ==
    /\ AllSeen(n)
    /\ Verdict(n, TRUE, TRUE) \in {"deleting", "freeing_space"}
    /\ seen' = [seen EXCEPT ![n] = NothingSeen]
    /\ UNCHANGED <<plan, stage, approved>>

(* Uncertain identities, evidence without authority and a safety condition *)
(* that fails stop the deletion: the approval is good no longer.           *)
Halt(n) ==
    /\ AllSeen(n)
    /\ \E authoritative, safe \in BOOLEAN :
          Verdict(n, authoritative, safe) \in {"preserved_uncertain", "failed"}
    /\ approved' = [approved EXCEPT ![n] = FALSE]
    /\ seen' = [seen EXCEPT ![n] = NothingSeen]
    /\ UNCHANGED <<plan, stage>>

(* Recovery takes a separate approval, and evidence is gathered afresh. *)
Resume(n) ==
    /\ ~approved[n]
    /\ approved' = [approved EXCEPT ![n] = TRUE]
    /\ UNCHANGED <<plan, stage, seen>>

(* The identity may be used again, *)
Complete(n) == AllSeen(n) /\ Verdict(n, TRUE, TRUE) = "complete"

(* and nothing is kept of the deletion. *)
Forget(n) ==
    /\ plan' = [plan EXCEPT ![n] = [r \in Kinds |-> "unlisted"]]
    /\ stage' = [stage EXCEPT ![n] = [r \in Kinds |-> "absent"]]
    /\ seen' = [seen EXCEPT ![n] = NothingSeen]
    /\ approved' = [approved EXCEPT ![n] = FALSE]
=============================================================================
