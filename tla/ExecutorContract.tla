-------------------------- MODULE ExecutorContract --------------------------
(***************************************************************************)
(* The contract between the Hub and the executor                           *)
(* (src/src/apx_executor_contract.py): which operations there are, when an *)
(* operation can be planned, and when a request is authorized.             *)
(*                                                                         *)
(* A digest stands for all it is computed from, so a plan is its own       *)
(* digest, and the consequences shown for a kind of operation are the kind *)
(* itself, no two kinds having the same.  Identifiers and nonces are       *)
(* numbers; their spelling is left out.                                    *)
(***************************************************************************)
EXTENDS Integers

CONSTANTS
    Names,          \* names an Environment may have
    MaxLifetime     \* MAX_APPROVAL_LIFETIME_SECONDS

ASSUME LifetimeAssumption == MaxLifetime \in Nat

(* The two kinds of operation that need an absent Environment *)
Makers == {"create", "restore"}

(* What the person has to do to approve an operation *)
ApprovalByOperation ==
    [activate |-> "unlocked-session", stop |-> "unlocked-session",
     archive |-> "explicit-confirmation", create |-> "explicit-confirmation",
     restore |-> "explicit-confirmation", snapshot |-> "explicit-confirmation",
     recover_complete |-> "explicit-confirmation",
     recover_cleanup |-> "strong-confirmation",
     destroy |-> "strong-confirmation", force_stop |-> "strong-confirmation"]

OperationKinds == DOMAIN ApprovalByOperation
ApprovalClasses ==
    {"unlocked-session", "explicit-confirmation", "strong-confirmation"}

(* Generation 0 is an absent Environment. *)
Plannable(kind, generation) == kind \in Makers <=> generation = 0

Plan(kind, name, generation) ==
    [kind |-> kind, name |-> name, generation |-> generation,
     class |-> ApprovalByOperation[kind]]

Supported(plan) ==
    /\ plan.kind \in OperationKinds /\ plan.name \in Names
    /\ plan.generation \in Nat /\ Plannable(plan.kind, plan.generation)
    /\ plan = Plan(plan.kind, plan.name, plan.generation)

ValidRequest(request) ==
    /\ request.kind \in OperationKinds /\ request.name \in Names
    /\ request.generation >= 0 /\ request.expires > 0
-----------------------------------------------------------------------------
(* assess_executor_request, in the parts it has; now is the evidence about *)
(* the present: generation, time, session, whether the nonce is unused,    *)
(* whether the state is confirmed and the approval authentic.              *)

Matches(request, plan) ==
    /\ request.kind = plan.kind /\ request.name = plan.name
    /\ request.generation = plan.generation /\ request.digest = plan

(* mutant of Current: the nonce is not looked up *)
CurrentAnyNonce(request, now) ==
    /\ now.generation = request.generation
    /\ now.confirmed
    /\ now.time <= request.expires

Current(request, now) ==
    /\ now.generation = request.generation
    /\ now.confirmed
    /\ now.unused
    /\ now.time <= request.expires

(* mutant of Bound: the approval may be for another plan of the operation  *)
BoundLoosely(approval, request, plan) ==
    /\ approval.id = request.approval /\ approval.operation = request.operation
    /\ approval.kind = request.kind /\ approval.name = request.name
    /\ approval.consequences = plan.kind /\ approval.class = plan.class
    /\ approval.nonce = request.nonce /\ approval.expires = request.expires

(* The approval was given for this request and nothing else. *)
Bound(approval, request, plan) ==
    /\ approval.id = request.approval /\ approval.operation = request.operation
    /\ approval.kind = request.kind /\ approval.name = request.name
    /\ approval.generation = request.generation
    /\ approval.digest = request.digest
    /\ approval.consequences = plan.kind /\ approval.class = plan.class
    /\ approval.nonce = request.nonce /\ approval.expires = request.expires

(* mutant of InSession: any session of the person will do *)
InAnySession(approval, now) == now.authentic

InSession(approval, now) == now.authentic /\ approval.session = now.session

(* mutant of InWindow: an approval lasts a little longer than it says *)
InWindowLate(approval, time) ==
    /\ approval.issued <= approval.notBefore
    /\ approval.notBefore <= approval.expires
    /\ approval.expires - approval.issued <= MaxLifetime + 1
    /\ approval.notBefore <= time /\ time <= approval.expires

(* The window is short and in order, and it is now. *)
InWindow(approval, time) ==
    /\ approval.issued <= approval.notBefore
    /\ approval.notBefore <= approval.expires
    /\ approval.expires - approval.issued <= MaxLifetime
    /\ approval.notBefore <= time /\ time <= approval.expires

Authorized(request, plan, approval, now) ==
    /\ ValidRequest(request) /\ Supported(plan) /\ Matches(request, plan)
    /\ Current(request, now)
    /\ Bound(approval, request, plan)
    /\ InSession(approval, now) /\ InWindow(approval, now.time)
=============================================================================
