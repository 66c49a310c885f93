---------------------------- MODULE HubRequests ----------------------------
(***************************************************************************)
(* From a button of the Hub to an operation on an Environment: the view of *)
(* the Hub (HubView) says what may be asked for, an approval is given for  *)
(* a plan, a request for it comes to the executor, who assesses it by the  *)
(* contract (ExecutorContract) and carries it out; a deletion goes on as a *)
(* cleanup (CleanupCompletion).                                            *)
(*                                                                         *)
(* The source holds the three pure parts.  The executor, the authority     *)
(* that issues approvals and the session are outside it and are modelled   *)
(* from what the three parts take as evidence, with as little discipline   *)
(* as they leave room for.                                                 *)
(*   - Requests under way are not part of the state: one may come never,   *)
(*     late, again, in any order, and made anew for what is the case when  *)
(*     it comes.                                                           *)
(*   - The executor may stop at any time during an operation; what it has  *)
(*     reserved, the nonces, it keeps.                                     *)
(***************************************************************************)
EXTENDS Integers, Sequences, ExecutorContract, HubView, CleanupCompletion

CONSTANTS
    Considered,     \* bound: the operations asked for
    Initially,      \* bound: the Environments there may be in the beginning
    Windows,        \* pairs: delay and length of an approval
    MaxApprovals, MaxTime, MaxSessions, MaxGeneration   \* bounds

ASSUME RequestsAssumption ==
    /\ Cards = Names /\ Deletables \subseteq Names \ {Hub}
    /\ Initially \subseteq SUBSET (Names \ {Hub})
    /\ Windows \subseteq Nat \X Nat
    /\ MaxApprovals \in Nat /\ MaxTime \in Nat /\ MaxSessions \in Nat
    /\ MaxGeneration \in Nat

VARIABLES
    state,          \* of each name
    generation,     \* of its registration, 0 when there is none
    given,          \* the last generation a name has had
    session,        \* the unlocked session, 0 when there is none
    sessions,       \* how many there have been
    clock,
    approvals,      \* the approvals given; the k-th has id, operation and
                    \* nonce k
    spent,          \* the nonces reserved
    begun,          \* of each approval, how many operations began with it
    running,        \* of each name, the operation under way
    left            \* of each name, the kind of operation cut short

hubVars == <<state, generation, given, session, sessions, clock,
             approvals, spent, begun, running, left>>
vars == <<hubVars, cleanupVars>>

States == {"absent", "inactive", "active", "incomplete", "cleaning"}
Idle == [approval |-> 0, kind |-> "none", generation |-> 0]
-----------------------------------------------------------------------------
(* What each operation does, from EFFECTS_BY_OPERATION *)

(* The state each operation starts from *)
Needs == [activate |-> "inactive", snapshot |-> "inactive",
          archive |-> "inactive", destroy |-> "inactive",
          create |-> "absent", restore |-> "absent",
          stop |-> "active", force_stop |-> "active",
          recover_complete |-> "incomplete", recover_cleanup |-> "incomplete"]

(* To recover is to finish what was cut short. *)
Effect(kind, n) ==
    IF kind = "recover_complete" THEN left[n]
    ELSE IF kind = "recover_cleanup" THEN "destroy" ELSE kind

Activating == {n \in Names : Effect(running[n].kind, n) = "activate"}

(* The state is the one the operation starts from, no other operation is   *)
(* under way on the Environment, nor a second one that decides which is    *)
(* open.                                                                   *)
ConfirmedCompatible(kind, n) ==
    /\ state[n] = Needs[kind] /\ running[n] = Idle
    /\ Effect(kind, n) = "activate" => Activating = {}

(* The evidence about the present for a request to do kind to n *)
Now(kind, n, nonce) ==
    [generation |-> generation[n], time |-> clock, session |-> session,
     unused |-> nonce \notin spent, authentic |-> TRUE,
     confirmed |-> ConfirmedCompatible(kind, n)]

(* The view at the moment of pressing a button, from when on it is stale:  *)
(* some Environments could not be observed, and how the system is said to  *)
(* be and which templates there are is open.                               *)
View(unknown, system) ==
    [card |-> [n \in Names |-> IF n \in unknown THEN "unconfirmed" ELSE state[n]],
     system |-> system]
Templates == [admitted : BOOLEAN, compatible : BOOLEAN]
Buttons(n) ==
    UNION {Offered(View(unknown, system), Templates, n) :
              unknown \in SUBSET Names, system \in SystemStates}

Request(k, p, expires, nonce) ==
    [kind |-> p.kind, name |-> p.name, generation |-> p.generation,
     digest |-> p, approval |-> k, operation |-> k, nonce |-> nonce,
     expires |-> expires]

(* The request the approval was given for *)
Honest(k) == Request(k, approvals[k].digest, approvals[k].expires, k)

(* Requests that name the approval: that one, it made anew for the present *)
(* generation, and either with another nonce or a later expiry             *)
Requests(k) ==
    LET p == approvals[k].digest
        anew == Plan(p.kind, p.name, generation[p.name])
    IN  {Request(k, q, approvals[k].expires + late, nonce) :
            q \in {p, anew}, late \in {0, 1}, nonce \in DOMAIN approvals}
-----------------------------------------------------------------------------
Approvals ==
    [id : Nat, operation : Nat, nonce : Nat, kind : OperationKinds,
     name : Names, generation : Nat,
     digest : [kind : OperationKinds, name : Names, generation : Nat,
               class : ApprovalClasses],
     consequences : OperationKinds, class : ApprovalClasses,
     session : Nat, issued : Nat, notBefore : Nat, expires : Nat]

Operations == [approval : Nat, kind : OperationKinds \cup {"none"},
               generation : Nat]

(* All variables have their types. *)
TypeOK ==
    /\ state \in [Names -> States]
    /\ generation \in [Names -> Nat] /\ given \in [Names -> Nat]
    /\ session \in Nat /\ sessions \in Nat /\ clock \in Nat \ {0}
    /\ approvals \in Seq(Approvals)
    /\ spent \subseteq DOMAIN approvals
    /\ begun \in [DOMAIN approvals -> Nat]
    /\ running \in [Names -> Operations]
    /\ left \in [Names -> OperationKinds \cup {"none"}]
    /\ CleanupTypeOK

(* The Hub is open and unlocked; of the others some are there, closed. *)
Init ==
    /\ \E there \in Initially :
          /\ state = [n \in Names |-> IF n = Hub THEN "active"
                        ELSE IF n \in there THEN "inactive" ELSE "absent"]
          /\ generation = [n \in Names |->
                              IF n \in there \cup {Hub} THEN 1 ELSE 0]
    /\ given = generation
    /\ session = 1 /\ sessions = 1 /\ clock = 1
    /\ approvals = <<>> /\ spent = {} /\ begun = <<>>
    /\ running = [n \in Names |-> Idle]
    /\ left = [n \in Names |-> "none"]
    /\ CleanupInit

(* A button is pressed and the person does what it asks for: an approval   *)
(* is issued for the plan of the operation at the present generation.  If  *)
(* there can be no such plan, building it fails, and nothing is issued.    *)
Approve(n) ==
    /\ session # 0 /\ Len(approvals) < MaxApprovals
    /\ \E button \in {b \in Buttons(n) : b.kind \in Considered},
          w \in Windows :
          LET p == Plan(button.kind, n, generation[n])
              k == Len(approvals) + 1
          IN
          /\ Plannable(button.kind, generation[n])
          /\ approvals' = Append(approvals,
                [id |-> k, operation |-> k, nonce |-> k,
                 kind |-> button.kind, name |-> n,
                 generation |-> generation[n], digest |-> p,
                 consequences |-> button.kind, class |-> button.class,
                 session |-> session, issued |-> clock,
                 notBefore |-> clock + w[1],
                 expires |-> clock + w[1] + w[2]])
          /\ begun' = Append(begun, 0)
    /\ UNCHANGED <<state, generation, given, session, sessions, clock,
                   spent, running, left, cleanupVars>>

(* A request comes in.  An authorized one has its nonce reserved, and the  *)
(* operation is under way; a rejected one changes nothing.                 *)
Receive(n) ==
    \E k \in DOMAIN approvals : \E request \in Requests(k) :
       /\ request.name = n
       /\ Authorized(request, request.digest, approvals[k],
                     Now(request.kind, n, request.nonce))
       /\ spent' = spent \cup {request.nonce}
       /\ begun' = [begun EXCEPT ![k] = @ + 1]
       /\ running' = [running EXCEPT ![n] =
             [approval |-> k, kind |-> request.kind,
              generation |-> request.generation]]
       /\ UNCHANGED <<state, generation, given, session, sessions, clock,
                      approvals, left, cleanupVars>>

Register(n) ==
    /\ given[n] < MaxGeneration
    /\ given' = [given EXCEPT ![n] = @ + 1]
    /\ generation' = [generation EXCEPT ![n] = given[n] + 1]

(* The effects of the kinds of operations, all verified *)
Make(n) ==
    /\ Effect(running[n].kind, n) \in Makers
    /\ state' = [state EXCEPT ![n] = "inactive"]
    /\ IF generation[n] = 0 THEN Register(n)
       ELSE UNCHANGED <<generation, given>>
    /\ UNCHANGED <<session, cleanupVars>>

(* The Hub closes for another Environment to open, and the session ends.   *)
Open(n) ==
    /\ Effect(running[n].kind, n) = "activate"
    /\ state' = [state EXCEPT ![Hub] = "inactive", ![n] = "active"]
    /\ session' = 0
    /\ UNCHANGED <<generation, given, cleanupVars>>

Copy(n) ==
    /\ Effect(running[n].kind, n) \in {"snapshot", "archive"}
    /\ state' = [state EXCEPT ![n] = "inactive"]
    /\ UNCHANGED <<generation, given, session, cleanupVars>>

Delete(n) ==
    /\ Effect(running[n].kind, n) = "destroy" /\ n \in Deletables
    /\ state' = [state EXCEPT ![n] = "cleaning"]
    /\ BeginCleanup(n)
    /\ UNCHANGED <<generation, given, session>>

Perform(n) ==
    /\ running[n] # Idle
    /\ Make(n) \/ Open(n) \/ Copy(n) \/ Delete(n)
    /\ running' = [running EXCEPT ![n] = Idle]
    /\ left' = [left EXCEPT ![n] = "none"]
    /\ UNCHANGED <<sessions, clock, approvals, spent, begun>>

(* The executor stops short.  A creation may have been registered or not,  *)
(* the Hub may have been closed or not.                                    *)
Interrupt(n) ==
    LET kind == Effect(running[n].kind, n) IN
    /\ running[n] # Idle
    /\ running' = [running EXCEPT ![n] = Idle]
    /\ left' = [left EXCEPT ![n] = kind]
    /\ \/ /\ state' = [state EXCEPT ![n] = "incomplete"]
          /\ UNCHANGED session
       \/ /\ kind = "activate"
          /\ state' = [state EXCEPT ![n] = "incomplete", ![Hub] = "inactive"]
          /\ session' = 0
    /\ \/ UNCHANGED <<generation, given>>
       \/ kind \in Makers /\ generation[n] = 0 /\ Register(n)
    /\ UNCHANGED <<sessions, clock, approvals, spent, begun, cleanupVars>>

(* The open Environment is closed, and with the last one closed the Hub    *)
(* opens.                                                                  *)
Close(n) ==
    /\ n # Hub /\ state[n] = "active" /\ running[n] = Idle
    /\ state' = [state EXCEPT ![n] = "inactive"]
    /\ UNCHANGED <<generation, given, session, sessions, clock, approvals,
                   spent, begun, running, left, cleanupVars>>

OpenHub ==
    /\ \A n \in Names : state[n] # "active"
    /\ Activating = {}
    /\ state' = [state EXCEPT ![Hub] = "active"]
    /\ UNCHANGED <<generation, given, session, sessions, clock, approvals,
                   spent, begun, running, left, cleanupVars>>

Unlock ==
    /\ session = 0 /\ state[Hub] = "active" /\ sessions < MaxSessions
    /\ sessions' = sessions + 1 /\ session' = sessions + 1
    /\ UNCHANGED <<state, generation, given, clock, approvals, spent, begun,
                   running, left, cleanupVars>>

Tick ==
    /\ clock < MaxTime /\ clock' = clock + 1
    /\ UNCHANGED <<state, generation, given, session, sessions, approvals,
                   spent, begun, running, left, cleanupVars>>

(* The registration is replaced by another one. *)
Revise(n) ==
    /\ state[n] = "inactive" /\ running[n] = Idle /\ Register(n)
    /\ UNCHANGED <<state, session, sessions, clock, approvals, spent, begun,
                   running, left, cleanupVars>>
-----------------------------------------------------------------------------
(* A cleanup goes on by itself, as does looking at it, until it is over or *)
(* stopped.                                                                *)
Cleaning(n) == n \in Deletables /\ state[n] = "cleaning"

Reclaiming(n) ==
    /\ Cleaning(n) /\ \E r \in Kinds : Reclaim(n, r)
    /\ UNCHANGED hubVars

Replacing(n) ==
    /\ Cleaning(n) /\ \E r \in Kinds : Replace(n, r)
    /\ UNCHANGED hubVars

Looking(n) ==
    /\ Cleaning(n) /\ \E r \in Kinds : Look(n, r)
    /\ UNCHANGED hubVars

LookingAgain(n) == Cleaning(n) /\ NotYet(n) /\ UNCHANGED hubVars

Halting(n) == Cleaning(n) /\ Halt(n) /\ UNCHANGED hubVars

(* The Hub has no button for it: the approval comes from somewhere else.   *)
Resuming(n) == Cleaning(n) /\ Resume(n) /\ UNCHANGED hubVars

(* The deletion is over: the name is absent and may be used again. *)
CleanupOver(n) ==
    /\ Cleaning(n) /\ Complete(n)
    /\ state' = [state EXCEPT ![n] = "absent"]
    /\ generation' = [generation EXCEPT ![n] = 0]
    /\ Forget(n)
    /\ UNCHANGED <<given, session, sessions, clock, approvals, spent, begun,
                   running, left>>

Judging(n) == LookingAgain(n) \/ Halting(n) \/ CleanupOver(n)

Next ==
    \/ \E n \in Names :
          \/ Approve(n) \/ Receive(n) \/ Perform(n) \/ Interrupt(n)
          \/ Close(n) \/ Revise(n)
          \/ Reclaiming(n) \/ Replacing(n) \/ Looking(n)
          \/ Judging(n) \/ Resuming(n)
    \/ OpenHub \/ Unlock \/ Tick

(* What is being deleted is freed in the end, each resource is looked at,  *)
(* and what was seen is judged; how the judgement turns out is open, and   *)
(* neither an approval, an operation, a person nor a clock need ever come. *)
Fairness ==
    \A n \in Deletables :
       WF_vars(Reclaiming(n)) /\ WF_vars(Looking(n)) /\ WF_vars(Judging(n))

Spec == Init /\ [][Next]_vars /\ Fairness
-----------------------------------------------------------------------------
(* An approval is good for one operation, however often the request for it *)
(* comes and though the executor stops in the middle of it.                *)
AtMostOnce == \A k \in DOMAIN approvals : begun[k] <= 1

(* What is under way is what was approved: the same kind of operation, on  *)
(* the Environment as it was registered when the person looked, with the   *)
(* confirmation that such an operation takes.                              *)
RunningAsApproved ==
    \A n \in Names : running[n] # Idle =>
       LET op == running[n]
           approval == approvals[op.approval]
       IN  /\ approval.name = n /\ approval.kind = op.kind
           /\ approval.generation = op.generation
           /\ generation[n] = op.generation
           /\ approval.class = ApprovalByOperation[op.kind]

(* An operation begins in the session it was approved in and no later than *)
(* the longest an approval may last, however late the request comes.       *)
BegunInTime ==
    [][\A k \in DOMAIN approvals : begun'[k] # begun[k] =>
          /\ session = approvals[k].session
          /\ clock <= approvals[k].issued + MaxLifetime]_vars

(* No two Environments are ever open, the Hub being one of them: the       *)
(* session ends as another one opens, and approvals with it.               *)
OneActive ==
    \A n, m \in Names : state[n] = "active" /\ state[m] = "active" => n = m

(* What the Hub offers can be planned, with two exceptions: a name typed   *)
(* in for a new Environment may be taken, and recovery is offered for a    *)
(* creation or restore that was cut short before it was registered, which  *)
(* the contract always refuses, the view knowing no generation.            *)
OffersPlannable ==
    \A n \in Names : \A button \in Buttons(n) :
       \/ Plannable(button.kind, generation[n])
       \/ button.kind \in Makers /\ generation[n] # 0
       \/ /\ button.kind = "recover_complete" /\ generation[n] = 0
          /\ state[n] = "incomplete" /\ left[n] \in Makers

(* An approval of what the Hub offers and can be planned is honoured: as   *)
(* long as the session lasts, the time has not run out, and the            *)
(* Environment is as it was, the request for it is authorized.             *)
OffersHonoured ==
    \A k \in DOMAIN approvals :
       LET approval == approvals[k]
           n == approval.name
       IN  /\ begun[k] = 0 /\ session = approval.session
           /\ approval.expires - approval.issued <= MaxLifetime
           /\ approval.notBefore <= clock /\ clock <= approval.expires
           /\ generation[n] = approval.generation
           /\ ConfirmedCompatible(approval.kind, n)
           => Authorized(Honest(k), approval.digest, approval,
                         Now(approval.kind, n, k))

(* A name is free again only when nothing that was to be deleted remains,  *)
(* though no two resources were looked at in the same moment.              *)
NothingRemains ==
    [][\A n \in Deletables :
          state[n] = "cleaning" /\ state'[n] # "cleaning" =>
             \A r \in ToDelete(plan[n]) : stage[n][r] \in Gone]_vars

(* A deletion comes to its end, or stops until it is approved again: never *)
(* does it go on for ever on good evidence with all gone that was to go.   *)
CleanupEnds ==
    \A n \in Deletables :
       state[n] = "cleaning" ~> state[n] # "cleaning" \/ ~approved[n]
=============================================================================
