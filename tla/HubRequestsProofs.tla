------------------------- MODULE HubRequestsProofs -------------------------
(***************************************************************************)
(* HubRequests for every set of Environments, resources and windows, any   *)
(* bounds and any longest lifetime of an approval.  The invariant says     *)
(* what an approval looks like, that a nonce is spent exactly when an      *)
(* operation began with it, that the Hub is open whenever there is a       *)
(* session or an operation that will close it, that what has been seen to  *)
(* be gone is gone, and what the state of an Environment tells of its      *)
(* registration.                                                           *)
(***************************************************************************)
EXTENDS HubRequests, TLAPS

(* The operations the Hub has buttons for *)
Offerable == {"activate", "archive", "create", "destroy",
              "recover_complete", "restore", "snapshot"}

FaithfulTo(k, a) ==
    /\ a.id = k /\ a.operation = k /\ a.nonce = k
    /\ a.digest = Plan(a.kind, a.name, a.generation)
    /\ a.consequences = a.kind /\ a.class = ApprovalByOperation[a.kind]
    /\ a.kind \in Offerable /\ Plannable(a.kind, a.generation)
    /\ a.issued <= a.notBefore /\ a.notBefore <= a.expires
    /\ a.session # 0 /\ a.expires > 0

Faithful == \A k \in DOMAIN approvals : FaithfulTo(k, approvals[k])

SpentOnce ==
    \A k \in DOMAIN approvals : begun[k] = IF k \in spent THEN 1 ELSE 0

UnderWay ==
    \A n \in Names : running[n] # Idle =>
       /\ n # Hub /\ state[n] # "cleaning"
       /\ running[n].approval \in DOMAIN approvals

HubHolds ==
    /\ session # 0 \/ Activating # {} => state[Hub] = "active"
    /\ \A n, m \in Activating : n = m

SeenGone ==
    \A n \in Deletables, r \in Kinds :
       seen[n][r] = "absent" => stage[n][r] \in Gone

(* Closed and open Environments are registered; one that is incomplete and *)
(* is not, is a creation or restore cut short.                             *)
Registers ==
    /\ generation[Hub] # 0
    /\ \A n \in Names :
          /\ state[n] \in {"inactive", "active"} => generation[n] # 0
          /\ state[n] = "incomplete" /\ generation[n] = 0 => left[n] \in Makers

IInv == /\ TypeOK /\ Faithful /\ SpentOnce /\ UnderWay /\ RunningAsApproved
        /\ HubHolds /\ OneActive /\ SeenGone /\ Registers
-----------------------------------------------------------------------------
(* The tables *)

LEMMA Table ==
    /\ OperationKinds = Offerable \cup {"stop", "force_stop", "recover_cleanup"}
    /\ \A kind \in OperationKinds : ApprovalByOperation[kind] \in ApprovalClasses
BY DEF OperationKinds, Offerable, ApprovalByOperation, ApprovalClasses

(* The table of the Hub agrees with that of the contract on every button.  *)
LEMMA ButtonsAgree ==
    ASSUME NEW n \in Names, NEW b \in Buttons(n)
    PROVE  /\ b.kind \in Offerable
           /\ b.class = ApprovalByOperation[b.kind]
<1>1. PICK unknown, system :
        b \in Offered(View(unknown, system), Templates, n)
  BY DEF Buttons
<1>. DEFINE view == View(unknown, system)
            ready == SystemReady(view)
<1>2. \/ b \in EnvironmentActions(ready, view, n)
      \/ b \in GlobalActions(ready)
      \/ \E t \in Templates : b \in TemplateActions(ready, t)
  BY <1>1 DEF Offered
<1>. HIDE DEF view, ready
<1>3. b \in {Action("recover_complete", "explicit-confirmation"),
             Action("activate", "unlocked-session"),
             Action("snapshot", "explicit-confirmation"),
             Action("archive", "explicit-confirmation"),
             Action("destroy", "strong-confirmation"),
             Action("restore", "explicit-confirmation"),
             Action("create", "explicit-confirmation")}
  BY <1>2 DEF EnvironmentActions, GlobalActions, TemplateActions
<1>. QED  BY <1>3 DEF Action, ApprovalByOperation, Offerable

LEMMA EffectType ==
    ASSUME TypeOK, NEW n \in Names
    PROVE  Effect(running[n].kind, n) \in OperationKinds \cup {"none"}
BY Table DEF Effect, TypeOK, Operations, Offerable
-----------------------------------------------------------------------------
(* What follows for a request that is authorized: it is the one the        *)
(* approval was given for, in time, and the approval has not been used.    *)
LEMMA AuthorizedMeans ==
    ASSUME IInv, NEW n \in Names, NEW k \in DOMAIN approvals, NEW request,
           request.name = n,
           Authorized(request, request.digest, approvals[k],
                      Now(request.kind, n, request.nonce))
    PROVE  /\ request.nonce = k /\ k \notin spent
           /\ request.kind = approvals[k].kind /\ approvals[k].name = n
           /\ request.generation = approvals[k].generation
           /\ request.generation = generation[n]
           /\ session = approvals[k].session
           /\ clock <= approvals[k].issued + MaxLifetime
           /\ ConfirmedCompatible(request.kind, n)
<1>1. /\ approvals[k] \in Approvals /\ approvals[k].nonce = k
      /\ clock \in Nat
  BY DEF IInv, TypeOK, Faithful, FaithfulTo
<1>2. /\ request.nonce = k /\ request.kind = approvals[k].kind
      /\ approvals[k].name = n
      /\ request.generation = approvals[k].generation
  BY <1>1 DEF Authorized, Bound
<1>3. /\ generation[n] = request.generation /\ request.nonce \notin spent
      /\ ConfirmedCompatible(request.kind, n)
  BY DEF Authorized, Current, Now
<1>4. session = approvals[k].session
  BY DEF Authorized, InSession, Now
<1>5. /\ approvals[k].expires - approvals[k].issued <= MaxLifetime
      /\ clock <= approvals[k].expires
  BY DEF Authorized, InWindow, Now
<1>6. clock <= approvals[k].issued + MaxLifetime
  <2>1. approvals[k].expires \in Nat /\ approvals[k].issued \in Nat
    BY <1>1 DEF Approvals
  <2>. QED  BY <1>1, <1>5, <2>1, LifetimeAssumption
<1>. QED  BY <1>2, <1>3, <1>4, <1>6
-----------------------------------------------------------------------------
THEOREM InitIInv == Init => IInv
<1>. SUFFICES ASSUME Init PROVE IInv
  OBVIOUS
<1>. USE RequestsAssumption, HubAssumption
<1>1. PICK there \in SUBSET (Names \ {Hub}) :
        /\ state = [n \in Names |-> IF n = Hub THEN "active"
                      ELSE IF n \in there THEN "inactive" ELSE "absent"]
        /\ generation = [n \in Names |->
                            IF n \in there \cup {Hub} THEN 1 ELSE 0]
  BY DEF Init
<1>2. CleanupTypeOK /\ SeenGone
  BY KindsAssumption DEF Init, CleanupInit, CleanupTypeOK, SeenGone, NothingSeen, Gone,
         Dispositions, Stages, Observed
<1>3. Idle \in Operations /\ Idle.kind = "none"
  BY DEF Idle, Operations
<1>4. TypeOK
  <2>1. state \in [Names -> States] /\ generation \in [Names -> Nat]
    BY <1>1 DEF States
  <2>. QED  BY <1>2, <1>3, <2>1 DEF Init, TypeOK
<1>5. Activating = {}
  BY <1>3 DEF Init, Activating, Effect
<1>6. HubHolds /\ OneActive
  BY <1>1, <1>5 DEF HubHolds, OneActive
<1>7. Faithful /\ SpentOnce /\ UnderWay /\ RunningAsApproved
  BY DEF Init, Faithful, SpentOnce, UnderWay, RunningAsApproved
<1>8. Registers
  BY <1>1 DEF Registers
<1>. QED  BY <1>2, <1>4, <1>6, <1>7, <1>8 DEF IInv
-----------------------------------------------------------------------------
(* Nothing but a request begins an operation, and nothing but a button     *)
(* adds an approval: what all other steps leave alone.                     *)
Given == <<approvals, spent, begun>>

LEMMA ApproveKeeps ==
    ASSUME IInv, NEW n \in Names, Approve(n)
    PROVE  IInv'
<1>. USE RequestsAssumption
<1>1. PICK button \in Buttons(n), w \in Windows :
        /\ Plannable(button.kind, generation[n])
        /\ approvals' = Append(approvals,
              [id |-> Len(approvals) + 1, operation |-> Len(approvals) + 1,
               nonce |-> Len(approvals) + 1,
               kind |-> button.kind, name |-> n,
               generation |-> generation[n],
               digest |-> Plan(button.kind, n, generation[n]),
               consequences |-> button.kind, class |-> button.class,
               session |-> session, issued |-> clock,
               notBefore |-> clock + w[1],
               expires |-> clock + w[1] + w[2]])
        /\ begun' = Append(begun, 0)
  BY DEF Approve
<1>. DEFINE K == Len(approvals) + 1
            new == [id |-> K, operation |-> K, nonce |-> K,
                    kind |-> button.kind, name |-> n,
                    generation |-> generation[n],
                    digest |-> Plan(button.kind, n, generation[n]),
                    consequences |-> button.kind, class |-> button.class,
                    session |-> session, issued |-> clock,
                    notBefore |-> clock + w[1],
                    expires |-> clock + w[1] + w[2]]
<1>2. /\ button.kind \in Offerable
      /\ button.class = ApprovalByOperation[button.kind]
  BY ButtonsAgree
<1>3. button.kind \in OperationKinds /\ button.class \in ApprovalClasses
  BY <1>2, Table
<1>4. /\ generation[n] \in Nat /\ w[1] \in Nat /\ w[2] \in Nat
      /\ clock \in Nat \ {0} /\ session \in Nat \ {0}
      /\ approvals \in Seq(Approvals) /\ Len(approvals) \in Nat
  BY DEF IInv, TypeOK, Approve
<1>5. new \in Approvals
  BY <1>2, <1>3, <1>4 DEF Approvals, Plan
<1>6. FaithfulTo(K, new)
  BY <1>1, <1>2, <1>4 DEF FaithfulTo
<1>. HIDE DEF new
<1>7. /\ approvals' \in Seq(Approvals) /\ DOMAIN approvals' = 1..K
      /\ DOMAIN approvals = 1..(K - 1)
      /\ \A k \in DOMAIN approvals :
            k \in DOMAIN approvals' /\ approvals'[k] = approvals[k]
      /\ approvals'[K] = new
  <2>1. approvals' = Append(approvals, new)
    BY <1>1 DEF new
  <2>. QED  BY <1>4, <1>5, <2>1
<1>8. /\ begun' \in [DOMAIN approvals' -> Nat] /\ begun'[K] = 0
      /\ \A k \in DOMAIN approvals : begun'[k] = begun[k]
  <2>1. begun \in [1..(K - 1) -> Nat]
    BY <1>7 DEF IInv, TypeOK
  <2>2. begun \in Seq(Nat) /\ Len(begun) = K - 1
    BY <1>4, <2>1
  <2>3. begun' = Append(begun, 0)
    BY <1>1
  <2>4. /\ begun' \in Seq(Nat) /\ Len(begun') = K /\ begun'[K] = 0
        /\ \A k \in 1..(K - 1) : begun'[k] = begun[k]
    BY <1>4, <2>2, <2>3
  <2>5. begun' \in [1..K -> Nat]
    BY <2>4
  <2>. QED  BY <1>7, <2>4, <2>5
<1>9. /\ UNCHANGED <<state, generation, given, session, sessions, clock>>
      /\ UNCHANGED <<spent, running, left>> /\ UNCHANGED cleanupVars
  BY DEF Approve
<1>10. TypeOK'
  BY <1>7, <1>8, <1>9 DEF IInv, TypeOK, CleanupTypeOK, cleanupVars
<1>11. Faithful'
  <2>. SUFFICES ASSUME NEW k \in DOMAIN approvals'
                PROVE  FaithfulTo(k, approvals'[k])
    BY DEF Faithful, FaithfulTo
  <2>1. CASE k = K
    BY <1>6, <1>7, <2>1
  <2>2. CASE k # K
    <3>1. k \in DOMAIN approvals
      BY <1>4, <1>7, <2>2
    <3>. QED  BY <1>7, <3>1 DEF IInv, Faithful
  <2>. QED  BY <2>1, <2>2
<1>12. SpentOnce'
  <2>. SUFFICES ASSUME NEW k \in DOMAIN approvals'
                PROVE  begun'[k] = IF k \in spent THEN 1 ELSE 0
    BY <1>9 DEF SpentOnce
  <2>1. CASE k = K
    BY <1>4, <1>7, <1>8, <2>1 DEF IInv, TypeOK
  <2>2. CASE k # K
    <3>1. k \in DOMAIN approvals
      BY <1>4, <1>7, <2>2
    <3>. QED  BY <1>8, <3>1 DEF IInv, SpentOnce
  <2>. QED  BY <2>1, <2>2
<1>13. UnderWay' /\ RunningAsApproved'
  BY <1>7, <1>9 DEF IInv, UnderWay, RunningAsApproved
<1>14. HubHolds' /\ OneActive' /\ SeenGone' /\ Registers'
  BY <1>9 DEF IInv, HubHolds, OneActive, SeenGone, Registers, Activating,
              Effect, cleanupVars
<1>. QED  BY <1>10, <1>11, <1>12, <1>13, <1>14 DEF IInv

LEMMA ReceiveKeeps ==
    ASSUME IInv, NEW n \in Names, Receive(n)
    PROVE  IInv'
<1>. USE RequestsAssumption
<1>1. PICK k \in DOMAIN approvals : \E request \in Requests(k) :
        /\ request.name = n
        /\ Authorized(request, request.digest, approvals[k],
                      Now(request.kind, n, request.nonce))
        /\ spent' = spent \cup {request.nonce}
        /\ begun' = [begun EXCEPT ![k] = @ + 1]
        /\ running' = [running EXCEPT ![n] =
              [approval |-> k, kind |-> request.kind,
               generation |-> request.generation]]
  BY DEF Receive
<1>2. PICK request \in Requests(k) :
        /\ request.name = n
        /\ Authorized(request, request.digest, approvals[k],
                      Now(request.kind, n, request.nonce))
        /\ spent' = spent \cup {request.nonce}
        /\ begun' = [begun EXCEPT ![k] = @ + 1]
        /\ running' = [running EXCEPT ![n] =
              [approval |-> k, kind |-> request.kind,
               generation |-> request.generation]]
  BY <1>1
<1>3. /\ request.nonce = k /\ k \notin spent
      /\ request.kind = approvals[k].kind /\ approvals[k].name = n
      /\ request.generation = approvals[k].generation
      /\ request.generation = generation[n]
      /\ session = approvals[k].session
      /\ ConfirmedCompatible(request.kind, n)
  BY <1>2, AuthorizedMeans
<1>4. FaithfulTo(k, approvals[k])
  BY DEF IInv, Faithful
<1>5. /\ UNCHANGED <<state, generation, given, session, sessions, clock,
                     approvals, left>>
      /\ UNCHANGED cleanupVars
  BY DEF Receive
<1>. DEFINE op == [approval |-> k, kind |-> request.kind,
                   generation |-> request.generation]
<1>6. /\ spent' = spent \cup {k} /\ begun' = [begun EXCEPT ![k] = @ + 1]
      /\ running' = [running EXCEPT ![n] = op]
  BY <1>2, <1>3
<1>7. /\ k \in Nat /\ generation[n] \in Nat
      /\ approvals[k].kind \in Offerable
  BY <1>4 DEF IInv, TypeOK, FaithfulTo
<1>8. op \in Operations
  BY <1>3, <1>7, Table DEF Operations
<1>9. session # 0 /\ state[Hub] = "active" /\ running[n] = Idle
  BY <1>3, <1>4 DEF FaithfulTo, IInv, HubHolds, ConfirmedCompatible
<1>10. state[n] \in {"inactive", "absent", "incomplete"}
  BY <1>3, <1>7 DEF ConfirmedCompatible, Needs, Offerable
<1>11. n # Hub /\ state[n] # "cleaning"
  BY <1>9, <1>10
<1>12. TypeOK'
  BY <1>5, <1>6, <1>8 DEF IInv, TypeOK, CleanupTypeOK, cleanupVars
<1>13. Faithful' /\ OneActive' /\ SeenGone' /\ Registers'
  BY <1>5 DEF IInv, Faithful, FaithfulTo, OneActive, SeenGone, Registers,
              cleanupVars
<1>14. SpentOnce'
  BY <1>3, <1>5, <1>6 DEF IInv, SpentOnce, TypeOK
<1>15. running'[n] = op /\ \A m \in Names \ {n} : running'[m] = running[m]
  BY <1>6 DEF IInv, TypeOK
<1>16. UnderWay'
  BY <1>5, <1>11, <1>15 DEF IInv, UnderWay
<1>17. RunningAsApproved'
  <2>. SUFFICES ASSUME NEW m \in Names, running'[m] # Idle
                PROVE  LET approval == approvals[running'[m].approval]
                       IN  /\ approval.name = m
                           /\ approval.kind = running'[m].kind
                           /\ approval.generation = running'[m].generation
                           /\ generation[m] = running'[m].generation
                           /\ approval.class =
                                 ApprovalByOperation[running'[m].kind]
    BY <1>5 DEF RunningAsApproved
  <2>1. CASE m = n
    <3>1. /\ op.approval = k /\ op.kind = approvals[k].kind
          /\ op.generation = approvals[k].generation
          /\ op.generation = generation[n]
      BY <1>3
    <3>2. approvals[k].class = ApprovalByOperation[approvals[k].kind]
      BY <1>4 DEF FaithfulTo
    <3>. HIDE DEF op
    <3>. QED  BY <1>3, <1>15, <2>1, <3>1, <3>2
  <2>2. CASE m # n
    BY <1>15, <2>2 DEF IInv, RunningAsApproved
  <2>. QED  BY <2>1, <2>2
<1>18. HubHolds'
  <2>1. \A m \in Names \ {n} : m \in Activating' <=> m \in Activating
    BY <1>5, <1>15 DEF Activating, Effect
  <2>2. n \in Activating' => Activating = {}
    BY <1>3, <1>5, <1>15
       DEF Activating, Effect, ConfirmedCompatible
  <2>3. Activating' \subseteq Names
    BY DEF Activating
  <2>. QED  BY <1>5, <1>9, <2>1, <2>2, <2>3 DEF IInv, HubHolds
<1>. QED  BY <1>12, <1>13, <1>14, <1>16, <1>17, <1>18 DEF IInv

(* An operation ends, one way or another: nothing about the approvals and  *)
(* the other operations changes.                                           *)
LEMMA EndKeeps ==
    ASSUME IInv, NEW n \in Names, running[n] # Idle,
           running' = [running EXCEPT ![n] = Idle],
           UNCHANGED <<approvals, spent, begun>>,
           \A m \in Names \ {n} : generation'[m] = generation[m],
           \A m \in Names \ {n} : left'[m] = left[m],
           \A m \in Names \ {n} : m # Hub => state'[m] = state[m]
    PROVE  /\ Faithful' /\ SpentOnce' /\ UnderWay' /\ RunningAsApproved'
           /\ Activating' = Activating \ {n} /\ n # Hub
           /\ \A m \in Names \ {n} : state'[m] # state[m] => m = Hub
<1>1. running'[n] = Idle /\ \A m \in Names \ {n} : running'[m] = running[m]
  BY DEF IInv, TypeOK
<1>2. Faithful' /\ SpentOnce'
  BY DEF IInv, Faithful, FaithfulTo, SpentOnce
<1>3. UnderWay'
  BY <1>1 DEF IInv, UnderWay
<1>4. RunningAsApproved'
  BY <1>1 DEF IInv, RunningAsApproved
<1>5. n \notin Activating'
  BY <1>1 DEF Activating, Effect, Idle
<1>6. \A m \in Names \ {n} : m \in Activating' <=> m \in Activating
  BY <1>1 DEF Activating, Effect
<1>7. Activating' \subseteq Names /\ Activating \subseteq Names
  BY DEF Activating
<1>. QED  BY <1>2, <1>3, <1>4, <1>5, <1>6, <1>7 DEF IInv, UnderWay

LEMMA RegisterType ==
    ASSUME TypeOK, NEW n \in Names, Register(n)
    PROVE  /\ generation' \in [Names -> Nat] /\ given' \in [Names -> Nat]
           /\ \A m \in Names \ {n} : generation'[m] = generation[m]
BY DEF TypeOK, Register

LEMMA BeginCleanupType ==
    ASSUME CleanupTypeOK, SeenGone, NEW n \in Deletables, BeginCleanup(n)
    PROVE  CleanupTypeOK' /\ SeenGone'
<1>1. PICK extra \in SUBSET (Kinds \ Mandatory), scope \in Scopes :
        LET p == PlanFor(extra, scope) IN
        /\ plan' = [plan EXCEPT ![n] = p]
        /\ stage' = [stage EXCEPT ![n] =
              [r \in Kinds |-> IF p[r] = "unlisted" THEN "absent"
                               ELSE "present"]]
        /\ seen' = [seen EXCEPT ![n] = NothingSeen]
        /\ approved' = [approved EXCEPT ![n] = TRUE]
  BY DEF BeginCleanup
<1>. DEFINE p == PlanFor(extra, scope)
            new == [r \in Kinds |-> IF p[r] = "unlisted" THEN "absent"
                                    ELSE "present"]
<1>2. p \in [Kinds -> Dispositions]
  BY DEF PlanFor, Dispositions
<1>. HIDE DEF p
<1>3. new \in [Kinds -> Stages]
  BY DEF Stages
<1>4. NothingSeen \in [Kinds -> Observed \cup {"unseen"}]
  BY DEF NothingSeen
<1>5. /\ plan' = [plan EXCEPT ![n] = p] /\ stage' = [stage EXCEPT ![n] = new]
      /\ seen' = [seen EXCEPT ![n] = NothingSeen]
  BY <1>1 DEF p
<1>. HIDE DEF new
<1>6. CleanupTypeOK'
  BY <1>1, <1>2, <1>3, <1>4, <1>5 DEF CleanupTypeOK
<1>7. SeenGone'
  <2>. SUFFICES ASSUME NEW m \in Deletables, NEW r \in Kinds,
                       seen'[m][r] = "absent"
                PROVE  stage'[m][r] \in Gone
    BY DEF SeenGone
  <2>1. CASE m = n
    BY <1>5, <2>1 DEF CleanupTypeOK, NothingSeen
  <2>2. CASE m # n
    BY <1>5, <2>2 DEF CleanupTypeOK, SeenGone
  <2>. QED  BY <2>1, <2>2
<1>. QED  BY <1>6, <1>7

(* What is under way on an Environment that is not registered makes one.  *)
LEMMA Making ==
    ASSUME IInv, NEW n \in Names, running[n] # Idle, generation[n] = 0
    PROVE  Effect(running[n].kind, n) \in Makers
<1>. DEFINE k == running[n].approval
<1>1. /\ k \in DOMAIN approvals /\ approvals[k].kind = running[n].kind
      /\ approvals[k].generation = 0
  BY DEF IInv, UnderWay, RunningAsApproved
<1>2. Plannable(running[n].kind, 0)
  BY <1>1 DEF IInv, Faithful, FaithfulTo
<1>. QED  BY <1>2 DEF Plannable, Effect, Makers

LEMMA RegisterMore ==
    ASSUME TypeOK, NEW n \in Names, Register(n)
    PROVE  generation'[n] # 0
BY DEF TypeOK, Register

LEMMA PerformKeeps ==
    ASSUME IInv, NEW n \in Names, Perform(n)
    PROVE  IInv'
<1>. USE RequestsAssumption, HubAssumption
<1>1. /\ running[n] # Idle /\ running' = [running EXCEPT ![n] = Idle]
      /\ left' = [left EXCEPT ![n] = "none"]
      /\ UNCHANGED <<sessions, clock, approvals, spent, begun>>
  BY DEF Perform
<1>2. TypeOK /\ Idle \in Operations /\ Hub \in Names
  BY DEF IInv, Idle, Operations
<1>3. /\ running' \in [Names -> Operations]
      /\ left' \in [Names -> OperationKinds \cup {"none"}]
      /\ \A m \in Names \ {n} : left'[m] = left[m]
  BY <1>1, <1>2 DEF TypeOK
<1>4. /\ state' \in [Names -> States]
      /\ generation' \in [Names -> Nat] /\ given' \in [Names -> Nat]
      /\ session' \in Nat /\ CleanupTypeOK' /\ SeenGone'
      /\ \A m \in Names \ {n} : generation'[m] = generation[m]
      /\ \A m \in Names \ {n} : m # Hub => state'[m] = state[m]
  <2>1. CASE Make(n) \/ Copy(n)
    <3>1. UNCHANGED cleanupVars /\ state' = [state EXCEPT ![n] = "inactive"]
      BY <2>1 DEF Make, Copy
    <3>2. UNCHANGED <<generation, given>> \/ Register(n)
      BY <2>1 DEF Make, Copy
    <3>3. /\ generation' \in [Names -> Nat] /\ given' \in [Names -> Nat]
          /\ \A m \in Names \ {n} : generation'[m] = generation[m]
      BY <1>2, <3>2, RegisterType DEF TypeOK
    <3>4. CleanupTypeOK' /\ SeenGone'
      BY <1>2, <3>1
         DEF TypeOK, CleanupTypeOK, SeenGone, cleanupVars, IInv
    <3>. QED  BY <1>2, <2>1, <3>1, <3>3, <3>4
              DEF Make, Copy, TypeOK, States
  <2>2. CASE Open(n)
    <3>1. CleanupTypeOK' /\ SeenGone'
      BY <1>2, <2>2
         DEF Open, TypeOK, CleanupTypeOK, SeenGone, cleanupVars, IInv
    <3>. QED  BY <1>2, <2>2, <3>1 DEF Open, TypeOK, States
  <2>3. CASE Delete(n)
    <3>1. CleanupTypeOK' /\ SeenGone'
      BY <1>2, <2>3, BeginCleanupType DEF Delete, TypeOK, IInv
    <3>. QED  BY <1>2, <2>3, <3>1 DEF Delete, TypeOK, States
  <2>. QED  BY <2>1, <2>2, <2>3 DEF Perform
<1>5. TypeOK'
  BY <1>1, <1>2, <1>3, <1>4 DEF TypeOK
<1>6. /\ Faithful' /\ SpentOnce' /\ UnderWay' /\ RunningAsApproved'
      /\ Activating' = Activating \ {n} /\ n # Hub
  BY <1>1, <1>3, <1>4, EndKeeps
<1>7. HubHolds' /\ OneActive'
  <2>1. CASE Open(n)
    <3>1. n \in Activating
      BY <2>1 DEF Open, Activating
    <3>2. Activating' = {} /\ state[Hub] = "active"
      BY <1>6, <3>1 DEF IInv, HubHolds, Activating
    <3>3. \A m \in Names : state[m] = "active" => m = Hub
      BY <3>2 DEF IInv, OneActive
    <3>4. session' = 0 /\ \A m \in Names : state'[m] = "active" => m = n
      BY <1>2, <1>6, <2>1, <3>3 DEF Open, TypeOK
    <3>5. HubHolds'
      BY <3>2, <3>4 DEF HubHolds
    <3>. QED  BY <3>4, <3>5 DEF OneActive
  <2>2. CASE Make(n) \/ Copy(n) \/ Delete(n)
    <3>1. /\ session' = session /\ state'[n] # "active"
          /\ \A m \in Names \ {n} : state'[m] = state[m]
      BY <1>2, <2>2 DEF Make, Copy, Delete, TypeOK
    <3>2. OneActive'
      BY <3>1 DEF IInv, OneActive
    <3>3. state'[Hub] = state[Hub]
      BY <1>2, <1>6, <3>1
    <3>. QED  BY <1>6, <3>1, <3>2, <3>3 DEF IInv, HubHolds
  <2>. QED  BY <2>1, <2>2 DEF Perform
<1>8. Registers'
  <2>1. generation'[Hub] = generation[Hub]
    BY <1>2, <1>4, <1>6
  <2>2. state'[n] = "cleaning" \/ generation'[n] # 0
    <3>1. CASE Make(n)
      <4>1. CASE generation[n] = 0
        BY <1>2, <3>1, <4>1, RegisterMore DEF Make
      <4>2. CASE generation[n] # 0
        BY <3>1, <4>2 DEF Make
      <4>. QED  BY <4>1, <4>2
    <3>2. CASE Open(n) \/ Copy(n)
      <4>1. generation[n] # 0 /\ UNCHANGED generation
        BY <1>1, <3>2, Making DEF Open, Copy, Makers
      <4>. QED  BY <4>1
    <3>3. CASE Delete(n)
      BY <1>2, <3>3 DEF Delete, TypeOK
    <3>. QED  BY <3>1, <3>2, <3>3 DEF Perform
  <2>3. \A m \in Names \ {n} :
          /\ generation'[m] = generation[m] /\ left'[m] = left[m]
          /\ m # Hub => state'[m] = state[m]
    BY <1>3, <1>4
  <2>. QED  BY <2>1, <2>2, <2>3 DEF IInv, Registers
<1>. QED  BY <1>4, <1>5, <1>6, <1>7, <1>8 DEF IInv

LEMMA InterruptKeeps ==
    ASSUME IInv, NEW n \in Names, Interrupt(n)
    PROVE  IInv'
<1>. USE RequestsAssumption, HubAssumption
<1>. DEFINE kind == Effect(running[n].kind, n)
<1>1. /\ running[n] # Idle /\ running' = [running EXCEPT ![n] = Idle]
      /\ left' = [left EXCEPT ![n] = kind]
      /\ UNCHANGED <<sessions, clock, approvals, spent, begun>>
      /\ UNCHANGED cleanupVars
      /\ UNCHANGED <<generation, given>> \/ Register(n)
  BY DEF Interrupt
<1>2. TypeOK /\ Idle \in Operations /\ Hub \in Names
  BY DEF IInv, Idle, Operations
<1>3. \/ state' = [state EXCEPT ![n] = "incomplete"] /\ session' = session
      \/ /\ kind = "activate" /\ session' = 0
         /\ state' = [state EXCEPT ![n] = "incomplete", ![Hub] = "inactive"]
  BY DEF Interrupt
<1>4. kind \in OperationKinds \cup {"none"}
  BY <1>2, EffectType
<1>. HIDE DEF kind
<1>5. /\ running' \in [Names -> Operations]
      /\ left' \in [Names -> OperationKinds \cup {"none"}]
      /\ \A m \in Names \ {n} : left'[m] = left[m]
  BY <1>1, <1>2, <1>4 DEF TypeOK
<1>6. /\ generation' \in [Names -> Nat] /\ given' \in [Names -> Nat]
      /\ \A m \in Names \ {n} : generation'[m] = generation[m]
  BY <1>1, <1>2, RegisterType DEF TypeOK
<1>7. /\ state' \in [Names -> States] /\ session' \in Nat
      /\ \A m \in Names \ {n} : m # Hub => state'[m] = state[m]
      /\ \A m \in Names : state'[m] = "active" => state[m] = "active"
  <2>1. state \in [Names -> States] /\ session \in Nat
    BY <1>2 DEF TypeOK
  <2>2. CASE state' = [state EXCEPT ![n] = "incomplete"] /\ session' = session
    BY <2>1, <2>2 DEF States
  <2>3. CASE /\ session' = 0
             /\ state' = [state EXCEPT ![n] = "incomplete",
                                      ![Hub] = "inactive"]
    <3>1. state' \in [Names -> States]
      BY <1>2, <2>1, <2>3 DEF States
    <3>2. \A m \in Names : state'[m] \in {state[m], "incomplete", "inactive"}
      BY <2>1, <2>3
    <3>3. \A m \in Names \ {n} : m # Hub => state'[m] = state[m]
      BY <2>1, <2>3
    <3>. QED  BY <2>3, <3>1, <3>2, <3>3
  <2>. QED  BY <1>3, <2>2, <2>3
<1>8. CleanupTypeOK' /\ SeenGone'
  BY <1>1, <1>2 DEF TypeOK, CleanupTypeOK, SeenGone, cleanupVars, IInv
<1>9. TypeOK'
  BY <1>1, <1>2, <1>5, <1>6, <1>7, <1>8 DEF TypeOK
<1>10. /\ Faithful' /\ SpentOnce' /\ UnderWay' /\ RunningAsApproved'
       /\ Activating' = Activating \ {n} /\ n # Hub
  BY <1>1, <1>5, <1>6, <1>7, EndKeeps
<1>11. OneActive'
  BY <1>7 DEF IInv, OneActive
<1>12. HubHolds'
  <2>1. CASE state' = [state EXCEPT ![n] = "incomplete"] /\ session' = session
    <3>1. state'[Hub] = state[Hub]
      BY <1>2, <1>10, <2>1 DEF TypeOK
    <3>. QED  BY <1>10, <2>1, <3>1 DEF IInv, HubHolds
  <2>2. CASE kind = "activate" /\ session' = 0
    <3>1. n \in Activating
      BY <2>2 DEF Activating, kind
    <3>2. Activating' = {}
      BY <1>10, <3>1 DEF IInv, HubHolds, Activating
    <3>. QED  BY <2>2, <3>2 DEF HubHolds
  <2>. QED  BY <1>3, <2>1, <2>2
<1>13. Registers'
  <2>1. generation'[Hub] = generation[Hub]
    BY <1>2, <1>6, <1>10
  <2>2. state'[n] = "incomplete"
    BY <1>2, <1>3, <1>10 DEF TypeOK
  <2>3. generation'[n] = 0 => left'[n] \in Makers
    <3>1. generation'[n] = 0 => generation[n] = 0
      BY <1>1, <1>2, RegisterMore
    <3>2. left'[n] = kind
      BY <1>1, <1>2 DEF TypeOK
    <3>. QED  BY <1>1, <3>1, <3>2, Making DEF kind
  <2>. QED  BY <1>5, <1>6, <1>7, <2>1, <2>2, <2>3 DEF IInv, Registers
<1>. QED  BY <1>8, <1>9, <1>10, <1>11, <1>12, <1>13 DEF IInv

(* What the steps outside the executor leave alone *)
LEMMA QuietKeeps ==
    ASSUME IInv, UNCHANGED <<approvals, spent, begun, running, left>>,
           UNCHANGED cleanupVars
    PROVE  /\ Faithful' /\ SpentOnce' /\ SeenGone' /\ CleanupTypeOK'
           /\ Activating' = Activating
BY DEF IInv, TypeOK, Faithful, FaithfulTo, SpentOnce, SeenGone,
       CleanupTypeOK, cleanupVars, Activating, Effect

LEMMA PersonKeeps ==
    ASSUME IInv,
           \/ \E n \in Names : Close(n) \/ Revise(n)
           \/ OpenHub \/ Unlock \/ Tick
    PROVE  IInv'
<1>. USE RequestsAssumption, HubAssumption
<1>1. TypeOK /\ Hub \in Names
  BY DEF IInv
<1>2. /\ UNCHANGED <<approvals, spent, begun, running, left>>
      /\ UNCHANGED cleanupVars
  BY DEF Close, Revise, OpenHub, Unlock, Tick
<1>3. /\ Faithful' /\ SpentOnce' /\ SeenGone' /\ CleanupTypeOK'
      /\ Activating' = Activating
  BY <1>2, QuietKeeps
<1>4. ASSUME NEW n \in Names, Close(n)
      PROVE  IInv'
  <2>1. /\ state' = [state EXCEPT ![n] = "inactive"] /\ n # Hub
        /\ UNCHANGED <<generation, given, session, sessions, clock>>
    BY <1>4 DEF Close
  <2>2. TypeOK'
    BY <1>1, <1>2, <1>3, <2>1 DEF TypeOK, States
  <2>3. \A m \in Names : state'[m] \in {state[m], "inactive"}
    BY <1>1, <2>1 DEF TypeOK
  <2>4. UnderWay' /\ RunningAsApproved'
    BY <1>2, <2>1, <2>3 DEF IInv, UnderWay, RunningAsApproved
  <2>5. OneActive'
    BY <2>3 DEF IInv, OneActive
  <2>6. HubHolds'
    BY <1>1, <1>3, <2>1 DEF IInv, HubHolds, TypeOK
  <2>7. Registers'
    <3>1. state[n] = "active"
      BY <1>4 DEF Close
    <3>. QED  BY <1>1, <1>2, <2>1, <3>1 DEF IInv, Registers, TypeOK
  <2>. QED  BY <1>3, <2>2, <2>4, <2>5, <2>6, <2>7 DEF IInv
<1>5. ASSUME NEW n \in Names, Revise(n)
      PROVE  IInv'
  <2>1. /\ running[n] = Idle /\ Register(n)
        /\ UNCHANGED <<state, session, sessions, clock>>
    BY <1>5 DEF Revise
  <2>2. /\ generation' \in [Names -> Nat] /\ given' \in [Names -> Nat]
        /\ \A m \in Names \ {n} : generation'[m] = generation[m]
    BY <1>1, <2>1, RegisterType
  <2>3. TypeOK'
    BY <1>1, <1>2, <1>3, <2>1, <2>2 DEF TypeOK
  <2>4. UnderWay' /\ RunningAsApproved'
    BY <1>2, <2>1, <2>2 DEF IInv, UnderWay, RunningAsApproved
  <2>5. OneActive' /\ HubHolds'
    BY <1>3, <2>1 DEF IInv, OneActive, HubHolds
  <2>6. Registers'
    <3>1. generation'[n] # 0
      BY <1>1, <2>1, RegisterMore
    <3>. QED  BY <1>2, <2>1, <2>2, <3>1 DEF IInv, Registers
  <2>. QED  BY <1>3, <2>3, <2>4, <2>5, <2>6 DEF IInv
<1>6. ASSUME OpenHub
      PROVE  IInv'
  <2>1. /\ state' = [state EXCEPT ![Hub] = "active"]
        /\ \A n \in Names : state[n] # "active"
        /\ UNCHANGED <<generation, given, session, sessions, clock>>
    BY <1>6 DEF OpenHub
  <2>2. TypeOK'
    BY <1>1, <1>2, <1>3, <2>1 DEF TypeOK, States
  <2>3. /\ state'[Hub] = "active"
        /\ \A m \in Names \ {Hub} : state'[m] = state[m]
    BY <1>1, <2>1 DEF TypeOK
  <2>4. UnderWay' /\ RunningAsApproved'
    BY <1>2, <2>1, <2>3 DEF IInv, UnderWay, RunningAsApproved
  <2>5. OneActive' /\ HubHolds' /\ Registers'
    BY <1>2, <1>3, <2>1, <2>3 DEF IInv, OneActive, HubHolds, Registers
  <2>. QED  BY <1>3, <2>2, <2>4, <2>5 DEF IInv
<1>7. ASSUME Unlock \/ Tick
      PROVE  IInv'
  <2>1. /\ UNCHANGED <<state, generation, given>>
        /\ session' \in Nat /\ sessions' \in Nat /\ clock' \in Nat \ {0}
        /\ session' # 0 => session # 0 \/ state[Hub] = "active"
    BY <1>1, <1>7 DEF Unlock, Tick, TypeOK
  <2>2. TypeOK'
    BY <1>1, <1>2, <1>3, <2>1 DEF TypeOK
  <2>3. UnderWay' /\ RunningAsApproved'
    BY <1>2, <2>1 DEF IInv, UnderWay, RunningAsApproved
  <2>4. OneActive' /\ HubHolds' /\ Registers'
    BY <1>2, <1>3, <2>1 DEF IInv, OneActive, HubHolds, Registers
  <2>. QED  BY <1>3, <2>2, <2>3, <2>4 DEF IInv
<1>. QED  BY <1>4, <1>5, <1>6, <1>7

LEMMA CleanupKeeps ==
    ASSUME IInv, NEW n \in Names,
           \/ Reclaiming(n) \/ Replacing(n) \/ Looking(n)
           \/ Judging(n) \/ Resuming(n)
    PROVE  IInv'
<1>. USE RequestsAssumption, HubAssumption
<1>1. TypeOK /\ CleanupTypeOK /\ SeenGone /\ Hub \in Names
  BY DEF IInv, TypeOK
<1>2. n \in Deletables /\ n # Hub /\ state[n] = "cleaning"
  BY DEF Reclaiming, Replacing, Looking, Judging, LookingAgain, Halting,
         Resuming, CleanupOver, Cleaning
<1>3. CleanupTypeOK' /\ SeenGone'
  <2>1. ASSUME NEW r \in Kinds, Reclaim(n, r) \/ Replace(n, r)
        PROVE  CleanupTypeOK' /\ SeenGone'
    <3>1. PICK to \in {"under_deletion", "absent", "foreign"} :
            /\ stage' = [stage EXCEPT ![n][r] = to]
            /\ stage[n][r] = "absent" => to = "foreign"
      BY <2>1 DEF Reclaim, Replace
    <3>2. UNCHANGED <<plan, seen, approved>>
      BY <2>1 DEF Reclaim, Replace
    <3>3. stage[n][r] = "foreign" => FALSE
      BY <2>1 DEF Reclaim, Replace
    <3>4. \A m \in Deletables, q \in Kinds :
            stage'[m][q] = IF m = n /\ q = r THEN to ELSE stage[m][q]
      BY <1>1, <1>2, <3>1 DEF CleanupTypeOK
    <3>5. SeenGone'
      BY <1>1, <1>2, <3>1, <3>2, <3>3, <3>4 DEF SeenGone, Gone
    <3>6. CleanupTypeOK'
      BY <1>1, <1>2, <3>1, <3>2 DEF CleanupTypeOK, Stages
    <3>. QED  BY <3>5, <3>6
  <2>2. ASSUME NEW r \in Kinds, Look(n, r)
        PROVE  CleanupTypeOK' /\ SeenGone'
    <3>1. /\ seen' = [seen EXCEPT ![n][r] = stage[n][r]]
          /\ UNCHANGED <<plan, stage, approved>>
      BY <2>2 DEF Look
    <3>2. \A m \in Deletables, q \in Kinds :
            seen'[m][q] = IF m = n /\ q = r THEN stage[n][r] ELSE seen[m][q]
      BY <1>1, <1>2, <3>1 DEF CleanupTypeOK
    <3>3. SeenGone'
      BY <1>1, <3>1, <3>2 DEF SeenGone, Gone
    <3>4. stage[n][r] \in Observed
      BY <1>1, <1>2 DEF CleanupTypeOK, Observed
    <3>5. CleanupTypeOK'
      BY <1>1, <1>2, <3>1, <3>4 DEF CleanupTypeOK
    <3>. QED  BY <3>3, <3>5
  <2>3. CASE Judging(n)
    <3>1. /\ seen' = [seen EXCEPT ![n] = NothingSeen]
          /\ UNCHANGED <<plan, stage>> \/ Forget(n)
          /\ approved' \in {approved, [approved EXCEPT ![n] = FALSE]}
      BY <2>3 DEF Judging, LookingAgain, NotYet, Halting, Halt, CleanupOver,
                  Forget
    <3>2. /\ seen'[n] = NothingSeen
          /\ \A m \in Deletables \ {n} :
                seen'[m] = seen[m] /\ stage'[m] = stage[m]
      BY <1>1, <1>2, <3>1 DEF CleanupTypeOK, Forget
    <3>3. SeenGone'
      BY <1>1, <3>2 DEF SeenGone, NothingSeen
    <3>4. NothingSeen \in [Kinds -> Observed \cup {"unseen"}]
      BY DEF NothingSeen
    <3>5. seen' \in [Deletables -> [Kinds -> Observed \cup {"unseen"}]]
      BY <1>1, <1>2, <3>1, <3>4 DEF CleanupTypeOK
    <3>6. /\ plan' \in [Deletables -> [Kinds -> Dispositions]]
          /\ stage' \in [Deletables -> [Kinds -> Stages]]
      <4>1. CASE UNCHANGED <<plan, stage>>
        BY <1>1, <4>1 DEF CleanupTypeOK
      <4>2. CASE Forget(n)
        <5>1. /\ [r \in Kinds |-> "unlisted"] \in [Kinds -> Dispositions]
              /\ [r \in Kinds |-> "absent"] \in [Kinds -> Stages]
          BY DEF Dispositions, Stages
        <5>. QED  BY <1>1, <1>2, <4>2, <5>1 DEF CleanupTypeOK, Forget
      <4>. QED  BY <3>1, <4>1, <4>2
    <3>7. approved' \in [Deletables -> BOOLEAN]
      BY <1>1, <1>2, <3>1 DEF CleanupTypeOK
    <3>. QED  BY <3>3, <3>5, <3>6, <3>7 DEF CleanupTypeOK
  <2>4. CASE Resuming(n)
    BY <1>1, <1>2, <2>4 DEF Resuming, Resume, CleanupTypeOK, SeenGone
  <2>. QED  BY <2>1, <2>2, <2>3, <2>4 DEF Reclaiming, Replacing, Looking
<1>4. CASE UNCHANGED hubVars
  <2>1. TypeOK'
    BY <1>1, <1>3, <1>4 DEF TypeOK, hubVars
  <2>. QED  BY <1>3, <1>4, <2>1
            DEF IInv, Faithful, FaithfulTo, SpentOnce, UnderWay,
                RunningAsApproved, HubHolds, OneActive, Registers, Activating,
                Effect, hubVars
<1>5. CASE CleanupOver(n)
  <2>1. /\ state' = [state EXCEPT ![n] = "absent"]
        /\ generation' = [generation EXCEPT ![n] = 0]
        /\ UNCHANGED <<given, session, sessions, clock, approvals, spent,
                       begun, running, left>>
    BY <1>5 DEF CleanupOver
  <2>2. TypeOK'
    BY <1>1, <1>3, <2>1 DEF TypeOK, States
  <2>3. running[n] = Idle
    BY <1>2 DEF IInv, UnderWay
  <2>4. /\ state'[n] = "absent"
        /\ \A m \in Names \ {n} :
              state'[m] = state[m] /\ generation'[m] = generation[m]
    BY <1>1, <2>1 DEF TypeOK
  <2>5. UnderWay' /\ RunningAsApproved'
    BY <2>1, <2>3, <2>4 DEF IInv, UnderWay, RunningAsApproved
  <2>6. Faithful' /\ SpentOnce' /\ Activating' = Activating
    BY <2>1 DEF IInv, Faithful, FaithfulTo, SpentOnce, Activating, Effect
  <2>7. OneActive' /\ HubHolds'
    BY <1>1, <1>2, <2>1, <2>4, <2>6 DEF IInv, OneActive, HubHolds
  <2>8. Registers'
    BY <1>1, <1>2, <2>1, <2>4 DEF IInv, Registers
  <2>. QED  BY <1>3, <2>2, <2>5, <2>6, <2>7, <2>8 DEF IInv
<1>. QED  BY <1>4, <1>5
          DEF Reclaiming, Replacing, Looking, Judging, LookingAgain, Halting,
              Resuming
-----------------------------------------------------------------------------
THEOREM NextIInv == IInv /\ [Next]_vars => IInv'
<1>. SUFFICES ASSUME IInv, [Next]_vars PROVE IInv'
  OBVIOUS
<1>1. CASE Next
  BY <1>1, ApproveKeeps, ReceiveKeeps, PerformKeeps, InterruptKeeps,
     PersonKeeps, CleanupKeeps DEF Next
<1>2. CASE UNCHANGED vars
  <2>1. TypeOK'
    BY <1>2 DEF IInv, TypeOK, CleanupTypeOK, vars, hubVars, cleanupVars
  <2>2. Faithful' /\ SpentOnce' /\ UnderWay' /\ RunningAsApproved'
    BY <1>2 DEF IInv, Faithful, FaithfulTo, SpentOnce, UnderWay,
                RunningAsApproved, vars, hubVars
  <2>3. HubHolds' /\ OneActive' /\ SeenGone' /\ Registers'
    BY <1>2 DEF IInv, HubHolds, OneActive, SeenGone, Registers, Activating,
                Effect, vars, hubVars, cleanupVars
  <2>. QED  BY <2>1, <2>2, <2>3 DEF IInv
<1>. QED  BY <1>1, <1>2

(* The invariant holds in every state of every behaviour. *)
THEOREM InvariantHolds == Spec => []IInv
BY InitIInv, NextIInv, PTL DEF Spec

(* All variables have their types, for any instance. *)
THEOREM TypesHold == Spec => []TypeOK
<1>1. IInv => TypeOK
  BY DEF IInv
<1>. QED  BY <1>1, InvariantHolds, PTL

(* One approval, at most one operation: what assess_executor_request asks  *)
(* of the nonce is enough, wherever the executor stops.                    *)
THEOREM AtMostOnceHolds == Spec => []AtMostOnce
<1>1. IInv => AtMostOnce
  BY DEF IInv, SpentOnce, AtMostOnce
<1>. QED  BY <1>1, InvariantHolds, PTL

(* Only what was approved is carried out, on the generation approved. *)
THEOREM RunningAsApprovedHolds == Spec => []RunningAsApproved
<1>1. IInv => RunningAsApproved
  BY DEF IInv
<1>. QED  BY <1>1, InvariantHolds, PTL

(* The session an approval is bound to is enough to keep the Environments  *)
(* from being open together.                                               *)
THEOREM OneActiveHolds == Spec => []OneActive
<1>1. IInv => OneActive
  BY DEF IInv
<1>. QED  BY <1>1, InvariantHolds, PTL

(* What a button offers can be planned, except for a name that is taken    *)
(* and for a creation or restore cut short before it was registered: the   *)
(* states the Hub shows tell, in all other cases, whether there is a       *)
(* registration.                                                           *)
THEOREM OffersPlannableHolds == Spec => []OffersPlannable
<1>1. IInv => OffersPlannable
  <2>. SUFFICES ASSUME IInv, NEW n \in Names, NEW b \in Buttons(n)
                PROVE  \/ Plannable(b.kind, generation[n])
                       \/ b.kind \in Makers /\ generation[n] # 0
                       \/ /\ b.kind = "recover_complete" /\ generation[n] = 0
                          /\ state[n] = "incomplete" /\ left[n] \in Makers
    BY DEF OffersPlannable
  <2>1. PICK unknown, system :
          b \in Offered(View(unknown, system), Templates, n)
    BY DEF Buttons
  <2>. DEFINE view == View(unknown, system)
              ready == SystemReady(view)
  <2>2. view.card[n] \in {"unconfirmed", state[n]}
    BY DEF View
  <2>3. \/ b \in EnvironmentActions(ready, view, n)
        \/ b \in GlobalActions(ready)
        \/ \E t \in Templates : b \in TemplateActions(ready, t)
    BY <2>1 DEF Offered
  <2>. HIDE DEF view, ready
  <2>4. CASE b \in EnvironmentActions(ready, view, n)
    <3>1. \/ state[n] = "incomplete" /\ b.kind = "recover_complete"
          \/ /\ state[n] = "inactive"
             /\ b.kind \in {"activate", "snapshot", "archive", "destroy"}
      BY <2>2, <2>4 DEF EnvironmentActions, Action
    <3>. QED  BY <3>1 DEF IInv, Registers, Plannable, Makers
  <2>5. CASE \/ b \in GlobalActions(ready)
             \/ \E t \in Templates : b \in TemplateActions(ready, t)
    <3>1. b.kind \in Makers
      BY <2>5 DEF GlobalActions, TemplateActions, Action, Makers
    <3>. QED  BY <3>1 DEF Plannable
  <2>. QED  BY <2>3, <2>4, <2>5
<1>. QED  BY <1>1, InvariantHolds, PTL

(* The request for an approved offer is authorized, as long as nothing has *)
(* changed: the table of apx_hub.py agrees with APPROVAL_BY_OPERATION.     *)
THEOREM OffersHonouredHolds == Spec => []OffersHonoured
<1>1. IInv => OffersHonoured
  <2>. SUFFICES ASSUME IInv, NEW k \in DOMAIN approvals,
                       begun[k] = 0, session = approvals[k].session,
                       approvals[k].expires - approvals[k].issued <= MaxLifetime,
                       approvals[k].notBefore <= clock,
                       clock <= approvals[k].expires,
                       generation[approvals[k].name] = approvals[k].generation,
                       ConfirmedCompatible(approvals[k].kind,
                                           approvals[k].name)
                PROVE  Authorized(Honest(k), approvals[k].digest, approvals[k],
                                  Now(approvals[k].kind, approvals[k].name, k))
    BY DEF OffersHonoured
  <2>. DEFINE a == approvals[k]
  <2>1. a \in Approvals /\ FaithfulTo(k, a) /\ k \notin spent
    BY DEF IInv, TypeOK, Faithful, SpentOnce
  <2>2. /\ a.kind \in OperationKinds /\ a.name \in Names
        /\ a.generation \in Nat /\ a.expires \in Nat
    BY <2>1 DEF Approvals
  <2>3. a.digest = Plan(a.kind, a.name, a.generation)
    BY <2>1 DEF FaithfulTo
  <2>. HIDE DEF a
  <2>4. Supported(a.digest)
    BY <2>1, <2>2, <2>3 DEF Supported, Plan, FaithfulTo
  <2>5. LET h == Request(k, a.digest, a.expires, k)
        IN  /\ ValidRequest(h) /\ Matches(h, a.digest)
            /\ Bound(a, h, a.digest) /\ h.generation = a.generation
            /\ h.nonce = k /\ h.expires = a.expires
    BY <2>1, <2>2, <2>3
       DEF ValidRequest, Matches, Bound, Request, Plan, FaithfulTo
  <2>6. a.issued <= a.notBefore /\ a.notBefore <= a.expires
    BY <2>1 DEF FaithfulTo
  <2>7. InWindow(a, clock)
    BY <2>6 DEF a, InWindow
  <2>8. LET now == Now(a.kind, a.name, k)
        IN  /\ now.time = clock /\ now.session = session /\ now.authentic
            /\ now.unused /\ now.confirmed
            /\ now.generation = a.generation
    BY <2>1 DEF Now, a
  <2>9. Current(Request(k, a.digest, a.expires, k), Now(a.kind, a.name, k))
    BY <2>5, <2>8 DEF Current, a
  <2>10. InSession(a, Now(a.kind, a.name, k))
    BY <2>8 DEF InSession, a
  <2>11. InWindow(a, Now(a.kind, a.name, k).time)
    BY <2>7, <2>8
  <2>. QED  BY <2>4, <2>5, <2>9, <2>10, <2>11 DEF Authorized, Honest, a
<1>. QED  BY <1>1, InvariantHolds, PTL

(* No operation begins outside the session or after the time of its        *)
(* approval, however late, often or out of order requests come.            *)
THEOREM BegunInTimeHolds == Spec => BegunInTime
<1>. DEFINE Step == \A k \in DOMAIN approvals : begun'[k] # begun[k] =>
              /\ session = approvals[k].session
              /\ clock <= approvals[k].issued + MaxLifetime
<1>1. IInv /\ [Next]_vars => [Step]_vars
  <2>. SUFFICES ASSUME IInv, Next, NEW k \in DOMAIN approvals,
                       begun'[k] # begun[k]
                PROVE  /\ session = approvals[k].session
                       /\ clock <= approvals[k].issued + MaxLifetime
    OBVIOUS
  <2>1. CASE \E n \in Names : Approve(n)
    <3>1. PICK n \in Names : Approve(n)
      BY <2>1
    <3>2. begun' = Append(begun, 0)
      BY <3>1 DEF Approve
    <3>3. begun \in Seq(Nat) /\ DOMAIN begun = DOMAIN approvals
      <4>1. approvals \in Seq(Approvals) /\ begun \in [DOMAIN approvals -> Nat]
        BY DEF IInv, TypeOK
      <4>2. DOMAIN approvals = 1..Len(approvals) /\ Len(approvals) \in Nat
        BY <4>1
      <4>. QED  BY <4>1, <4>2
    <3>. QED  BY <3>2, <3>3
  <2>2. CASE \E n \in Names : Receive(n)
    <3>1. PICK n \in Names, j \in DOMAIN approvals :
            \E request \in Requests(j) :
               /\ request.name = n
               /\ Authorized(request, request.digest, approvals[j],
                             Now(request.kind, n, request.nonce))
               /\ begun' = [begun EXCEPT ![j] = @ + 1]
      BY <2>2 DEF Receive
    <3>2. begun' = [begun EXCEPT ![j] = @ + 1]
      BY <3>1
    <3>3. j = k
      BY <3>2 DEF IInv, TypeOK
    <3>. QED  BY <3>1, <3>3, AuthorizedMeans
  <2>3. CASE UNCHANGED begun
    BY <2>3
  <2>. QED  BY <2>1, <2>2, <2>3
            DEF Next, Perform, Interrupt, Close, Revise, Reclaiming, Replacing,
                Looking, Judging, LookingAgain, Halting, Resuming,
                CleanupOver, OpenHub, Unlock, Tick, hubVars
<1>. QED  BY <1>1, InvariantHolds, PTL DEF Spec, BegunInTime

(* A name is free again only when all that was to be deleted is gone,      *)
(* whatever was looked at when.                                            *)
THEOREM NothingRemainsHolds == Spec => NothingRemains
<1>. DEFINE Step == \A n \in Deletables :
              state[n] = "cleaning" /\ state'[n] # "cleaning" =>
                 \A r \in ToDelete(plan[n]) : stage[n][r] \in Gone
<1>1. IInv /\ [Next]_vars => [Step]_vars
  <2>. SUFFICES ASSUME IInv, Next, NEW n \in Deletables,
                       state[n] = "cleaning", state'[n] # "cleaning",
                       NEW r \in ToDelete(plan[n])
                PROVE  stage[n][r] \in Gone
    OBVIOUS
  <2>. USE RequestsAssumption, HubAssumption
  <2>1. /\ n \in Names /\ n # Hub /\ Hub \in Names
        /\ state \in [Names -> States] /\ running[n] = Idle
    BY DEF IInv, TypeOK, UnderWay
  <2>2. CASE CleanupOver(n)
    <3>1. AllSeen(n) /\ Verdict(n, TRUE, TRUE) = "complete"
      BY <2>2 DEF CleanupOver, Complete
    <3>2. Pending(plan[n], seen[n]) = {}
      BY <3>1 DEF Verdict, AssessCleanup
    <3>3. r \in Kinds /\ seen[n][r] = "absent"
      BY <3>2 DEF Pending, ToDelete
    <3>. QED  BY <3>3 DEF IInv, SeenGone
  <2>3. ASSUME NEW m \in Names, m # n,
               Perform(m) \/ Interrupt(m) \/ Close(m) \/ CleanupOver(m)
        PROVE  state'[n] = state[n]
    <3>1. CASE Perform(m) \/ Interrupt(m)
      BY <2>1, <2>3, <3>1 DEF Perform, Make, Open, Copy, Delete, Interrupt
    <3>2. CASE Close(m) \/ CleanupOver(m)
      BY <2>1, <2>3, <3>2 DEF Close, CleanupOver
    <3>. QED  BY <2>3, <3>1, <3>2
  <2>4. ~Perform(n) /\ ~Interrupt(n) /\ ~Close(n)
    BY <2>1 DEF Perform, Interrupt, Close
  <2>5. OpenHub => state'[n] = state[n]
    BY <2>1 DEF OpenHub
  <2>. QED  BY <2>2, <2>3, <2>4, <2>5
            DEF Next, Approve, Receive, Revise, Reclaiming, Replacing,
                Looking, Judging, LookingAgain, Halting, Resuming, Unlock,
                Tick, hubVars
<1>. QED  BY <1>1, InvariantHolds, PTL DEF Spec, NothingRemains
=============================================================================
