---------------------------- MODULE StepJournals ----------------------------
(***************************************************************************)
(* One operation that keeps a step journal - a clean installation, a       *)
(* physical update, an H0 experiment, a release promotion or an external   *)
(* model attachment - with the fixture store of its journal and processes  *)
(* that drive it.                                                          *)
(*                                                                         *)
(* The five stores are the same object: one record per operation in the    *)
(* memory of one process, which publish_new sets and compare_and_swap      *)
(* replaces.  Digests and sequence numbers are left out.  A record a       *)
(* process holds is one the store had, and every step changes a field that *)
(* never changes back, so comparing records compares digests.              *)
(*                                                                         *)
(* The process that drives an operation is outside the repository.  As the *)
(* documents ask, it starts an effect only when its own compare_and_swap   *)
(* prepared it, and records the success only of an effect it has performed *)
(* itself.                                                                 *)
(***************************************************************************)
EXTENDS Naturals, Sequences

CONSTANTS
    Drivers,    \* processes that drive the operation
    NoRecord    \* no record in the store, none held

VARIABLES
    shared,     \* the journal is in a store, or its one caller just keeps it
    stored,     \* the record in the store, or the last the caller derived
    held,       \* the record each driver has read or written last
    turn,       \* each driver's part in the prepared effect
    started,    \* effects started against the host, oldest first
    catalogue   \* the promotion record whose release is in the catalogue

vars == <<shared, stored, held, turn, started, catalogue>>

Install == INSTANCE CleanInstallJournal
Update == INSTANCE PhysicalUpdateJournal
H0 == INSTANCE H0Journal
Promotion == INSTANCE PromotionJournal
Attachment == INSTANCE AttachmentJournal

Records ==
    {r \in Install!Record : Install!Valid(r)}
      \cup {r \in Update!Record : Update!Valid(r)}
      \cup {r \in H0!Record : H0!Valid(r)}
      \cup {r \in Promotion!Record : Promotion!Valid(r)}
      \cup {r \in Attachment!Record : Attachment!Valid(r)}

NewRecords ==
    {Install!New, Update!New, H0!New, Promotion!New, Attachment!New}

Steps(r) ==
    CASE r.kind = "install" -> Install!Steps(r)
      [] r.kind = "update" -> Update!Steps(r)
      [] r.kind = "h0" -> H0!Steps(r)
      [] r.kind = "promotion" -> Promotion!Steps(r)
      [] r.kind = "attachment" -> Attachment!Steps(r)

EffectCount(r) ==
    CASE r.kind = "install" -> Install!EffectCount
      [] r.kind = "update" -> Update!EffectCount
      [] r.kind = "h0" -> H0!EffectCount
      [] r.kind = "promotion" -> Promotion!EffectCount
      [] r.kind = "attachment" -> Attachment!EffectCount

(* What a compare_and_swap asks of the step besides the chain *)
Accepts(r, next) ==
    r.kind = "install" => Install!ExactTransition(r, next)

Class(r) ==
    CASE r.kind = "install" -> Install!Class(r)
      [] r.kind = "update" -> Update!Class(r)
      [] r.kind = "h0" -> H0!Class(r)
      [] r.kind = "promotion" -> Promotion!Class(r)
      [] r.kind = "attachment" -> Attachment!Class(r)

ContinuationAllowed(r) ==
    \/ r.kind = "install" /\ Install!ContinuationAllowed(r)
    \/ r.kind = "update" /\ Update!ContinuationAllowed(r)
    \/ r.kind = "promotion" /\ Promotion!ContinuationAllowed(r)
    \/ r.kind = "attachment" /\ Attachment!ContinuationAllowed(r)

Approved(r, k) ==
    /\ r.kind = "install" => Install!Approved(r, k)
    /\ r.kind = "update" => Update!Approved(r, k)
    /\ r.kind = "promotion" => Promotion!Approved(r, k)
    /\ r.kind = "attachment" => Attachment!Approved(r, k)

ASSUME NoRecordAssumption == NoRecord \notin Records

Init ==
    /\ shared \in BOOLEAN
    /\ stored = NoRecord
    /\ held = [d \in Drivers |-> NoRecord]
    /\ turn = [d \in Drivers |-> "none"]
    /\ started = <<>>
    /\ catalogue = NoRecord
-----------------------------------------------------------------------------
Hold(d, r, part) ==
    /\ held' = [held EXCEPT ![d] = r]
    /\ turn' = [turn EXCEPT ![d] = part]

PublishNew(d) ==
    /\ stored = NoRecord
    /\ \E r \in NewRecords : stored' = r /\ Hold(d, r, "none")
    /\ UNCHANGED <<shared, started, catalogue>>

(* A caller that keeps its record has no store another one could read *)
Read(d) ==
    /\ shared /\ stored # NoRecord
    /\ Hold(d, stored, "none")
    /\ UNCHANGED <<shared, stored, started, catalogue>>

(* mutant of Swap: the record held may be an old one *)
SwapStale(d) ==
    /\ held[d] # NoRecord
    /\ \E next \in Steps(held[d]) :
          /\ next.completed > held[d].completed => turn[d] = "performed"
          /\ shared => Accepts(held[d], next)
          /\ stored' = next
          /\ Hold(d, next, IF next.prepared /\ ~held[d].prepared
                           THEN "prepared" ELSE "none")
    /\ UNCHANGED <<shared, started, catalogue>>

(* compare_and_swap with a step derived from the record held.  The store   *)
(* derives what it accepts from its own record, which is the same one.     *)
Swap(d) ==
    /\ held[d] # NoRecord /\ stored = held[d]
    /\ \E next \in Steps(held[d]) :
          /\ next.completed > held[d].completed => turn[d] = "performed"
          /\ shared => Accepts(held[d], next)
          /\ stored' = next
          /\ Hold(d, next, IF next.prepared /\ ~held[d].prepared
                           THEN "prepared" ELSE "none")
    /\ UNCHANGED <<shared, started, catalogue>>

(* The effect outside the journal that the driver itself has prepared *)
StartEffect(d) ==
    /\ turn[d] = "prepared"
    /\ started' = Append(started, held[d].completed + 1)
    /\ turn' = [turn EXCEPT ![d] = "performed"]
    /\ UNCHANGED <<shared, stored, held, catalogue>>

(* mutant of PublishCatalogue: any promotion past verification will do *)
PublishVerified(d) ==
    /\ shared /\ catalogue = NoRecord
    /\ held[d] # NoRecord /\ stored = held[d]
    /\ held[d].kind = "promotion"
    /\ held[d].completed >= Promotion!VerificationStepCount
    /\ catalogue' = held[d]
    /\ UNCHANGED <<shared, stored, held, turn, started>>

(* publish_catalogue of the release built from the record held *)
PublishCatalogue(d) ==
    /\ shared /\ catalogue = NoRecord
    /\ held[d] # NoRecord /\ stored = held[d]
    /\ held[d].kind = "promotion" /\ Promotion!Releasable(held[d])
    /\ catalogue' = held[d]
    /\ UNCHANGED <<shared, stored, held, turn, started>>

(* The driver dies, or gives up when the store refuses its step *)
Abandon(d) ==
    /\ held[d] # NoRecord
    /\ Hold(d, NoRecord, "none")
    /\ UNCHANGED <<shared, stored, started, catalogue>>

Next == \E d \in Drivers :
            \/ PublishNew(d) \/ Read(d) \/ Swap(d) \/ StartEffect(d)
            \/ PublishCatalogue(d) \/ Abandon(d)

Spec == Init /\ [][Next]_vars
-----------------------------------------------------------------------------
(* All variables have their types.  In particular every record a           *)
(* transition derives is one that its validation accepts, so none of the   *)
(* calls of it in _next ever raises.                                       *)
TypeOK ==
    /\ shared \in BOOLEAN
    /\ stored \in Records \cup {NoRecord}
    /\ held \in [Drivers -> Records \cup {NoRecord}]
    /\ turn \in [Drivers -> {"none", "prepared", "performed"}]
    /\ started \in Seq(Nat)
    /\ catalogue \in Records \cup {NoRecord}

(* Over all drivers, whatever they read, lose or repeat, an effect is      *)
(* started at most once and the effects start in the order of the plan.    *)
EffectsInOrder == \A k \in DOMAIN started : started[k] = k

(* The journal is true of the host: every effect it counts as completed    *)
(* was performed, and only the one it says is prepared may be performed    *)
(* without being counted.                                                  *)
JournalTrue ==
    IF stored = NoRecord THEN started = <<>>
    ELSE Len(started) \in
            stored.completed..(stored.completed + IF stored.prepared THEN 1 ELSE 0)

(* "Approval never flows implicitly to the next stage": every effect ever  *)
(* started had the approval that its stage or boundary asks for.           *)
EffectsApproved == \A k \in DOMAIN started : Approved(stored, k)

(* How many effects may have been started, by what the explanation of the  *)
(* recovery class says; a class that is not listed promises nothing.       *)
Promised(r) ==
    LET class == Class(r)
    IN  IF class \in {"complete", "complete-with-rollback-retained",
                      "complete-headless-restored", "complete-detached"}
        THEN {EffectCount(r)}
        ELSE IF class \in {"no-effect", "no-effect-recorded"} THEN {0}
        ELSE IF class = "restart-read-only-foundation" THEN 1..6
        ELSE IF class = "preserve-private-staging" THEN 1..3
        ELSE IF class = "verified-awaiting-new-activation-approval" THEN {4}
        ELSE IF class = "partial-lease-preparation" THEN 1..5
        ELSE IF class = "preserve-partial-import" THEN 1..3
        ELSE IF class = "preserve-quarantine-review" THEN 4..7
        ELSE IF class \in {"attached-stopped", "active-requires-normal-stop"}
        THEN {6}
        ELSE 0..EffectCount(r)

(* What the recovery assessment of the stored record says is true of the   *)
(* effects that were started: it allows to continue only when the outcome  *)
(* of every one is recorded, and does without the recovery VT only when    *)
(* the graphical experiment has not begun or is over.                      *)
RecoveryTrue ==
    stored # NoRecord =>
        /\ Len(started) \in Promised(stored)
        /\ ContinuationAllowed(stored) => Len(started) = stored.completed
        /\ stored.kind = "h0" /\ ~H0!RecoveryVtRequired(stored) =>
               Len(started) \in {0, H0!EffectCount}

(* A release in the catalogue is the outcome of a promotion whose ten      *)
(* steps were all performed, with a separate admission approval, and the   *)
(* promotion has not changed since.                                        *)
CatalogueAdmitted ==
    catalogue # NoRecord =>
        /\ stored = catalogue
        /\ Len(started) = Promotion!EffectCount
        /\ catalogue.approved

(* docs/clean-install-foundation-v1.md asks for a state machine of all ten *)
(* stages, and the store calls itself an exact-transition store: it takes  *)
(* every step the transitions allow from the record it has.                *)
StepsAccepted ==
    shared /\ stored # NoRecord =>
        \A next \in Steps(stored) : Accepts(stored, next)
-----------------------------------------------------------------------------
(* The operation as the journal records it, of whatever kind               *)
Outcome(r) ==
    IF r.status \in {"complete", "installed-rollback-retained",
                     "headless-restored", "admitted", "detached"}
    THEN "complete"
    ELSE IF r.status \in {"incomplete", "preserved-uncertain"}
    THEN "given-up" ELSE "open"

Granted(r) == {k \in 1..EffectCount(r) : Approved(r, k)}

Effects ==
    INSTANCE StagedEffects
    WITH Kinds <- {"install", "update", "h0", "promotion", "attachment"},
         NoKind <- "none",
         EffectsOf <- [install |-> Install!EffectCount,
                       update |-> Update!EffectCount,
                       h0 |-> H0!EffectCount,
                       promotion |-> Promotion!EffectCount,
                       attachment |-> Attachment!EffectCount],
         Released <- "promotion",
         kind <- IF stored = NoRecord THEN "none" ELSE stored.kind,
         granted <- IF stored = NoRecord THEN {} ELSE Granted(stored),
         prepared <- stored # NoRecord /\ stored.prepared,
         begun <- Len(started),
         recorded <- IF stored = NoRecord THEN 0 ELSE stored.completed,
         outcome <- IF stored = NoRecord THEN "open" ELSE Outcome(stored),
         listed <- catalogue # NoRecord

(* Whatever its drivers read, lose, repeat or give up, and whichever of    *)
(* the five kinds the operation is, its effects are approved, prepared,    *)
(* begun and recorded one by one, and an operation that has ended stays    *)
(* as it is.                                                               *)
ImplementsStagedEffects == Effects!Spec
=============================================================================
