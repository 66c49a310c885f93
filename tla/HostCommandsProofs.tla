------------------------- MODULE HostCommandsProofs -------------------------
(***************************************************************************)
(* Type correctness of the host commands, that what they report of an      *)
(* Environment has been true of it, and that its creation and removal      *)
(* implement TracedEnvironment, for any number of names and storage        *)
(* identities.                                                             *)
(***************************************************************************)
EXTENDS HostCommands, TLAPS

(* What holds of a name at every step of creation, rollback and removal    *)
LifeOf(n) ==
    /\ n \notin Managed => /\ n \notin account \cup marker
                           /\ op[n] = "none" /\ home[n] = NoHome
    /\ home[n] # NoHome => home[n].uuid # NoUuid
    /\ op[n] = "remove" => n \notin account
    /\ activity[n] # "none" => n \in account \cap touched
    /\ op[n] \in {"create", "rollback"} => n \in marker
    /\ op[n] = "none" => n \notin marker
    /\ n \in Managed /\ op[n] = "none" =>
           \/ Free(n)
           \/ n \in account /\ home[n] # NoHome /\ record[n] # Absent
    /\ op[n] = "create" => IF n \in account THEN home[n] # NoHome
                           ELSE ~home[n].owned
    /\ n \in Managed /\ op[n] # "remove" /\ record[n] # Absent =>
           /\ n \in account /\ home[n] # NoHome
           /\ record[n] = Valid(home[n].uuid)
           /\ op[n] \in {"none", "create"}

LifeInv == LifeTypeOK /\ \A n \in Names : LifeOf(n)

LEMMA LifeInitOk == LifeInit => LifeInv
  BY UuidAssumption
     DEF LifeInit, LifeInv, LifeTypeOK, LifeOf, Operations, Activities, Homes,
         NoHome, Records, Absent, Other, OtherKinds, Names, Free

LEMMA HomeTypes ==
    /\ NoHome \in Homes /\ Absent \in Records
    /\ \A u \in Uuids : Valid(u) \in Records /\ Valid(u) # Absent
    /\ \A u, v : Valid(u) = Valid(v) <=> u = v
  BY DEF NoHome, Homes, Absent, Other, OtherKinds, Records, Valid

(* The names a step is not about stay as they are. *)
Kept(m) ==
    /\ op'[m] = op[m] /\ home'[m] = home[m] /\ record'[m] = record[m]
    /\ activity'[m] = activity[m]
    /\ m \in account' <=> m \in account
    /\ m \in marker' <=> m \in marker
    /\ m \in touched' <=> m \in touched

LEMMA LifeFrame ==
    ASSUME LifeInv, NEW n \in Names, Creation(n) \/ Removal(n) \/ People(n)
    PROVE  LifeTypeOK' /\ \A m \in Names \ {n} : Kept(m)
<1>0. LifeTypeOK /\ LifeOf(n)
  BY DEF LifeInv
<1> USE <1>0, HomeTypes DEF LifeTypeOK, Kept
<1>1. CASE Reserve(n)
  BY <1>1 DEF Reserve, Operations
<1>2. CASE CreateSubvolume(n)
  <2>1. PICK u \in Uuids \ spent :
            /\ home' = [home EXCEPT ![n].uuid = u]
            /\ spent' = spent \cup {u}
    BY <1>2 DEF CreateSubvolume
  <2>. QED  BY <1>2, <2>1 DEF CreateSubvolume, Homes
<1>3. CASE CreateAccount(n)
  BY <1>3 DEF CreateAccount, Creating
<1>4. CASE SetHomeOwnership(n)
  BY <1>4 DEF SetHomeOwnership, Creating, Homes
<1>5. CASE SetHomePermissions(n)
  BY <1>5 DEF SetHomePermissions, Creating, Homes
<1>6. CASE WriteRegistration(n)
  <2>1. home[n].uuid \in Uuids
    BY <1>6 DEF WriteRegistration, Canonical, LifeOf, Homes, NoHome
  <2>. QED  BY <1>6, <2>1 DEF WriteRegistration
<1>7. CASE CompleteOperation(n)
  BY <1>7 DEF CompleteOperation, Creating, Operations
<1>8. CASE BeginRollback(n)
  BY <1>8 DEF BeginRollback, Undo, Operations
<1>9. CASE RollbackAccount(n)
  BY <1>9 DEF RollbackAccount, Undo
<1>10. CASE RollbackHome(n)
  BY <1>10 DEF RollbackHome, Undo
<1>11. CASE RollbackMarker(n)
  BY <1>11 DEF RollbackMarker, Undo, Operations
<1>12. CASE RemoveAccount(n)
  BY <1>12 DEF RemoveAccount, Operations
<1>13. CASE RemoveHome(n)
  BY <1>13 DEF RemoveHome
<1>14. CASE RemoveMetadata(n)
  BY <1>14 DEF RemoveMetadata
<1>15. CASE VerifyAbsence(n)
  BY <1>15 DEF VerifyAbsence, Operations
<1>16. CASE Login(n)
  BY <1>16 DEF Login, Activities
<1>17. CASE Logout(n)
  BY <1>17 DEF Logout, Activities
<1>18. CASE Exit(n)
  BY <1>18 DEF Exit, Activities
<1>19. CASE Tamper(n)
  <2>1. PICK h \in Homes : home' = [home EXCEPT ![n] = h]
    BY <1>19 DEF Tamper, Homes
  <2>. QED  BY <1>19, <2>1 DEF Tamper
<1>20. CASE Scribble(n)
  BY <1>20 DEF Scribble
<1>. QED  BY <1>1, <1>2, <1>3, <1>4, <1>5, <1>6, <1>7, <1>8, <1>9, <1>10, <1>11, <1>12, <1>13, <1>14, <1>15, <1>16, <1>17, <1>18, <1>19, <1>20
          DEF Creation, Removal, People

LEMMA LifeStepOf ==
    ASSUME LifeInv, LifeTypeOK', NEW n \in Names,
           Creation(n) \/ Removal(n) \/ People(n)
    PROVE  LifeOf(n)'
<1> USE HomeTypes DEF LifeInv, LifeTypeOK, LifeOf
<1>1. CASE Reserve(n)
  BY <1>1 DEF Reserve, Free, NoHome
<1>2. CASE CreateSubvolume(n)
  <2>1. PICK u \in Uuids \ spent :
            home' = [home EXCEPT ![n].uuid = u]
    BY <1>2 DEF CreateSubvolume
  <2>. QED  BY <1>2, <2>1, UuidAssumption DEF CreateSubvolume, Creating, Homes, NoHome
<1>3. CASE CreateAccount(n)
  BY <1>3 DEF CreateAccount, Creating, Free
<1>4. CASE SetHomeOwnership(n)
  <2>1. home'[n] = [home[n] EXCEPT !.owned = TRUE]
    BY <1>4 DEF SetHomeOwnership
  <2>2. home'[n] # NoHome /\ home'[n].uuid = home[n].uuid
    BY <1>4, <2>1 DEF SetHomeOwnership, Homes, NoHome
  <2>3. /\ n \in Managed /\ op[n] = "create" /\ n \in account
        /\ UNCHANGED <<op, marker, account, record, activity, touched>>
    BY <1>4 DEF SetHomeOwnership, Creating
  <2>4. home[n] # NoHome
    BY <1>4, <2>3
  <2>. QED  BY <2>2, <2>3, <2>4
<1>5. CASE SetHomePermissions(n)
  BY <1>5 DEF SetHomePermissions, Creating, Free, Homes, NoHome
<1>6. CASE WriteRegistration(n)
  BY <1>6 DEF WriteRegistration, Creating, Free, Canonical, NoHome, Homes
<1>7. CASE CompleteOperation(n)
  BY <1>7 DEF CompleteOperation, Creating, Free, Whole, NoHome, Homes
<1>8. CASE BeginRollback(n)
  BY <1>8 DEF BeginRollback, Undo, Free, ClassifyRollback
<1>9. CASE RollbackAccount(n)
  BY <1>9 DEF RollbackAccount, Undo, Free, ClassifyRollback
<1>10. CASE RollbackHome(n)
  BY <1>10 DEF RollbackHome, Undo, Free, ClassifyRollback
<1>11. CASE RollbackMarker(n)
  BY <1>11 DEF RollbackMarker, Undo, Free, ClassifyRollback
<1>12. CASE RemoveAccount(n)
  BY <1>12 DEF RemoveAccount, Free
<1>13. CASE RemoveHome(n)
  BY <1>13 DEF RemoveHome, Free
<1>14. CASE RemoveMetadata(n)
  BY <1>14 DEF RemoveMetadata, Free
<1>15. CASE VerifyAbsence(n)
  BY <1>15 DEF VerifyAbsence, Free
<1>16. CASE Login(n)
  BY <1>16 DEF Login, Free
<1>17. CASE Logout(n)
  BY <1>17 DEF Logout, Free
<1>18. CASE Exit(n)
  BY <1>18 DEF Exit, Free
<1>19. CASE Tamper(n)
  BY <1>19 DEF Tamper, Free, Homes, NoHome
<1>20. CASE Scribble(n)
  BY <1>20, NamesAssumption DEF Scribble, Free
<1>. QED  BY <1>1, <1>2, <1>3, <1>4, <1>5, <1>6, <1>7, <1>8, <1>9, <1>10, <1>11, <1>12, <1>13, <1>14, <1>15, <1>16, <1>17, <1>18, <1>19, <1>20
          DEF Creation, Removal, People

LEMMA LifeStepOk ==
    ASSUME LifeInv, LifeNext
    PROVE  LifeInv'
<1>1. PICK n \in Names : Creation(n) \/ Removal(n) \/ People(n)
  BY DEF LifeNext
<1>2. LifeTypeOK' /\ \A m \in Names \ {n} : Kept(m)
  BY <1>1, LifeFrame DEF LifeInv
<1>3. \A m \in Names \ {n} : LifeOf(m)'
  BY <1>2 DEF LifeInv, LifeOf, Kept, Free, NoHome, Absent, Valid, Other
<1>4. LifeOf(n)'
  BY <1>1, <1>2, LifeStepOf
<1>. QED  BY <1>2, <1>3, <1>4 DEF LifeInv
-----------------------------------------------------------------------------
(* What a step may do to the Environment of name m *)
LifeMove(m) ==
    /\ m \in Managed /\ op[m] # "remove" /\ record[m] # Absent =>
           record'[m] = record[m]
    /\ op[m] = "remove" => op'[m] = "remove" \/ Free(m)
    /\ op[m] = "remove" /\ record[m] = Absent => record'[m] = Absent
    /\ op[m] = "remove" /\ m \notin marker => m \notin marker'
    /\ op[m] \notin {"create", "rollback"} /\ op'[m] \in {"create", "rollback"} =>
           Free(m)
    /\ op[m] = "create" /\ record[m] # Absent => op'[m] # "rollback"
    /\ op[m] = "create" /\ op'[m] = "none" => Complete(m)'
    /\ m \notin account' /\ home'[m].owned /\ home'[m].private =>
           home[m].owned /\ home[m].private

LEMMA LifeMoves ==
    ASSUME LifeInv, LifeNext, NEW m \in Names
    PROVE  LifeMove(m)
<1>1. PICK n \in Names : Creation(n) \/ Removal(n) \/ People(n)
  BY DEF LifeNext
<1>2. LifeTypeOK /\ LifeTypeOK' /\ LifeOf(m) /\ LifeOf(m)'
  BY LifeStepOk DEF LifeInv
<1>3. CASE n # m
  <2>1. Kept(m)
    BY <1>1, <1>3, LifeFrame
  <2>. QED  BY <1>2, <2>1 DEF Kept, LifeMove
<1>4. CASE n = m
  <2> USE <1>2, <1>4 DEF LifeTypeOK, LifeMove
  <2>1. CASE Reserve(n)
    BY <2>1 DEF Reserve, LifeOf, Free
  <2>2. CASE CreateSubvolume(n)
    BY <2>2 DEF CreateSubvolume, Creating, Homes, LifeOf, NoHome
  <2>3. CASE CreateAccount(n)
    BY <2>3 DEF CreateAccount, Creating
  <2>4. CASE SetHomeOwnership(n)
    BY <2>4 DEF SetHomeOwnership, Creating, Homes, LifeOf, NoHome
  <2>5. CASE SetHomePermissions(n)
    BY <2>5 DEF SetHomePermissions, Creating, Homes, LifeOf, NoHome
  <2>6. CASE WriteRegistration(n)
    BY <2>6 DEF WriteRegistration, Creating
  <2>7. CASE CompleteOperation(n)
    BY <2>7 DEF CompleteOperation, Creating, Complete, Whole
  <2>8. CASE BeginRollback(n)
    BY <2>8 DEF BeginRollback, Undo, ClassifyRollback
  <2>9. CASE RollbackAccount(n)
    BY <2>9 DEF RollbackAccount, Undo, ClassifyRollback
  <2>10. CASE RollbackHome(n)
    BY <2>10 DEF RollbackHome, Undo, ClassifyRollback, NoHome
  <2>11. CASE RollbackMarker(n)
    BY <2>11 DEF RollbackMarker, Undo, ClassifyRollback
  <2>12. CASE RemoveAccount(n)
    BY <2>12 DEF RemoveAccount, LifeOf, Free
  <2>13. CASE RemoveHome(n)
    BY <2>13 DEF RemoveHome, NoHome
  <2>14. CASE RemoveMetadata(n)
    BY <2>14 DEF RemoveMetadata, LifeOf, Free
  <2>15. CASE VerifyAbsence(n)
    BY <2>15 DEF VerifyAbsence
  <2>16. CASE Login(n)
    BY <2>16 DEF Login
  <2>17. CASE Logout(n)
    BY <2>17 DEF Logout
  <2>18. CASE Exit(n)
    BY <2>18 DEF Exit
  <2>19. CASE Tamper(n)
    BY <2>19 DEF Tamper, Homes, LifeOf, NoHome, Free
  <2>20. CASE Scribble(n)
    BY <2>20, NamesAssumption DEF Scribble, LifeOf
  <2>. QED  BY <1>1, <2>1, <2>2, <2>3, <2>4, <2>5, <2>6, <2>7, <2>8, <2>9, <2>10, <2>11, <2>12, <2>13, <2>14, <2>15, <2>16, <2>17, <2>18, <2>19, <2>20
            DEF Creation, Removal, People
<1>. QED  BY <1>3, <1>4
-----------------------------------------------------------------------------
(* The facts a command has met include those that hold now. *)
Noted ==
    Running =>
        /\ command \in Commands \ {"none"}
        /\ command = "inspect" =>
               /\ Complete(name) => "complete" \in met
               /\ ~Complete(name) \/ Copied(name) => "broken" \in met
        /\ command = "removal-plan" =>
               /\ activity[name] = "none" => "idle" \in met
               /\ Canonical(name) => "canonical" \in met
        /\ command = "validate" => (activity[name] = "none" => "idle" \in met)
        /\ command = "list" => (~Complete(name) => "broken" \in met)
        /\ command \in Searches => (Free(name) => "free" \in met)

(* Between commands nothing is kept. *)
Quiet ==
    /\ pc # "done" => verdict = "none"
    /\ pc \in {"idle", "done"} =>
           evidence = {} /\ claim = Absent /\ doubt = "none"
    /\ pc \notin {"read", "relist", "marker"} \/ command # "inspect" =>
           listed = {}

Checked == pc \in {"list", "read", "relist", "marker"}

InspectInv ==
    command = "inspect" /\ Running =>
        /\ name \in Managed
        /\ op[name] = "remove" => "removal" \in met
        /\ pc = "registration" => evidence = {"confirmed"} /\ claim = Absent
        /\ Checked => claim.kind = "valid"
        /\ claim.kind = "valid" =>
               /\ record[name] = claim \/ {"removal", "broken"} \subseteq met
               /\ "not-satisfied" \in evidence => "broken" \in met
        /\ doubt = "duplicate" => "broken" \in met
        /\ Checked /\ evidence \subseteq {"confirmed"} =>
               met \cap {"complete", "removal"} # {} \/ op[name] = "create"

(* A file that was read and told nothing carries another storage identity, *)
(* unless it has been written since.                                       *)
ScanInv ==
    command = "inspect" =>
        /\ pc \in {"read", "relist"} => name \notin unread
        /\ pc = "relist" => unread = {} /\ doubt = "none"
        /\ pc \in {"read", "relist"} /\ doubt = "none" =>
               \A n \in listed \ (unread \cup {name}) :
                   record[n] = Valid(claim.uuid) => n \in rewritten

PlanInv ==
    /\ command = "removal-plan" /\ Running =>
        /\ ~known => "blocked" \in evidence
        /\ known /\ name \notin account /\ home[name].owned /\ home[name].private =>
               "canonical" \in met
        /\ pc \in {"contents", "processes"} /\ evidence \cap {"blocked", "unknown"} = {} =>
               "canonical" \in met
    /\ command = "validate" /\ Running =>
        /\ ~known => "idle" \in met
        /\ pc = "contents" /\ known => evidence \cap {"blocked", "unknown"} # {}

Unclean == {"blocked", "requires-host-confirmation", "unavailable"}

CheckInv ==
    command \in Searches /\ Running =>
        /\ name \in {Trial, Experiment}
        /\ ~authoritative => evidence \cap Unclean # {}
        /\ evidence \cap Unclean = {} /\ met \cap {"free", "removal"} = {} =>
               /\ pc \in {"marker", "home"} /\ op[name] = "remove" =>
                      record[name] = Absent
               /\ pc = "home" => /\ op[name] \notin {"create", "rollback"}
                                 /\ op[name] = "remove" => name \notin marker
               /\ pc # "tools"

VerdictsTrue == ConsistentWasComplete /\ IncompleteWasBroken /\ ReadyWasIdle /\ FreeWasFree

HostInv ==
    /\ HostTypeOK /\ LifeInv
    /\ Noted /\ Quiet
    /\ InspectInv /\ ScanInv /\ PlanInv /\ CheckInv
    /\ VerdictsTrue
-----------------------------------------------------------------------------
(* A command observes, reports, starts or ends. *)
LEMMA CommandStep ==
    ASSUME Command
    PROVE  \/ Running /\ UNCHANGED report
           \/ /\ pc = "idle" /\ Running'
              /\ command' \in Commands \ {"none"}
              /\ name' \in Names
           \/ pc = "done" /\ pc' = "idle"
<1> USE DEF Running, At, Observe, Report
<1>1. CASE Inspect
  <2>1. CASE \E n \in Names : StartInspect(n)
    BY <2>1 DEF StartInspect, Start, Commands
  <2>2. CASE ~\E n \in Names : StartInspect(n)
    BY <1>1, <2>2 DEF Inspect, InspectRegistration, InspectMount, InspectBtrfs, InspectUnregistered, InspectHome, ScanList, ScanRead, ScanConclude, ScanRelist, InspectMarker
  <2>. QED  BY <2>1, <2>2
<1>2. CASE RemovalPlan
  <2>1. CASE \E n \in Names : StartRemovalPlan(n)
    BY <2>1 DEF StartRemovalPlan, Start, Commands
  <2>2. CASE ~\E n \in Names : StartRemovalPlan(n)
    BY <1>2, <2>2 DEF RemovalPlan, PlanSessions, PlanRegistration, PlanHome, PlanNothing, PlanContents, PlanProcesses
  <2>. QED  BY <2>1, <2>2
<1>3. CASE HostCheck
  BY <1>3, TrialAssumption, ExperimentAssumption
     DEF HostCheck, StartHostCheck, StartDoctor, StartSearch, Start, Names,
         Commands, CheckRegistration, CheckMarker, CheckHome, DoctorHome,
         DoctorTools
<1>4. CASE End
  BY <1>4 DEF End
<1>5. CASE Validate
  BY <1>5 DEF Validate, StartValidate, Start, Commands, ValidateSessions,
              ValidateHome, ValidateProcesses, ValidateContents
<1>6. CASE PlanCreation
  BY <1>6 DEF PlanCreation, StartCreate, Start, Commands, CreateHome,
              CreateMount
<1>7. CASE Glance
  BY <1>7, ExperimentAssumption
     DEF Glance, StartList, ListHome, StartSnapshot, SnapshotTools, Start,
         Commands, Names
<1>. QED  BY <1>1, <1>2, <1>3, <1>4, <1>5, <1>6, <1>7 DEF Command

LEMMA NoteStep ==
    ASSUME HostNext, Noted
    PROVE  /\ Noted'
           /\ Running /\ Running' =>
                  /\ UNCHANGED report /\ met \subseteq met'
                  /\ Began(name) => "removal" \in met'
           /\ pc' = "done" => met' = met
           /\ pc' \in {"read", "relist"} =>
                  \A n \in listed : n \in rewritten \/ record'[n] # record[n] =>
                                        n \in rewritten'
<1>1. /\ Running /\ Running' => UNCHANGED report
      /\ ~Running /\ Running' =>
             command' \in Commands \ {"none"}
  BY CommandStep DEF HostNext, report, Running
<1>2. Note
  BY DEF HostNext
<1>3. /\ Running /\ Running' =>
             met' = met \cup (Holding' \cap Watched)
                        \cup {f \in {"removal"} : Began(name)}
      /\ ~Running /\ Running' => met' = Holding' \cap Watched'
      /\ pc' = "done" => met' = met
  BY <1>2 DEF Note, Running
<1>4. Running' => Holding' \cap Watched' \subseteq met'
  BY <1>1, <1>3 DEF report, Watched
<1>5. Running' => command' \in Commands \ {"none"}
  BY <1>1 DEF Noted, report
<1>6. Noted'
  BY <1>1, <1>4, <1>5 DEF Noted, Holding, Watched, Facts, Searches
<1>7. Running /\ Running' => /\ UNCHANGED report /\ met \subseteq met'
                             /\ Began(name) => "removal" \in met'
  BY <1>1, <1>3
<1>8. pc' \in {"read", "relist"} =>
          \A n \in listed : n \in rewritten \/ record'[n] # record[n] =>
                                n \in rewritten'
  BY <1>2 DEF Note
<1>. QED  BY <1>3, <1>6, <1>7, <1>8
-----------------------------------------------------------------------------
CommandTypeOK ==
    /\ command \in Commands /\ pc \in Stages /\ name \in Names
    /\ evidence \subseteq Observations \cup Readiness \cup Checks
    /\ known \in BOOLEAN /\ authoritative \in BOOLEAN
    /\ claim \in Records
    /\ listed \subseteq Names /\ unread \subseteq listed /\ doubt \in Doubts
    /\ verdict \in Verdicts

LEMMA CommandTypeStep ==
    ASSUME LifeTypeOK, CommandTypeOK, Command
    PROVE  CommandTypeOK'
<1> USE DEF CommandTypeOK, Stages
<1>0. /\ \A n \in Names : record[n] \in Records /\ Reading(n) \subseteq Records
      /\ Absent \in Records
  BY DEF LifeTypeOK, Reading, Records, Other, OtherKinds, Absent
<1>1. CASE End
  BY <1>1, TrialAssumption DEF End, scan, Verdicts, Commands, Names
<1>2. ASSUME NEW n \in Names,
             \/ StartInspect(n) \/ StartRemovalPlan(n)
             \/ StartValidate(n) \/ StartCreate(n) \/ StartList(n)
      PROVE  CommandTypeOK'
  <2>1. known' \in BOOLEAN
    <3>1. known' = (n \in account)
      BY <1>2, Zenon DEF StartInspect, StartRemovalPlan, StartValidate,
                         StartCreate, StartList, Start
    <3>2. (n \in account) = TRUE \/ (n \in account) = FALSE
      OBVIOUS
    <3>. QED  BY <3>1, <3>2
  <2>2. CASE StartInspect(n)
    BY <2>1, <2>2 DEF StartInspect, Start, scan, Commands, Observations
  <2>3. CASE StartRemovalPlan(n)
    BY <2>1, <2>3 DEF StartRemovalPlan, Start, scan, Commands, Ready, Checks
  <2>4. CASE StartValidate(n)
    BY <2>1, <2>4 DEF StartValidate, Start, scan, Commands
  <2>5. CASE StartCreate(n)
    BY <2>1, <2>5 DEF StartCreate, Start, scan, Commands, If, Observations
  <2>6. CASE StartList(n)
    BY <2>1, <2>6 DEF StartList, Start, scan, Commands
  <2>. QED  BY <1>2, <2>2, <2>3, <2>4, <2>5, <2>6
<1>3. ASSUME NEW n \in Names, NEW c \in Commands, StartSearch(c, n)
      PROVE  CommandTypeOK'
  BY <1>3 DEF StartSearch, Start, scan, Positive, Readiness
<1>4. CASE InspectRegistration
  BY <1>0, <1>4 DEF InspectRegistration, Observe, report, scan
<1>5. CASE InspectMount
  BY <1>0, <1>5 DEF InspectMount, Observe, report, scan, Observations, Unknown
<1>6. CASE InspectBtrfs
  BY <1>0, <1>6 DEF InspectBtrfs, Observe, report, scan, Observations, Unknown, SameStorage, If
<1>7. CASE InspectUnregistered
  BY <1>0, <1>7 DEF InspectUnregistered, Report, report, Verdicts, Doubts, ClassifyUnregistered
<1>8. CASE InspectHome
  BY <1>0, <1>8 DEF InspectHome, SameHome, Observe, report, scan, Observations, Unknown, If
<1>9. CASE ScanList
  BY <1>0, <1>9 DEF ScanList, Observe, report, scan, Observations, Unknown, Doubts, Entries
<1>10. CASE ScanRead
  BY <1>0, <1>10 DEF ScanRead, Observe, report, scan, Doubts, Told
<1>11. CASE ScanConclude
  BY <1>0, <1>11 DEF ScanConclude, Observe, report, scan, Observations, Unknown
<1>12. CASE ScanRelist
  BY <1>0, <1>12 DEF ScanRelist, Observe, report, scan, Observations, Unknown, Doubts
<1>13. CASE InspectMarker
  BY <1>0, <1>13 DEF InspectMarker, Report, report, Verdicts, Doubts, Postconditions, ClassifyPostconditions
<1>14. CASE PlanSessions
  BY <1>0, <1>14 DEF PlanSessions, Observe, report, scan, Checks, Ready
<1>15. CASE PlanRegistration
  BY <1>0, <1>15 DEF PlanRegistration, Observe, report, scan, Checks
<1>16. CASE PlanHome
  BY <1>0, <1>16 DEF PlanHome, Observe, report, scan, Checks, Ready
<1>17. CASE PlanNothing
  BY <1>0, <1>17 DEF PlanNothing, Report, report, Verdicts, Doubts
<1>18. CASE PlanContents
  BY <1>0, <1>18 DEF PlanContents, Observe, report, scan, Checks
<1>19. CASE PlanProcesses
  BY <1>0, <1>19 DEF PlanProcesses, Report, report, Verdicts, ReadyForTrial, Doubts, OverallRemoval
<1>20. CASE CheckRegistration
  BY <1>0, <1>20 DEF CheckRegistration, Observe, report, scan, Readiness, Vacant, Positive
<1>21. CASE CheckMarker
  BY <1>0, <1>21 DEF CheckMarker, Observe, report, scan, Readiness, Vacant, Positive
<1>22. CASE CheckHome
  BY <1>0, <1>22 DEF CheckHome, Report, report, Verdicts, ReadyForTrial, Doubts, OverallReadiness
<1>23. CASE StartHostCheck \/ StartDoctor
  BY <1>3, <1>23, TrialAssumption, ExperimentAssumption
     DEF StartHostCheck, StartDoctor, Commands, Names
<1>24. CASE DoctorHome
  BY <1>0, <1>24 DEF DoctorHome, Observe, report, scan, Readiness, Vacant, Positive
<1>25. CASE DoctorTools
  <2>1. PICK checks : \/ Report(ClassifyIsolationReadiness(checks))
                      \/ Report(Advice(checks))
    BY <1>25 DEF DoctorTools
  <2>. QED  BY <1>0, <2>1 DEF Report, report, Verdicts, ReadyForTrial, Doubts,
                              ClassifyIsolationReadiness, Advice
<1>26. CASE ValidateSessions
  BY <1>0, <1>26 DEF ValidateSessions, Observe, report, scan, Checks, Ready
<1>27. CASE ValidateHome
  BY <1>0, <1>27 DEF ValidateHome, Observe, report, scan, Checks, Ready
<1>28. CASE ValidateProcesses
  BY <1>0, <1>28 DEF ValidateProcesses, Observe, report, scan, Checks
<1>29. CASE ValidateContents
  BY <1>0, <1>29 DEF ValidateContents, Report, report, Verdicts, Doubts, RemovalEvidence
<1>30. CASE CreateHome
  BY <1>0, <1>30 DEF CreateHome, Observe, report, scan, Observations, Unknown, If
<1>31. CASE CreateMount
  BY <1>0, <1>31 DEF CreateMount, Report, report, Verdicts, Doubts, ArchitecturalEligibility
<1>32. CASE Inspect
  BY <1>2, <1>4, <1>5, <1>6, <1>7, <1>8, <1>9, <1>10, <1>11, <1>12, <1>13, <1>32
     DEF Inspect
<1>33. CASE RemovalPlan
  BY <1>2, <1>14, <1>15, <1>16, <1>17, <1>18, <1>19, <1>33 DEF RemovalPlan
<1>34. CASE HostCheck
  BY <1>20, <1>21, <1>22, <1>23, <1>24, <1>25, <1>34 DEF HostCheck
<1>35. CASE Validate \/ PlanCreation
  BY <1>2, <1>26, <1>27, <1>28, <1>29, <1>30, <1>31, <1>35
     DEF Validate, PlanCreation
<1>36. CASE ListHome
  BY <1>0, <1>36 DEF ListHome, Report, report, Verdicts, Doubts
<1>37. CASE StartSnapshot
  BY <1>37, ExperimentAssumption DEF StartSnapshot, Start, scan, Commands, Names
<1>38. CASE SnapshotTools
  <2>1. PICK checks : Report(ClassifyIsolationReadiness(checks))
    BY <1>38 DEF SnapshotTools
  <2>. QED  BY <1>0, <2>1 DEF Report, report, Verdicts, ReadyForTrial, Doubts,
                              ClassifyIsolationReadiness
<1>39. CASE Glance
  BY <1>2, <1>36, <1>37, <1>38, <1>39 DEF Glance
<1>. QED  BY <1>1, <1>32, <1>33, <1>34, <1>35, <1>39 DEF Command

LEMMA QuietStep ==
    ASSUME Quiet, HostNext
    PROVE  Quiet'
<1> USE DEF Quiet, report
<1>1. CASE LifeNext /\ pc # "done"
               /\ UNCHANGED <<report, pc, evidence, claim, scan, verdict>>
  BY <1>1 DEF scan
<1>2. CASE End
  BY <1>2 DEF End, scan
<1>3. CASE Inspect
  <2>1. ASSUME NEW n \in Names, StartInspect(n)
        PROVE  Quiet'
    BY <2>1 DEF StartInspect, Start, scan
  <2>2. CASE InspectUnregistered \/ InspectMarker
    BY <2>2 DEF InspectUnregistered, InspectMarker, Report
  <2>3. CASE InspectRegistration \/ InspectMount \/ InspectBtrfs \/ InspectHome
    BY <2>3 DEF InspectRegistration, InspectMount, InspectBtrfs, InspectHome,
                Observe, At, scan
  <2>4. CASE ScanList \/ ScanRead \/ ScanConclude \/ ScanRelist
    BY <2>4 DEF ScanList, ScanRead, ScanConclude, ScanRelist, Observe, At, scan
  <2>. QED  BY <1>3, <2>1, <2>2, <2>3, <2>4 DEF Inspect
<1>4. CASE RemovalPlan
  <2>1. ASSUME NEW n \in Names, StartRemovalPlan(n)
        PROVE  Quiet'
    BY <2>1 DEF StartRemovalPlan, Start, scan
  <2>2. CASE PlanNothing \/ PlanProcesses
    BY <2>2 DEF PlanNothing, PlanProcesses, Report
  <2>3. CASE PlanSessions \/ PlanRegistration \/ PlanHome \/ PlanContents
    BY <2>3 DEF PlanSessions, PlanRegistration, PlanHome, PlanContents,
                Observe, At, scan
  <2>. QED  BY <1>4, <2>1, <2>2, <2>3 DEF RemovalPlan
<1>5. CASE HostCheck
  <2>1. CASE StartHostCheck \/ StartDoctor
    <3>1. pc = "idle" /\ pc' = "registration" /\ UNCHANGED <<verdict, scan>>
      BY <2>1, Zenon DEF StartHostCheck, StartDoctor, StartSearch, Start
    <3>. QED  BY <3>1 DEF scan
  <2>2. CASE CheckRegistration \/ CheckMarker \/ DoctorHome
    BY <2>2 DEF CheckRegistration, CheckMarker, DoctorHome, Searches, Observe,
                At, scan
  <2>3. CASE CheckHome \/ DoctorTools
    BY <2>3 DEF CheckHome, DoctorTools, Report
  <2>. QED  BY <1>5, <2>1, <2>2, <2>3 DEF HostCheck
<1>6. CASE Validate
  <2>1. ASSUME NEW n \in Names, StartValidate(n)
        PROVE  Quiet'
    BY <2>1 DEF StartValidate, Start, scan
  <2>2. CASE ValidateContents
    BY <2>2 DEF ValidateContents, Report
  <2>3. CASE ValidateSessions \/ ValidateHome \/ ValidateProcesses
    BY <2>3 DEF ValidateSessions, ValidateHome, ValidateProcesses, Observe,
                At, scan
  <2>. QED  BY <1>6, <2>1, <2>2, <2>3 DEF Validate
<1>7. CASE PlanCreation
  <2>1. ASSUME NEW n \in Names, StartCreate(n)
        PROVE  Quiet'
    BY <2>1 DEF StartCreate, Start, scan
  <2>2. CASE CreateMount
    BY <2>2 DEF CreateMount, Report
  <2>3. CASE CreateHome
    BY <2>3 DEF CreateHome, Observe, At, scan
  <2>. QED  BY <1>7, <2>1, <2>2, <2>3 DEF PlanCreation
<1>8. CASE Glance
  <2>1. ASSUME NEW n \in Names, StartList(n)
        PROVE  Quiet'
    BY <2>1 DEF StartList, Start, scan
  <2>2. CASE StartSnapshot
    BY <2>2 DEF StartSnapshot, Start, scan
  <2>3. CASE ListHome \/ SnapshotTools
    BY <2>3 DEF ListHome, SnapshotTools, Report
  <2>. QED  BY <1>8, <2>1, <2>2, <2>3 DEF Glance
<1>. QED  BY <1>1, <1>2, <1>3, <1>4, <1>5, <1>6, <1>7, <1>8 DEF HostNext, Command

(* Only listing changes what is listed, until the command reports. *)
LEMMA ListedStep ==
    ASSUME Command
    PROVE  UNCHANGED listed \/ pc = "list" \/ pc' = "done"
<1>1. CASE Inspect
  <2>1. CASE \E n \in Names : StartInspect(n)
    BY <2>1 DEF StartInspect, Start, scan
  <2>2. CASE ~\E n \in Names : StartInspect(n)
    BY <1>1, <2>2
       DEF Inspect, InspectRegistration, InspectMount, InspectBtrfs,
           InspectUnregistered, InspectHome, ScanList, ScanRead, ScanConclude,
           ScanRelist, InspectMarker, Report, At, scan
  <2>. QED  BY <2>1, <2>2
<1>2. CASE RemovalPlan
  BY <1>2 DEF RemovalPlan, StartRemovalPlan, PlanSessions, PlanRegistration,
              PlanHome, PlanNothing, PlanContents, PlanProcesses, Start,
              Report, scan
<1>3. CASE HostCheck
  BY <1>3 DEF HostCheck, StartHostCheck, StartDoctor, StartSearch,
              CheckRegistration, CheckMarker, CheckHome, DoctorHome,
              DoctorTools, Start, Report, scan
<1>4. CASE End
  BY <1>4 DEF End, scan
<1>5. CASE Validate \/ PlanCreation
  BY <1>5 DEF Validate, StartValidate, ValidateSessions, ValidateHome,
              ValidateProcesses, ValidateContents, PlanCreation, StartCreate,
              CreateHome, CreateMount, Start, Report, scan
<1>6. CASE Glance
  BY <1>6 DEF Glance, StartList, ListHome, StartSnapshot, SnapshotTools,
              Start, Report, scan
<1>. QED  BY <1>1, <1>2, <1>3, <1>4, <1>5, <1>6 DEF Command

LEMMA TypeStep ==
    ASSUME HostTypeOK, LifeInv, Quiet, HostNext
    PROVE  HostTypeOK'
<1>1. LifeTypeOK'
  BY LifeStepOk DEF HostNext, LifeInv, LifeTypeOK, life
<1>2. CommandTypeOK'
  <2>1. LifeTypeOK /\ CommandTypeOK
    BY DEF HostTypeOK, CommandTypeOK
  <2>2. CASE Command
    BY <2>1, <2>2, CommandTypeStep
  <2>3. CASE LifeNext /\ UNCHANGED <<report, pc, evidence, claim, scan, verdict>>
    BY <2>1, <2>3 DEF CommandTypeOK, report, scan
  <2>. QED  BY <2>2, <2>3 DEF HostNext
<1>3. met' \subseteq Facts
  BY DEF HostNext, Note, HostTypeOK, Holding, Facts
<1>4. listed = {} \/ UNCHANGED listed \/ pc' \notin {"read", "relist"}
  BY ListedStep DEF HostNext, Quiet, scan
<1>5. rewritten' \subseteq listed'
  BY <1>4 DEF HostNext, Note
<1>. QED  BY <1>1, <1>2, <1>3, <1>5 DEF HostTypeOK, CommandTypeOK
-----------------------------------------------------------------------------
(* While the host changes and the command waits *)
Waiting ==
    LifeNext /\ pc # "done" /\ UNCHANGED <<report, pc, evidence, claim, scan, verdict>>

LEMMA WaitingStep ==
    ASSUME HostInv, HostNext, Waiting
    PROVE  HostInv'
<1>1. LifeInv' /\ Quiet' /\ HostTypeOK' /\ Noted'
  BY LifeStepOk, QuietStep, TypeStep, NoteStep DEF HostInv, Waiting
<1>2. /\ UNCHANGED <<command, name, known, pc, evidence, claim, unread, listed,
                     doubt, verdict>>
      /\ Running' = Running /\ Checked' = Checked /\ verdict = "none"
  BY DEF Waiting, report, scan, Running, Checked, HostInv, Quiet
<1>3. name \in Names /\ LifeMove(name)
  BY LifeMoves DEF HostInv, HostTypeOK, Waiting
<1>4. LifeOf(name) /\ LifeOf(name)'
  BY <1>1, <1>2, <1>3 DEF HostInv, LifeInv
<1>5. Running => /\ met \subseteq met'
                 /\ op[name] # "remove" /\ op'[name] = "remove" =>
                        "removal" \in met'
  BY <1>2, NoteStep DEF HostInv, Began
<1>6. InspectInv'
  <2>1. SUFFICES ASSUME command = "inspect", Running
                 PROVE  InspectInv'
    BY <1>2 DEF InspectInv
  <2>2. name \in Managed /\ (op[name] = "remove" => "removal" \in met)
    BY <2>1 DEF HostInv, InspectInv
  <2>3. op'[name] = "remove" => {"removal", "broken"} \subseteq met'
    BY <1>1, <1>2, <1>4, <1>5, <2>1, <2>2
       DEF Noted, LifeOf, Complete, Whole
  <2>4. claim.kind = "valid" =>
            record'[name] = claim \/ {"removal", "broken"} \subseteq met'
    <3>1. CASE op[name] = "remove"
      BY <1>3, <1>4, <1>5, <2>1, <2>2, <3>1
         DEF HostInv, Noted, LifeOf, Complete, Whole
    <3>2. CASE op[name] # "remove"
      BY <1>3, <1>5, <2>1, <2>2, <3>2
         DEF HostInv, InspectInv, LifeMove, Absent, Other
    <3>. QED  BY <3>1, <3>2
  <2>5. Checked /\ evidence \subseteq {"confirmed"} =>
            met' \cap {"complete", "removal"} # {} \/ op'[name] = "create"
    BY <1>1, <1>2, <1>3, <1>4, <1>5, <2>1, <2>3
       DEF HostInv, InspectInv, Noted, LifeMove, LifeOf, Absent, Other,
           LifeInv, LifeTypeOK, Operations
  <2>. QED  BY <1>2, <1>5, <2>1, <2>2, <2>3, <2>4, <2>5
            DEF HostInv, InspectInv
<1>7. ScanInv'
  <2>1. pc \in {"read", "relist"} =>
            \A n \in listed : n \in rewritten \/ record'[n] # record[n] =>
                                  n \in rewritten'
    BY <1>2, NoteStep DEF HostInv
  <2>. QED  BY <1>2, <2>1 DEF HostInv, ScanInv
<1>8. PlanInv'
  <2>0. CASE command = "validate"
    BY <1>2, <1>5, <2>0 DEF HostInv, PlanInv
  <2>1. SUFFICES ASSUME command = "removal-plan", Running
                 PROVE  PlanInv'
    BY <1>2, <2>0 DEF PlanInv
  <2>2. (/\ known /\ name \notin account'
         /\ home'[name].owned /\ home'[name].private) =>
            "canonical" \in met'
    BY <1>3, <1>5, <2>1 DEF HostInv, Noted, PlanInv, LifeMove, Canonical
  <2>. QED  BY <1>2, <1>5, <2>1, <2>2 DEF HostInv, PlanInv
<1>9. CheckInv'
  <2>1. SUFFICES ASSUME command \in Searches, Running,
                        evidence \cap Unclean = {},
                        met' \cap {"free", "removal"} = {}
                 PROVE  CheckInv'
    BY <1>2 DEF CheckInv, HostInv, Waiting, report
  <2>2. /\ met \cap {"free", "removal"} = {}
        /\ ~Free(name)
        /\ op[name] # "remove" => op'[name] # "remove"
    BY <1>5, <2>1 DEF HostInv, Noted
  <2>3. name \in Managed
    BY <2>1, TrialAssumption, ExperimentAssumption DEF HostInv, CheckInv
  <2>. QED  BY <1>2, <1>3, <2>1, <2>2, <2>3
            DEF HostInv, CheckInv, LifeMove, Waiting, report
<1>10. VerdictsTrue'
  BY <1>2 DEF VerdictsTrue, ConsistentWasComplete, IncompleteWasBroken,
              ReadyWasIdle, FreeWasFree, ReadyForTrial
<1>. QED  BY <1>1, <1>6, <1>7, <1>8, <1>9, <1>10 DEF HostInv

(* While a command acts and the host stands still *)
LEMMA StandStill ==
    ASSUME HostInv, HostNext, Command, UNCHANGED life
    PROVE  /\ LifeInv' /\ Quiet' /\ HostTypeOK' /\ Noted'
           /\ Running /\ Running' => UNCHANGED report /\ met \subseteq met'
           /\ pc' = "done" => met' = met
           /\ \A n : /\ Complete(n)' <=> Complete(n)
                     /\ Copied(n)' <=> Copied(n)
                     /\ Canonical(n)' <=> Canonical(n)
                     /\ Free(n)' <=> Free(n)
<1>1. LifeInv'
  BY DEF HostInv, LifeInv, LifeTypeOK, LifeOf, life, Free
<1>2. Quiet' /\ HostTypeOK' /\ Noted'
  BY QuietStep, TypeStep, NoteStep DEF HostInv
<1>3. \A n : /\ Complete(n)' <=> Complete(n)
             /\ Copied(n)' <=> Copied(n)
             /\ Canonical(n)' <=> Canonical(n)
             /\ Free(n)' <=> Free(n)
  BY DEF life, Complete, Whole, Copied, Canonical, Free
<1>. QED  BY <1>1, <1>2, <1>3, NoteStep DEF HostInv

(* A command that reports leaves what its observations were based on. *)
LEMMA NotRunning ==
    ASSUME ~Running'
    PROVE  InspectInv' /\ ScanInv' /\ PlanInv' /\ CheckInv'
  BY DEF InspectInv, ScanInv, PlanInv, CheckInv, Running

(* A verdict is another than those that claim something, or is none. *)
LEMMA NoVerdict ==
    ASSUME verdict' \notin ReadyForTrial \cup
               {"consistent", "incomplete", "inconsistent",
                "ready for removal", "no blocker detected"}
    PROVE  VerdictsTrue'
  BY DEF VerdictsTrue, ConsistentWasComplete, IncompleteWasBroken,
         ReadyWasIdle, FreeWasFree

LEMMA StartStep ==
    ASSUME HostInv, HostNext, UNCHANGED life,
           \/ \E n \in Names : \/ StartInspect(n) \/ StartRemovalPlan(n)
                               \/ StartValidate(n) \/ StartCreate(n)
                               \/ StartList(n)
           \/ StartHostCheck \/ StartDoctor \/ StartSnapshot
    PROVE  HostInv'
<1>1. Command
  BY DEF Command, Inspect, RemovalPlan, HostCheck, Validate, PlanCreation,
         Glance
<1>2. LifeInv' /\ Quiet' /\ HostTypeOK' /\ Noted'
  BY <1>1, StandStill
<1>3. pc = "idle" /\ pc' \in {"registration", "sessions", "home", "tools"}
  BY DEF StartInspect, StartRemovalPlan, StartHostCheck, StartDoctor,
         StartSearch, StartValidate, StartCreate, StartList, StartSnapshot,
         Start
<1>4. UNCHANGED <<claim, scan, verdict>> /\ claim = Absent /\ doubt = "none"
      /\ verdict = "none"
  BY <1>3 DEF StartInspect, StartRemovalPlan, StartHostCheck, StartDoctor,
              StartSearch, StartValidate, StartCreate, StartList,
              StartSnapshot, Start, HostInv, Quiet
<1>5. VerdictsTrue'
  BY <1>4, NoVerdict DEF ReadyForTrial
<1>6. ASSUME NEW n \in Names, StartInspect(n)
      PROVE  InspectInv' /\ ScanInv' /\ PlanInv' /\ CheckInv'
  <2>1. /\ command' = "inspect" /\ name' = n /\ n \in account
        /\ pc' = "registration" /\ evidence' = {"confirmed"}
    BY <1>6 DEF StartInspect, Start
  <2>2. n \in Managed /\ op'[n] # "remove"
    BY <2>1 DEF HostInv, LifeInv, LifeOf, life
  <2>. QED  BY <1>4, <2>1, <2>2
            DEF InspectInv, ScanInv, PlanInv, CheckInv, Searches, Checked, scan,
                Absent, Other
<1>7. ASSUME NEW n \in Names, StartRemovalPlan(n)
      PROVE  InspectInv' /\ ScanInv' /\ PlanInv' /\ CheckInv'
  <2>1. /\ command' = "removal-plan" /\ name' = n /\ known' = (n \in account)
        /\ pc' = "sessions" /\ evidence' = {Ready(n \in account)}
    BY <1>7, Zenon DEF StartRemovalPlan, Start
  <2>2. ~known' => "blocked" \in evidence'
    BY <2>1 DEF Ready
  <2>3. known' => name' \in account'
    BY <2>1 DEF life
  <2>. QED  BY <2>1, <2>2, <2>3
            DEF InspectInv, ScanInv, PlanInv, CheckInv, Searches
<1>8. ASSUME StartHostCheck \/ StartDoctor
      PROVE  InspectInv' /\ ScanInv' /\ PlanInv' /\ CheckInv'
  <2>1. /\ command' \in Searches /\ name' \in {Trial, Experiment}
        /\ pc' = "registration"
        /\ ~authoritative' => evidence' \cap Unclean # {}
    BY <1>8 DEF StartHostCheck, StartDoctor, StartSearch, Start, Searches,
                Positive, Unclean
  <2>2. InspectInv' /\ ScanInv' /\ PlanInv'
    BY <2>1 DEF InspectInv, ScanInv, PlanInv, Searches
  <2>3. CheckInv'
    BY <2>1 DEF CheckInv
  <2>. QED  BY <2>2, <2>3
<1>9. ASSUME NEW n \in Names, StartValidate(n)
      PROVE  InspectInv' /\ ScanInv' /\ PlanInv' /\ CheckInv'
  <2>1. /\ command' = "validate" /\ name' = n /\ pc' = "sessions"
        /\ known' => n \in account
        /\ ~known' => n \notin account
    BY <1>9 DEF StartValidate, Start
  <2>2. Running'
    BY <2>1 DEF Running
  <2>3. ~known' => "idle" \in met'
    BY <1>2, <2>1, <2>2 DEF Noted, LifeInv, LifeOf, life
  <2>. QED  BY <2>1, <2>3 DEF InspectInv, ScanInv, PlanInv, CheckInv, Searches
<1>10. ASSUME NEW n \in Names, StartCreate(n)
       PROVE  InspectInv' /\ ScanInv' /\ PlanInv' /\ CheckInv'
  BY <1>10 DEF StartCreate, Start, InspectInv, ScanInv, PlanInv, CheckInv, Searches
<1>11. ASSUME NEW n \in Names, StartList(n) \/ StartSnapshot
       PROVE  InspectInv' /\ ScanInv' /\ PlanInv' /\ CheckInv'
  BY <1>11 DEF StartList, StartSnapshot, Start, InspectInv, ScanInv, PlanInv,
               CheckInv, Searches
<1>12. InspectInv' /\ ScanInv' /\ PlanInv' /\ CheckInv'
  <2>1. CASE StartHostCheck \/ StartDoctor
    BY <1>8, <2>1
  <2>2. CASE \E n \in Names : \/ StartInspect(n) \/ StartRemovalPlan(n)
                              \/ StartValidate(n) \/ StartCreate(n)
                              \/ StartList(n)
    BY <1>6, <1>7, <1>9, <1>10, <1>11, <2>2
  <2>3. CASE StartSnapshot
    BY <1>11, <2>3, ExperimentAssumption DEF Names
  <2>. QED  BY <2>1, <2>2, <2>3
<1>. QED  BY <1>2, <1>5, <1>12 DEF HostInv

(* An observation of the removal plan *)
LEMMA PlanStep ==
    ASSUME HostInv, HostNext, UNCHANGED life,
           PlanSessions \/ PlanRegistration \/ PlanHome \/ PlanNothing
             \/ PlanContents \/ PlanProcesses
    PROVE  HostInv'
<1>1. /\ LifeInv' /\ Quiet' /\ HostTypeOK' /\ Noted'
      /\ Running /\ Running' => UNCHANGED report /\ met \subseteq met'
      /\ pc' = "done" => met' = met
  BY StandStill DEF Command, RemovalPlan
<1>2. command = "removal-plan" /\ Running /\ verdict = "none"
  BY DEF PlanSessions, PlanRegistration, PlanHome, PlanNothing, PlanContents,
         PlanProcesses, At, Running, HostInv, Quiet
<1>3. /\ activity[name] = "none" => "idle" \in met
      /\ Canonical(name) => "canonical" \in met
      /\ PlanInv
  BY <1>2 DEF HostInv, Noted
<1>4. CASE PlanNothing
  <2>1. pc' = "done" /\ verdict' \in {"protected Environment",
                                      "Environment does not exist"}
    BY <1>4 DEF PlanNothing, Report
  <2>. QED  BY <1>1, <2>1, NotRunning, NoVerdict DEF HostInv, Running, ReadyForTrial
<1>5. CASE PlanProcesses
  <2>1. PICK s \in {Ready(~known \/ activity[name] = "none"), "unknown"} :
            Report(IF name = Hub THEN "protected Environment"
                   ELSE OverallRemoval(evidence \cup {s}))
    BY <1>5 DEF PlanProcesses
  <2>2. pc' = "done" /\ met' = met /\ name' = name
    BY <1>1, <2>1 DEF Report, report
  <2>3. verdict' = "ready for removal" =>
            name # Hub /\ evidence \cap {"blocked", "unknown"} = {}
              /\ s \notin {"blocked", "unknown"}
    BY <2>1 DEF Report, OverallRemoval
  <2>4. verdict' = "ready for removal" => "canonical" \in met /\ "idle" \in met
    BY <1>2, <1>3, <1>5, <2>3 DEF PlanInv, PlanProcesses, At, Ready
  <2>5. verdict' \notin ReadyForTrial \cup
                {"consistent", "incomplete", "inconsistent",
                 "no blocker detected"}
    BY <2>1 DEF Report, OverallRemoval, ReadyForTrial
  <2>6. VerdictsTrue'
    BY <2>2, <2>3, <2>4, <2>5
       DEF VerdictsTrue, ConsistentWasComplete, IncompleteWasBroken,
           ReadyWasIdle, FreeWasFree
  <2>. QED  BY <1>1, <2>2, <2>6, NotRunning DEF HostInv, Running
<1>6. CASE PlanSessions \/ PlanRegistration \/ PlanHome \/ PlanContents
  <2>1. /\ Running' /\ evidence \subseteq evidence' /\ UNCHANGED verdict
        /\ pc' \in {"contents", "processes"} =>
               \/ pc \in {"contents", "processes"}
               \/ evidence' \cap {"blocked", "unknown"} # {}
               \/ known /\ home[name].owned /\ home[name].private
    BY <1>6 DEF PlanSessions, PlanRegistration, PlanHome, PlanContents,
                Observe, At, Running, Ready
  <2>2. UNCHANGED report /\ met \subseteq met'
    BY <1>1, <1>2, <2>1
  <2>3. known /\ home[name].owned /\ home[name].private => "canonical" \in met
    BY <1>2, <1>3 DEF PlanInv, Canonical
  <2>4. PlanInv'
    BY <1>2, <1>3, <2>1, <2>2, <2>3 DEF PlanInv, life, report
  <2>5. InspectInv' /\ ScanInv' /\ CheckInv'
    BY <1>2, <2>2 DEF InspectInv, ScanInv, CheckInv, Searches, report
  <2>6. VerdictsTrue'
    BY <1>2, <2>1, NoVerdict DEF ReadyForTrial
  <2>. QED  BY <1>1, <2>4, <2>5, <2>6 DEF HostInv
<1>. QED  BY <1>4, <1>5, <1>6

LEMMA CheckStep ==
    ASSUME HostInv, HostNext, UNCHANGED life,
           \/ CheckRegistration \/ CheckMarker
           \/ CheckHome \/ DoctorHome \/ DoctorTools
    PROVE  HostInv'
<1>1. /\ LifeInv' /\ Quiet' /\ HostTypeOK' /\ Noted'
      /\ Running /\ Running' => UNCHANGED report /\ met \subseteq met'
      /\ pc' = "done" => met' = met
  BY StandStill DEF Command, HostCheck
<1>2. command \in Searches /\ Running /\ verdict = "none"
  BY DEF CheckRegistration, CheckMarker, CheckHome, DoctorHome, DoctorTools,
         Searches, At, Running, HostInv, Quiet
<1>3. /\ Free(name) => "free" \in met
      /\ name \in {Trial, Experiment} /\ name \in Managed /\ name \in Names
      /\ CheckInv
  BY <1>2, TrialAssumption, ExperimentAssumption DEF HostInv, Noted, CheckInv, Names
<1>4. LifeOf(name)
  BY <1>3 DEF HostInv, LifeInv
(* Nothing unclean was seen at any of the four looks. *)
<1>5. ASSUME pc = "home", evidence \cap Unclean = {}, home[name] = NoHome
      PROVE  met \cap {"free", "removal"} # {}
  BY <1>2, <1>3, <1>4, <1>5
     DEF CheckInv, LifeOf, Free, HostInv, LifeInv, LifeTypeOK, Operations
<1>7. CASE CheckHome
  <2>1. PICK s \in {Vacant(home[name] = NoHome), "unavailable"},
             others \in SUBSET Readiness :
            Report(OverallReadiness(evidence \cup {s} \cup others))
    BY <1>7 DEF CheckHome
  <2>2. pc' = "done" /\ met' = met /\ UNCHANGED <<command, authoritative>>
    BY <1>1, <2>1 DEF Report, report
  <2>3. verdict' \in ReadyForTrial =>
            (evidence \cup {s}) \cap Unclean = {}
    BY <2>1 DEF Report, OverallReadiness, Unclean, ReadyForTrial
  <2>4. verdict' \in ReadyForTrial => home[name] = NoHome
    BY <2>1, <2>3 DEF Vacant, Unclean
  <2>5. verdict' \in ReadyForTrial =>
            authoritative /\ met \cap {"free", "removal"} # {}
    BY <1>2, <1>3, <1>5, <1>7, <2>3, <2>4 DEF CheckHome, At, CheckInv
  <2>6. verdict' \notin {"consistent", "incomplete", "inconsistent", "ready for removal",
                         "no blocker detected"}
    BY <2>1 DEF Report, OverallReadiness
  <2>7. VerdictsTrue'
    BY <2>2, <2>5, <2>6
       DEF VerdictsTrue, ConsistentWasComplete, IncompleteWasBroken,
           ReadyWasIdle, FreeWasFree
  <2>. QED  BY <1>1, <2>2, <2>7, NotRunning DEF HostInv, Running
<1>8. CASE DoctorTools
  <2>1. PICK checks : /\ evidence \subseteq checks
                      /\ \/ Report(ClassifyIsolationReadiness(checks))
                         \/ Report(Advice(checks))
    BY <1>8 DEF DoctorTools
  <2>2. pc' = "done" /\ met' = met /\ UNCHANGED <<command, authoritative>>
    BY <1>1, <2>1 DEF Report, report
  <2>3. verdict' \in ReadyForTrial => evidence \cap Unclean = {}
    BY <2>1 DEF Report, ClassifyIsolationReadiness, Advice, Unclean,
                ReadyForTrial
  <2>4. verdict' \in ReadyForTrial =>
            authoritative /\ met \cap {"free", "removal"} # {}
    BY <1>2, <1>3, <1>8, <2>3 DEF CheckInv, DoctorTools, At
  <2>5. verdict' \notin {"consistent", "incomplete", "inconsistent", "ready for removal",
                         "no blocker detected"}
    BY <2>1 DEF Report, ClassifyIsolationReadiness, Advice
  <2>6. VerdictsTrue'
    BY <2>2, <2>4, <2>5
       DEF VerdictsTrue, ConsistentWasComplete, IncompleteWasBroken,
           ReadyWasIdle, FreeWasFree
  <2>. QED  BY <1>1, <2>2, <2>6, NotRunning DEF HostInv, Running
<1>6. CASE CheckRegistration \/ CheckMarker \/ DoctorHome
  <2>1. Running' /\ evidence \subseteq evidence' /\ UNCHANGED verdict
    BY <1>6 DEF CheckRegistration, CheckMarker, DoctorHome, Observe, At, Running
  <2>2. UNCHANGED report /\ met \subseteq met'
    BY <1>1, <1>2, <2>1
  <2>3. CheckInv'
    <3>0. ~authoritative' => evidence' \cap Unclean # {}
      BY <1>2, <1>3, <2>1, <2>2 DEF CheckInv, report
    <3>1. CASE CheckRegistration
      <4>1. pc' = "marker"
        BY <3>1 DEF CheckRegistration, Observe
      <4>2. evidence' \cap Unclean = {} => record[name] = Absent
        BY <3>1 DEF CheckRegistration, Observe, Reading, Vacant, Unclean, Other
      <4>. QED  BY <1>3, <2>2, <3>0, <4>1, <4>2 DEF CheckInv, life, report
    <3>2. CASE CheckMarker
      <4>1. pc = "marker" /\ pc' = "home" /\ evidence \subseteq evidence'
        BY <3>2 DEF CheckMarker, Observe, At
      <4>2. evidence' \cap Unclean = {} => name \notin marker
        BY <3>2 DEF CheckMarker, Observe, Vacant, Unclean
      <4>3. evidence' \cap Unclean = {} => evidence \cap Unclean = {}
        BY <4>1
      <4>. QED  BY <1>2, <1>3, <1>4, <2>2, <3>0, <4>1, <4>2, <4>3
                DEF CheckInv, life, report, LifeOf
    <3>3. CASE DoctorHome
      <4>1. pc = "home" /\ pc' = "tools" /\ evidence \subseteq evidence'
        BY <3>3 DEF DoctorHome, Observe, At
      <4>2. evidence' \cap Unclean = {} => home[name] = NoHome
        BY <3>3 DEF DoctorHome, Observe, Vacant, Unclean
      <4>3. evidence' \cap Unclean = {} => met' \cap {"free", "removal"} # {}
        BY <1>5, <2>2, <4>1, <4>2
      <4>. QED  BY <1>3, <2>2, <3>0, <4>3 DEF CheckInv, report
    <3>. QED  BY <1>6, <3>1, <3>2, <3>3
  <2>4. InspectInv' /\ ScanInv' /\ PlanInv'
    BY <1>2, <2>2 DEF InspectInv, ScanInv, PlanInv, Searches, report
  <2>5. VerdictsTrue'
    BY <1>2, <2>1, NoVerdict DEF ReadyForTrial
  <2>. QED  BY <1>1, <2>3, <2>4, <2>5 DEF HostInv
<1>. QED  BY <1>6, <1>7, <1>8

(* A command that looks once *)
LEMMA GlanceStep ==
    ASSUME HostInv, HostNext, UNCHANGED life, ListHome \/ SnapshotTools
    PROVE  HostInv'
<1>1. LifeInv' /\ Quiet' /\ HostTypeOK' /\ Noted' /\ (pc' = "done" => met' = met)
  BY StandStill DEF Command, Glance
<1>2. pc' = "done" /\ Running /\ UNCHANGED report
  BY DEF ListHome, SnapshotTools, At, Running, Report
<1>3. CASE ListHome
  <2>1. /\ command = "list"
        /\ verdict' \in {"listed as consistent", "inconsistent", "unavailable"}
        /\ verdict' = "inconsistent" => ~home[name].owned
    BY <1>3 DEF ListHome, At, Report
  <2>2. verdict' = "inconsistent" => "broken" \in met
    BY <1>2, <2>1 DEF HostInv, Noted, Complete, Whole
  <2>3. VerdictsTrue'
    BY <1>1, <1>2, <2>1, <2>2
       DEF VerdictsTrue, ConsistentWasComplete, IncompleteWasBroken,
           ReadyWasIdle, FreeWasFree, ReadyForTrial
  <2>. QED  BY <1>1, <1>2, <2>3, NotRunning DEF HostInv, Running
<1>4. CASE SnapshotTools
  <2>1. PICK t \in Tool, f \in TrustFile, c \in CommandObservation :
            Report(ClassifyIsolationReadiness({t, f, c}))
    BY <1>4 DEF SnapshotTools
  <2>2. command' \notin Searches
    BY <1>2, <1>4 DEF SnapshotTools, At, Searches, report
  <2>3. verdict' \in ReadyForTrial => t \notin Unclean
    BY <2>1 DEF Report, ClassifyIsolationReadiness, ReadyForTrial, Unclean
  <2>4. verdict' \in ReadyForTrial => authoritative'
    BY <1>2, <2>1, <2>3 DEF Tool, Positive, Unclean, report
  <2>5. verdict' \in {"blocked", "requires-host-confirmation",
                      "ready-for-stage-2-design-review"}
    BY <2>1 DEF Report, ClassifyIsolationReadiness
  <2>6. VerdictsTrue'
    BY <2>2, <2>4, <2>5
       DEF VerdictsTrue, ConsistentWasComplete, IncompleteWasBroken,
           ReadyWasIdle, FreeWasFree
  <2>. QED  BY <1>1, <1>2, <2>6, NotRunning DEF HostInv, Running
<1>. QED  BY <1>3, <1>4

(* An observation of host validate or of the creation plan *)
LEMMA ValidateStep ==
    ASSUME HostInv, HostNext, UNCHANGED life,
           \/ ValidateSessions \/ ValidateHome \/ ValidateProcesses
           \/ ValidateContents \/ CreateHome \/ CreateMount
    PROVE  HostInv'
<1>1. /\ LifeInv' /\ Quiet' /\ HostTypeOK' /\ Noted'
      /\ Running /\ Running' => UNCHANGED report /\ met \subseteq met'
      /\ pc' = "done" => met' = met
  BY StandStill DEF Command, Validate, PlanCreation
<1>2. command \in {"validate", "create"} /\ Running /\ verdict = "none"
  BY DEF ValidateSessions, ValidateHome, ValidateProcesses, ValidateContents,
         CreateHome, CreateMount, At, Running, HostInv, Quiet
<1>3. CASE ValidateContents
  <2>1. PICK found : Report(RemovalEvidence(evidence \cup found))
    BY <1>3 DEF ValidateContents
  <2>2. pc' = "done" /\ met' = met
    BY <1>1, <2>1 DEF Report
  <2>3. verdict' = "no blocker detected" =>
            evidence \cap {"blocked", "unknown"} = {}
    BY <2>1 DEF Report, RemovalEvidence
  <2>4. verdict' = "no blocker detected" => "idle" \in met
    BY <1>2, <1>3, <2>3 DEF HostInv, PlanInv, ValidateContents, At
  <2>5. verdict' \notin ReadyForTrial \cup
                {"consistent", "incomplete", "inconsistent", "ready for removal"}
    BY <2>1 DEF Report, RemovalEvidence, ReadyForTrial
  <2>6. VerdictsTrue'
    BY <2>2, <2>4, <2>5
       DEF VerdictsTrue, ConsistentWasComplete, IncompleteWasBroken,
           ReadyWasIdle, FreeWasFree
  <2>. QED  BY <1>1, <2>2, <2>6, NotRunning DEF HostInv, Running
<1>4. CASE CreateMount
  <2>1. pc' = "done"
        /\ verdict' \in {"blocked", "requires-host-confirmation",
                         "eligible-for-future-apply"}
    BY <1>4 DEF CreateMount, Report, ArchitecturalEligibility
  <2>. QED  BY <1>1, <2>1, NotRunning, NoVerdict DEF HostInv, Running, ReadyForTrial
<1>5. CASE ValidateSessions \/ ValidateHome \/ ValidateProcesses \/ CreateHome
  <2>1. /\ Running' /\ UNCHANGED verdict
        /\ command = "validate" /\ pc' = "contents" /\ known =>
               evidence' \cap {"blocked", "unknown"} # {}
    BY <1>5 DEF ValidateSessions, ValidateHome, ValidateProcesses, CreateHome,
                Observe, At, Running
  <2>2. UNCHANGED report /\ met \subseteq met'
    BY <1>1, <1>2, <2>1
  <2>3. PlanInv'
    BY <1>2, <2>1, <2>2 DEF HostInv, PlanInv, report
  <2>4. InspectInv' /\ ScanInv' /\ CheckInv'
    BY <1>2, <2>2 DEF InspectInv, ScanInv, CheckInv, Searches, report
  <2>5. VerdictsTrue'
    BY <1>2, <2>1, NoVerdict DEF ReadyForTrial
  <2>. QED  BY <1>1, <2>3, <2>4, <2>5 DEF HostInv
<1>. QED  BY <1>3, <1>4, <1>5

LEMMA InspectReports ==
    ASSUME HostInv, HostNext, UNCHANGED life,
           InspectUnregistered \/ InspectMarker
    PROVE  HostInv'
<1>1. LifeInv' /\ Quiet' /\ HostTypeOK' /\ Noted' /\ (pc' = "done" => met' = met)
  BY StandStill DEF Command, Inspect
<1>2. command = "inspect" /\ Running /\ pc' = "done"
  BY DEF InspectUnregistered, InspectMarker, At, Running, Report
<1>3. CASE InspectUnregistered
  <2>1. verdict' \in {"unavailable-or-unconfirmed", "candidate"}
    BY <1>3 DEF InspectUnregistered, Report, ClassifyUnregistered
  <2>. QED  BY <1>1, <1>2, <2>1, NotRunning, NoVerdict DEF HostInv, Running, ReadyForTrial
<1>4. CASE InspectMarker
  <2>1. PICK s \in {If(name \notin marker, "not-satisfied"), "unavailable"} :
            Report(ClassifyPostconditions(evidence \cup {s}))
    BY <1>4 DEF InspectMarker, Postconditions
  <2>2. verdict' = ClassifyPostconditions(evidence \cup {s})
    BY <2>1 DEF Report
  <2>3. name \in Managed /\ LifeOf(name)
    BY <1>2 DEF HostInv, InspectInv, LifeInv, Names
  <2>4. Checked /\ claim.kind = "valid"
    BY <1>2, <1>4 DEF InspectMarker, At, Checked, HostInv, InspectInv
  <2>5. verdict' = "consistent" => met \cap {"complete", "removal"} # {}
    <3>1. SUFFICES ASSUME verdict' = "consistent"
                   PROVE  met \cap {"complete", "removal"} # {}
      OBVIOUS
    <3>2. evidence \cup {s} = {"confirmed"}
      BY <2>2, <3>1 DEF ClassifyPostconditions
    <3>3. name \notin marker
      BY <2>1, <3>2 DEF If
    <3>. QED  BY <1>2, <2>3, <2>4, <3>2, <3>3 DEF HostInv, InspectInv, LifeOf
  <2>6. verdict' = "incomplete" => "broken" \in met
    <3>1. SUFFICES ASSUME verdict' = "incomplete"
                   PROVE  "broken" \in met
      OBVIOUS
    <3>2. "not-satisfied" \in evidence \cup {s}
      BY <2>2, <3>1 DEF ClassifyPostconditions
    <3>3. "not-satisfied" \in evidence \/ name \in marker
      BY <2>1, <3>2 DEF If
    <3>. QED  BY <1>2, <2>4, <3>3 DEF HostInv, InspectInv, Noted, Complete
  <2>7. verdict' \notin ReadyForTrial \cup
                {"ready for removal", "no blocker detected", "inconsistent"}
    BY <2>2 DEF ClassifyPostconditions, ReadyForTrial
  <2>8. VerdictsTrue'
    BY <1>1, <1>2, <2>5, <2>6, <2>7
       DEF VerdictsTrue, ConsistentWasComplete, IncompleteWasBroken,
           ReadyWasIdle, FreeWasFree
  <2>. QED  BY <1>1, <1>2, <2>8, NotRunning DEF HostInv, Running
<1>. QED  BY <1>3, <1>4

(* Observations of the inspected Environment itself *)
LEMMA InspectObserves ==
    ASSUME HostInv, HostNext, UNCHANGED life,
           InspectRegistration \/ InspectMount \/ InspectBtrfs \/ InspectHome
    PROVE  HostInv'
<1>1. /\ LifeInv' /\ Quiet' /\ HostTypeOK' /\ Noted'
      /\ Running /\ Running' => UNCHANGED report /\ met \subseteq met'
  BY StandStill DEF Command, Inspect
<1>2. /\ command = "inspect" /\ Running /\ verdict = "none"
      /\ Running' /\ UNCHANGED <<verdict, doubt>>
      /\ evidence \subseteq evidence'
      /\ pc' \notin {"read", "relist", "registration"}
  BY DEF InspectRegistration, InspectMount, InspectBtrfs, InspectHome, At,
         Running, SameHome, Observe, HostInv, Quiet, scan
<1>3. UNCHANGED <<command, name>> /\ met \subseteq met'
  BY <1>1, <1>2 DEF report
<1>4. /\ name \in Managed /\ name \in Names /\ LifeOf(name)
      /\ op[name] = "remove" => "removal" \in met
      /\ doubt = "duplicate" => "broken" \in met
      /\ Complete(name) => "complete" \in met
      /\ ~Complete(name) \/ Copied(name) => "broken" \in met
  BY <1>2 DEF HostInv, InspectInv, Noted, LifeInv, Names
<1>5. InspectInv'
  <2>1. CASE InspectRegistration
    <3>1. /\ pc' = "mount" /\ evidence' = {"confirmed"}
          /\ claim' = record[name] \/ claim'.kind # "valid"
      BY <1>2, <2>1 DEF InspectRegistration, Observe, At, Reading, Other,
                        HostInv, InspectInv
    <3>. QED  BY <1>2, <1>3, <1>4, <3>1 DEF InspectInv, Checked, life
  <2>2. CASE InspectMount
    <3>1. /\ ~Checked' /\ UNCHANGED claim /\ pc # "registration"
          /\ "not-satisfied" \in evidence' => "not-satisfied" \in evidence
      BY <2>2 DEF InspectMount, Observe, At, Unknown, Checked
    <3>. QED  BY <1>2, <1>3, <1>4, <3>1 DEF HostInv, InspectInv, life
  <2>3. CASE InspectBtrfs
    <3>1. /\ ~Checked' /\ UNCHANGED claim /\ pc # "registration"
          /\ \/ "not-satisfied" \in evidence' => "not-satisfied" \in evidence
             \/ home[name].uuid # claim.uuid
      BY <2>3 DEF InspectBtrfs, Observe, At, Unknown, Checked, SameStorage, If
    <3>2. home[name].uuid # claim.uuid /\ record[name] = claim =>
              ~Complete(name)
      BY DEF Complete, Whole, Valid
    <3>. QED  BY <1>2, <1>3, <1>4, <3>1, <3>2 DEF HostInv, InspectInv, life
  <2>4. CASE InspectHome
    <3>1. /\ pc' = "list" /\ UNCHANGED claim /\ claim.kind = "valid"
          /\ pc = "home"
      BY <2>4 DEF InspectHome, SameHome, Observe, At
    <3>2. "not-satisfied" \in evidence' => "not-satisfied" \in evidence
                                             \/ ~Complete(name)
      BY <2>4 DEF InspectHome, SameHome, Observe, If, Complete, Whole, NoHome
    <3>3. evidence' \subseteq {"confirmed"} =>
              home[name] # NoHome /\ home[name].owned /\ home[name].private
      BY <2>4 DEF InspectHome, SameHome, Observe, If
    <3>4. evidence' \subseteq {"confirmed"} =>
              met \cap {"complete", "removal"} # {} \/ op[name] = "create"
      BY <1>2, <1>4, <3>1, <3>3
         DEF HostInv, InspectInv, LifeOf, Complete, Whole, Absent, Other
    <3>. QED  BY <1>2, <1>3, <1>4, <3>1, <3>2, <3>4
              DEF HostInv, InspectInv, life, Checked
  <2>. QED  BY <2>1, <2>2, <2>3, <2>4
<1>6. ScanInv' /\ PlanInv' /\ CheckInv'
  BY <1>2, <1>3 DEF ScanInv, PlanInv, CheckInv, Searches
<1>7. VerdictsTrue'
  BY <1>2, NoVerdict DEF ReadyForTrial
<1>. QED  BY <1>1, <1>5, <1>6, <1>7 DEF HostInv

(* The uniqueness scan *)
LEMMA ScanStep ==
    ASSUME HostInv, HostNext, UNCHANGED life,
           ScanList \/ ScanRead \/ ScanConclude \/ ScanRelist
    PROVE  HostInv'
<1>1. /\ LifeInv' /\ Quiet' /\ HostTypeOK' /\ Noted'
      /\ Running /\ Running' => UNCHANGED report /\ met \subseteq met'
  BY StandStill DEF Command, Inspect
<1>2. /\ command = "inspect" /\ Running /\ verdict = "none"
      /\ Running' /\ UNCHANGED <<verdict, claim>> /\ Checked /\ Checked'
      /\ evidence \subseteq evidence' /\ pc' # "registration"
  BY DEF ScanList, ScanRead, ScanConclude, ScanRelist, At, Running, Checked,
         Observe, HostInv, Quiet
<1>3. UNCHANGED <<command, name>> /\ met \subseteq met'
  BY <1>1, <1>2 DEF report
<1>4. /\ name \in Managed
      /\ claim.kind = "valid" /\ claim = Valid(claim.uuid)
      /\ record[name] = claim \/ "broken" \in met
      /\ ~Complete(name) \/ Copied(name) => "broken" \in met
      /\ InspectInv /\ ScanInv
  BY <1>2 DEF HostInv, InspectInv, Noted, HostTypeOK, Records, Valid, Other,
              OtherKinds
<1>5. \A n \in Names \ {name} : record[n] = claim => "broken" \in met
  BY <1>4 DEF Complete, Whole, Copied, Valid
<1>6. ASSUME doubt' = "duplicate" => "broken" \in met,
             "not-satisfied" \in evidence' => "broken" \in met
      PROVE  InspectInv'
  BY <1>2, <1>3, <1>4, <1>6 DEF InspectInv, life
<1>7. PlanInv' /\ CheckInv'
  BY <1>2, <1>3 DEF PlanInv, CheckInv, Searches
<1>8. VerdictsTrue'
  BY <1>2, NoVerdict DEF ReadyForTrial
<1>9. pc' \in {"read", "relist"} =>
          \A n \in listed : n \in rewritten => n \in rewritten'
  BY NoteStep DEF HostInv
<1>10. CASE ScanList
  <2>1. /\ doubt' = "none" \/ UNCHANGED doubt
        /\ "not-satisfied" \in evidence' => "not-satisfied" \in evidence
        /\ \/ /\ pc' = "read" /\ listed' \subseteq unread' \cup {name}
              /\ name \notin unread'
           \/ pc' = "marker"
    BY <1>10 DEF ScanList, Observe, scan
  <2>2. InspectInv'
    BY <1>2, <1>4, <1>6, <2>1 DEF InspectInv
  <2>3. ScanInv'
    BY <1>3, <2>1 DEF ScanInv
  <2>. QED  BY <1>1, <1>7, <1>8, <2>2, <2>3 DEF HostInv
<1>11. CASE ScanRead
  <2>1. PICK n \in unread :
            /\ \E r \in Reading(n) : doubt' = Told(r)
            /\ unread' = unread \ {n}
    BY <1>11 DEF ScanRead
  <2>2. PICK r \in {record[n], Other("unavailable")} : doubt' = Told(r)
    BY <2>1 DEF Reading
  <2>3. /\ pc = "read" /\ pc' = "read" /\ UNCHANGED listed
        /\ evidence' = evidence
    BY <1>11 DEF ScanRead, Observe, At
  <2>4. n \in listed /\ n \in Names
    BY <2>1 DEF HostInv, HostTypeOK
  <2>5. doubt' = "duplicate" => doubt = "duplicate" \/ record[n] = claim
    <3>1. record[n] \in Records
      BY <2>4 DEF HostInv, LifeInv, LifeTypeOK
    <3>2. record[n].kind = "valid" => record[n] = Valid(record[n].uuid)
      BY <3>1 DEF Records, Valid, Other, OtherKinds
    <3>. QED  BY <1>4, <2>2, <3>2 DEF Told, Other
  <2>6. doubt' = "none" => doubt = "none" /\ record[n] # Valid(claim.uuid)
    BY <2>2 DEF Told, Other, Valid
  <2>7. doubt' = "duplicate" => "broken" \in met
    <3>1. name \notin unread
      BY <1>2, <2>3 DEF HostInv, ScanInv
    <3>. QED  BY <1>2, <1>4, <1>5, <2>1, <2>4, <2>5, <3>1 DEF InspectInv
  <2>8. InspectInv'
    BY <1>2, <1>4, <1>6, <2>3, <2>7 DEF InspectInv
  <2>9. ScanInv'
    BY <1>2, <1>3, <1>4, <1>9, <2>1, <2>3, <2>6 DEF ScanInv, life
  <2>. QED  BY <1>1, <1>7, <1>8, <2>8, <2>9 DEF HostInv
<1>12. CASE ScanConclude
  <2>1. /\ UNCHANGED <<listed, unread, doubt>> /\ pc = "read" /\ unread = {}
        /\ "not-satisfied" \in evidence' => "not-satisfied" \in evidence
                                              \/ doubt = "duplicate"
        /\ pc' = "marker" \/ (pc' = "relist" /\ doubt = "none")
    BY <1>12 DEF ScanConclude, Observe, At, scan
  <2>2. InspectInv'
    BY <1>2, <1>4, <1>6, <2>1 DEF InspectInv
  <2>3. ScanInv'
    BY <1>2, <1>3, <1>4, <1>9, <2>1 DEF ScanInv, life
  <2>. QED  BY <1>1, <1>7, <1>8, <2>2, <2>3 DEF HostInv
<1>13. CASE ScanRelist
  <2>1. /\ doubt' \in {"unique", "uncertain"} /\ pc' = "marker"
        /\ "not-satisfied" \in evidence' => "not-satisfied" \in evidence
    BY <1>13 DEF ScanRelist, Observe
  <2>2. InspectInv'
    BY <1>2, <1>4, <1>6, <2>1 DEF InspectInv
  <2>3. ScanInv'
    BY <2>1 DEF ScanInv
  <2>. QED  BY <1>1, <1>7, <1>8, <2>2, <2>3 DEF HostInv
<1>. QED  BY <1>10, <1>11, <1>12, <1>13

LEMMA EndStep ==
    ASSUME HostInv, HostNext, UNCHANGED life, End
    PROVE  HostInv'
<1>1. LifeInv' /\ Quiet' /\ HostTypeOK' /\ Noted'
  BY StandStill DEF Command
<1>2. ~Running' /\ verdict' = "none"
  BY DEF End, Running
<1>. QED  BY <1>1, <1>2, NotRunning, NoVerdict DEF HostInv, ReadyForTrial

LEMMA HostInitOk == HostInit => HostInv
<1> SUFFICES ASSUME HostInit PROVE HostInv
  OBVIOUS
<1>1. LifeInv
  BY LifeInitOk DEF HostInit
<1>2. HostTypeOK
  BY <1>1, TrialAssumption, HomeTypes
     DEF HostInit, HostTypeOK, LifeInv, Commands, Stages, Names, Doubts,
         Verdicts, ReadyForTrial
<1>. QED  BY <1>1, <1>2
          DEF HostInit, HostInv, Noted, Quiet, InspectInv, ScanInv, PlanInv,
              CheckInv, Running, VerdictsTrue, ConsistentWasComplete,
              IncompleteWasBroken, ReadyWasIdle, FreeWasFree, ReadyForTrial

LEMMA HostStep == HostInv /\ [HostNext]_vars => HostInv'
<1> SUFFICES ASSUME HostInv, [HostNext]_vars PROVE HostInv'
  OBVIOUS
<1>1. CASE HostNext
  <2>1. CASE Waiting
    BY <1>1, <2>1, WaitingStep
  <2>2. CASE Command /\ UNCHANGED life
    <3>1. CASE Inspect
      BY <1>1, <2>2, <3>1, StartStep, InspectReports, InspectObserves, ScanStep
         DEF Inspect
    <3>2. CASE RemovalPlan
      BY <1>1, <2>2, <3>2, StartStep, PlanStep DEF RemovalPlan
    <3>3. CASE HostCheck
      BY <1>1, <2>2, <3>3, StartStep, CheckStep DEF HostCheck
    <3>4. CASE End
      BY <1>1, <2>2, <3>4, EndStep
    <3>5. CASE Validate
      BY <1>1, <2>2, <3>5, StartStep, ValidateStep DEF Validate
    <3>6. CASE PlanCreation
      BY <1>1, <2>2, <3>6, StartStep, ValidateStep DEF PlanCreation
    <3>7. CASE Glance
      BY <1>1, <2>2, <3>7, StartStep, GlanceStep DEF Glance
    <3>. QED  BY <2>2, <3>1, <3>2, <3>3, <3>4, <3>5, <3>6, <3>7 DEF Command
  <2>. QED  BY <1>1, <2>1, <2>2 DEF HostNext, Waiting
<1>2. CASE UNCHANGED vars
  <2> USE <1>2 DEF vars, life, report, scan, HostInv
  <2>1. LifeInv' /\ HostTypeOK' /\ Quiet'
    BY DEF LifeInv, LifeOf, LifeTypeOK, Free, HostTypeOK, Quiet
  <2>2. Noted'
    BY DEF Noted, Running, Complete, Whole, Copied, Canonical, Free
  <2>3. InspectInv' /\ ScanInv'
    BY DEF InspectInv, ScanInv, Running, Checked
  <2>4. PlanInv' /\ CheckInv'
    BY DEF PlanInv, CheckInv, Running
  <2>5. VerdictsTrue'
    BY DEF VerdictsTrue, ConsistentWasComplete, IncompleteWasBroken,
           ReadyWasIdle, FreeWasFree
  <2>. QED  BY <2>1, <2>2, <2>3, <2>4, <2>5
<1>. QED  BY <1>1, <1>2

LEMMA HostInvariant == HostSpec => []HostInv
  BY HostInitOk, HostStep, PTL DEF HostSpec

(* The host and the commands keep to their types. *)
THEOREM HostTypeCorrect == HostSpec => []HostTypeOK
<1>1. HostInv => HostTypeOK
  BY DEF HostInv
<1>. QED  BY <1>1, HostInvariant, PTL

(* Of any Environment, on a host with any number of them, inspect reports   *)
(* consistent only what was complete, or was about to be removed, while    *)
(* the command ran.                                                        *)
THEOREM ConsistentHolds == HostSpec => []ConsistentWasComplete
<1>1. HostInv => ConsistentWasComplete
  BY DEF HostInv, VerdictsTrue
<1>. QED  BY <1>1, HostInvariant, PTL

(* Inspect reports incomplete, and list inconsistent, only what was broken *)
(* while it ran.                                                           *)
THEOREM IncompleteHolds == HostSpec => []IncompleteWasBroken
<1>1. HostInv => IncompleteWasBroken
  BY DEF HostInv, VerdictsTrue
<1>. QED  BY <1>1, HostInvariant, PTL

(* The removal plan and validate find no obstacle only where nobody was    *)
(* active at some moment of the command.                                   *)
THEOREM ReadyHolds == HostSpec => []ReadyWasIdle
<1>1. HostInv => ReadyWasIdle
  BY DEF HostInv, VerdictsTrue
<1>. QED  BY <1>1, HostInvariant, PTL

(* Host check and doctor call the host ready only when nothing of the      *)
(* trial or of the experiment existed at some moment of the command, and   *)
(* no command calls it ready but on the host's own authority.              *)
THEOREM FreeHolds == HostSpec => []FreeWasFree
<1>1. HostInv => FreeWasFree
  BY DEF HostInv, VerdictsTrue
<1>. QED  BY <1>1, HostInvariant, PTL

(* A storage identity the scan confirms as unique is claimed by no other   *)
(* registration but those written over during the scan.                    *)
THEOREM UniquenessTrue == HostSpec => UniquenessHeld
<1> DEFINE Held ==
      doubt # "unique" /\ doubt' = "unique" =>
          \A n \in Names \ {name} :
              record[n] = Valid(claim.uuid) => n \in rewritten
<1>1. ASSUME HostInv, HostNext
      PROVE  Held
  <2>1. CASE ScanRelist
    <3>1. doubt' = "unique" => Entries = listed
      BY <2>1 DEF ScanRelist
    <3>2. command = "inspect" /\ pc = "relist"
      BY <2>1 DEF ScanRelist, At
    <3>3. \A n \in Names : record[n] = Valid(claim.uuid) => n \in Entries
      BY DEF Entries, Valid, Absent, Other
    <3>. QED  BY <1>1, <3>1, <3>2, <3>3 DEF HostInv, ScanInv
  <2>2. CASE ScanRead
    <3>1. PICK r : doubt' = Told(r)
      BY <2>2 DEF ScanRead
    <3>. QED  BY <3>1 DEF Told
  <2>3. CASE ~ScanRelist /\ ~ScanRead /\ Inspect
    <3>1. CASE \E n \in Names : StartInspect(n)
      BY <3>1 DEF StartInspect, Start, scan
    <3>2. CASE ~\E n \in Names : StartInspect(n)
      BY <2>3, <3>2
         DEF Inspect, InspectRegistration, InspectMount, InspectBtrfs,
             InspectUnregistered, InspectHome, ScanList, ScanConclude,
             InspectMarker, Report, scan
    <3>. QED  BY <3>1, <3>2
  <2>4. CASE RemovalPlan
    BY <2>4 DEF RemovalPlan, StartRemovalPlan, PlanSessions, PlanRegistration,
                PlanHome, PlanNothing, PlanContents, PlanProcesses, Start,
                Report, scan
  <2>5. CASE HostCheck
    BY <2>5 DEF HostCheck, StartHostCheck, StartDoctor, StartSearch,
                CheckRegistration, CheckMarker, CheckHome, DoctorHome,
                DoctorTools, Start, Report, scan
  <2>6. CASE End
    BY <2>6 DEF End, scan
  <2>7. CASE UNCHANGED scan
    BY <2>7 DEF scan
  <2>8. CASE Validate \/ PlanCreation
    BY <2>8 DEF Validate, StartValidate, ValidateSessions, ValidateHome,
                ValidateProcesses, ValidateContents, PlanCreation, StartCreate,
                CreateHome, CreateMount, Start, Report, scan
  <2>9. CASE Glance
    BY <2>9 DEF Glance, StartList, ListHome, StartSnapshot, SnapshotTools,
                Start, Report, scan
  <2>. QED  BY <1>1, <2>1, <2>2, <2>3, <2>4, <2>5, <2>6, <2>7, <2>8, <2>9
            DEF HostNext, Command
<1>2. HostInv /\ [HostNext]_vars => [Held]_vars
  BY <1>1
<1>. QED  BY <1>2, HostInvariant, PTL DEF HostSpec, UniquenessHeld
-----------------------------------------------------------------------------
(* Creation, rollback and removal implement TracedEnvironment.             *)

(* What the host holds of the trial, as TracedEnvironment sees it          *)
TrialView == <<Trial \in marker, RegisteredAs(Trial), PartsOf(Trial),
               IdentityOf(Trial)>>

LEMMA SameTrial ==
    ASSUME UNCHANGED TrialView, UNCHANGED spent
    PROVE  UNCHANGED Traced!vars
  BY DEF Traced!vars, TrialView

(* A step about another name gives at most an identity to it. *)
LEMMA OtherStep ==
    ASSUME LifeInv, NEW n \in Names \ {Trial},
           Creation(n) \/ Removal(n) \/ People(n)
    PROVE  [Traced!Next]_(Traced!vars)
<1>1. Trial \in Names /\ Kept(Trial)
  BY LifeFrame, TrialAssumption DEF Names
<1>2. (Trial \in marker') = (Trial \in marker)
  BY <1>1 DEF Kept
<1>3. /\ RegisteredAs(Trial)' = RegisteredAs(Trial)
      /\ PartsOf(Trial)' = PartsOf(Trial)
      /\ IdentityOf(Trial)' = IdentityOf(Trial)
  BY <1>1 DEF Kept, RegisteredAs, PartsOf, IdentityOf, NoHome
<1>4. CASE CreateSubvolume(n)
  <2>1. PICK u \in Uuids \ spent : spent' = spent \cup {u}
    BY <1>4 DEF CreateSubvolume
  <2>2. Traced!Give
    BY <1>2, <1>3, <2>1 DEF Traced!Give
  <2>. QED  BY <2>2 DEF Traced!Next
<1>5. CASE ~CreateSubvolume(n)
  <2>1. spent' = spent
    BY <1>5 DEF Creation, Removal, People, Reserve, CreateAccount,
                SetHomeOwnership, SetHomePermissions, WriteRegistration,
                CompleteOperation, BeginRollback, RollbackAccount,
                RollbackHome, RollbackMarker, Undo, RemoveAccount, RemoveHome,
                RemoveMetadata, VerifyAbsence, Login, Logout, Exit, Tamper,
                Scribble
  <2>. QED  BY <1>2, <1>3, <2>1, SameTrial DEF TrialView
<1>. QED  BY <1>4, <1>5

(* A step about the trial is one of those of TracedEnvironment or changes  *)
(* nothing of what the host holds of it.                                   *)
LEMMA TrialStep ==
    ASSUME LifeInv, Creation(Trial) \/ Removal(Trial) \/ People(Trial)
    PROVE  [Traced!Next]_(Traced!vars)
<1>1. /\ Trial \in Managed /\ Trial \in Names
      /\ LifeTypeOK /\ LifeOf(Trial)
  BY TrialAssumption DEF LifeInv, Names
<1>. DEFINE Same == UNCHANGED <<marker, account, home, record, spent>>
            Implemented == [Traced!Next]_(Traced!vars)
<1>2. Same => Implemented
  BY SameTrial DEF TrialView, RegisteredAs, PartsOf, IdentityOf
<1>3. \A u : Valid(u).kind = "valid" /\ Valid(u).uuid = u
  BY DEF Valid
<1>4. Absent.kind # "valid"
  BY DEF Absent, Other
<1> USE <1>1 DEF LifeTypeOK, RegisteredAs, PartsOf, IdentityOf
<1>5. CASE Reserve(Trial)
  <2>1. /\ Trial \notin marker /\ Trial \in marker'
        /\ Trial \notin account /\ home[Trial] = NoHome
        /\ record[Trial] = Absent
        /\ UNCHANGED <<account, home, record, spent>>
    BY <1>5 DEF Reserve, Free
  <2>2. Traced!Note
    BY <1>4, <2>1 DEF Traced!Note
  <2>. QED  BY <2>2 DEF Traced!Next
<1>6. CASE CreateSubvolume(Trial)
  <2>1. PICK u \in Uuids \ spent :
            /\ home' = [home EXCEPT ![Trial].uuid = u]
            /\ spent' = spent \cup {u}
    BY <1>6 DEF CreateSubvolume
  <2>2. home'[Trial].uuid = u /\ home'[Trial] # NoHome
    BY <2>1, UuidAssumption DEF Homes, NoHome
  <2>3. /\ op[Trial] = "create" /\ home[Trial] = NoHome
        /\ UNCHANGED <<marker, account, record>>
    BY <1>6 DEF CreateSubvolume, Creating
  <2>4. Trial \in marker /\ record[Trial] = Absent
    BY <2>3 DEF LifeOf
  <2>5. Traced!AddHome
    BY <1>4, <2>1, <2>2, <2>3, <2>4 DEF Traced!AddHome
  <2>. QED  BY <2>5 DEF Traced!Next
<1>7. CASE CreateAccount(Trial)
  <2>1. /\ op[Trial] = "create" /\ Trial \notin account
        /\ account' = account \cup {Trial}
        /\ UNCHANGED <<marker, home, record, spent>>
    BY <1>7 DEF CreateAccount, Creating
  <2>2. Trial \in marker /\ record[Trial] = Absent
    BY <2>1 DEF LifeOf
  <2>3. Traced!AddAccount
    BY <1>4, <2>1, <2>2 DEF Traced!AddAccount
  <2>. QED  BY <2>3 DEF Traced!Next
<1>8. CASE SetHomeOwnership(Trial) \/ SetHomePermissions(Trial) \/ Tamper(Trial)
  <2>1. /\ home[Trial] # NoHome
        /\ UNCHANGED <<marker, account, record, spent>>
    BY <1>8 DEF SetHomeOwnership, SetHomePermissions, Tamper, Creating, LifeOf,
                NoHome
  <2>2. home'[Trial].uuid = home[Trial].uuid /\ home[Trial].uuid # NoUuid
    BY <1>8, <2>1 DEF SetHomeOwnership, SetHomePermissions, Tamper, Homes,
                      LifeOf
  <2>3. home'[Trial] # NoHome
    BY <2>2 DEF NoHome
  <2>4. UNCHANGED TrialView
    BY <2>1, <2>2, <2>3 DEF TrialView
  <2>. QED  BY <2>1, <2>4, SameTrial
<1>9. CASE WriteRegistration(Trial)
  <2>1. /\ op[Trial] = "create" /\ Trial \in account /\ home[Trial] # NoHome
        /\ record[Trial] = Absent /\ record'[Trial] = Valid(home[Trial].uuid)
        /\ UNCHANGED <<marker, account, home, spent>>
    BY <1>9 DEF WriteRegistration, Creating, Canonical, NoHome
  <2>2. Trial \in marker
    BY <2>1 DEF LifeOf
  <2>3. Traced!Register
    BY <1>3, <1>4, <2>1, <2>2 DEF Traced!Register, Traced!Parts
  <2>. QED  BY <2>3 DEF Traced!Next
<1>10. CASE CompleteOperation(Trial)
  <2>1. /\ op[Trial] = "create" /\ Trial \in account
        /\ home[Trial].uuid # NoUuid /\ record[Trial] = Valid(home[Trial].uuid)
        /\ marker' = marker \ {Trial}
        /\ UNCHANGED <<account, home, record, spent>>
    BY <1>10 DEF CompleteOperation, Creating, Whole
  <2>2. Trial \in marker /\ home[Trial] # NoHome
    BY <2>1 DEF LifeOf, NoHome
  <2>3. Traced!Settle
    BY <1>3, <2>1, <2>2 DEF Traced!Settle, Traced!Parts
  <2>. QED  BY <2>3 DEF Traced!Next
<1>11. CASE RollbackAccount(Trial) \/ RemoveAccount(Trial)
  <2>1. /\ Trial \in account /\ account' = account \ {Trial}
        /\ UNCHANGED <<marker, home, record, spent>>
    BY <1>11 DEF RollbackAccount, RemoveAccount, Undo
  <2>2. Traced!TakeAccount
    BY <2>1 DEF Traced!TakeAccount
  <2>. QED  BY <2>2 DEF Traced!Next
<1>12. CASE RollbackHome(Trial) \/ RemoveHome(Trial)
  <2>1. /\ home[Trial] # NoHome /\ home'[Trial] = NoHome
        /\ UNCHANGED <<marker, account, record, spent>>
    BY <1>12 DEF RollbackHome, RemoveHome, Undo
  <2>2. Traced!TakeHome
    BY <2>1 DEF Traced!TakeHome
  <2>. QED  BY <2>2 DEF Traced!Next
<1>13. CASE RollbackMarker(Trial)
  <2>1. /\ op[Trial] = "rollback" /\ marker' = marker \ {Trial}
        /\ Trial \notin account /\ home[Trial] = NoHome
        /\ UNCHANGED <<account, home, record, spent>>
    BY <1>13 DEF RollbackMarker, Undo
  <2>2. Trial \in marker
    BY <2>1 DEF LifeOf
  <2>3. Traced!Unnote
    BY <2>1, <2>2 DEF Traced!Unnote
  <2>. QED  BY <2>3 DEF Traced!Next
<1>14. CASE RemoveMetadata(Trial)
  <2>1. /\ Trial \notin account /\ home[Trial] = NoHome
        /\ UNCHANGED <<account, home, spent>>
    BY <1>14 DEF RemoveMetadata, LifeOf
  <2>2. CASE Trial \in marker /\ marker' = marker \ {Trial} /\ UNCHANGED record
    <3>1. Traced!Unnote
      BY <2>1, <2>2 DEF Traced!Unnote
    <3>. QED  BY <3>1 DEF Traced!Next
  <2>3. CASE record'[Trial] = Absent /\ UNCHANGED marker
    <3>1. RegisteredAs(Trial)' = {}
      BY <1>4, <2>3
    <3>2. CASE RegisteredAs(Trial) = {}
      BY <2>1, <2>3, <3>1, <3>2, SameTrial DEF TrialView
    <3>3. CASE RegisteredAs(Trial) # {}
      <4>1. Traced!Unregister
        BY <2>1, <2>3, <3>1, <3>3 DEF Traced!Unregister
      <4>. QED  BY <4>1 DEF Traced!Next
    <3>. QED  BY <3>2, <3>3
  <2>. QED  BY <1>14, <2>2, <2>3 DEF RemoveMetadata
<1>15. CASE BeginRollback(Trial) \/ VerifyAbsence(Trial) \/ Login(Trial)
              \/ Logout(Trial) \/ Exit(Trial)
  <2>1. Same
    BY <1>15 DEF BeginRollback, Undo, VerifyAbsence, Login, Logout, Exit
  <2>. QED  BY <2>1, <1>2
<1>16. CASE Scribble(Trial)
  BY <1>16, NamesAssumption DEF Scribble
<1>. QED  BY <1>5, <1>6, <1>7, <1>8, <1>9, <1>10, <1>11, <1>12, <1>13, <1>14,
             <1>15, <1>16 DEF Creation, Removal, People

(* Creation, rollback and removal, carried out as planned and stopping     *)
(* wherever, leave no account and no home without a marker or registration *)
(* that tells of it, register an Environment only as a whole, under an     *)
(* identity no other ever had, and take the registration away last.        *)
THEOREM PlansKeepTraceHolds == HostSpec => PlansKeepTrace
<1>1. HostInit => Traced!Init
  <2>. SUFFICES ASSUME HostInit PROVE Traced!Init
    OBVIOUS
  <2>1. Trial \in Names /\ LifeInit
    BY TrialAssumption DEF Names, HostInit
  <2>. QED  BY <2>1 DEF LifeInit, Traced!Init, RegisteredAs, PartsOf,
                        IdentityOf, Absent, Other
<1>2. HostInv /\ [HostNext]_vars => [Traced!Next]_(Traced!vars)
  <2>. SUFFICES ASSUME HostInv, [HostNext]_vars
                PROVE  [Traced!Next]_(Traced!vars)
    OBVIOUS
  <2>1. CASE LifeNext
    <3>1. PICK n \in Names : Creation(n) \/ Removal(n) \/ People(n)
      BY <2>1 DEF LifeNext
    <3>2. CASE n = Trial
      BY <3>1, <3>2, TrialStep DEF HostInv
    <3>3. CASE n # Trial
      BY <3>1, <3>3, OtherStep DEF HostInv
    <3>. QED  BY <3>2, <3>3
  <2>2. CASE UNCHANGED life
    BY <2>2, SameTrial DEF life, TrialView, RegisteredAs, PartsOf, IdentityOf
  <2>. QED  BY <2>1, <2>2 DEF HostNext, vars
<1>. QED  BY <1>1, <1>2, HostInvariant, PTL
          DEF HostSpec, PlansKeepTrace, Traced!Spec
=============================================================================
