--------------------------- MODULE EnvironmentLife ---------------------------
(***************************************************************************)
(* The host state an Environment consists of, and how it comes and goes:   *)
(* the creation steps of src/src/apx_environment.py with their rollback    *)
(* rule, and the removal plan of src/src/apx_removal.py.  APX plans both   *)
(* and executes neither; an operator does, one step after another, and may *)
(* stop after any of them.                                                 *)
(*                                                                         *)
(* The derived identity (account and home path) is a function of the       *)
(* logical name, so everything is indexed by name.  The storage identity   *)
(* (subvolume id, UUID and parent) is one value, never used twice.         *)
(***************************************************************************)

CONSTANTS
    Managed,    \* names whose Environments are created and removed as planned
    Strays,     \* names that have no more than a registration file, which
                \* somebody copies, edits and deletes at will
    Hub,        \* the protected name
    Uuids,      \* storage identities; bounds the homes ever created
    NoUuid

ASSUME NamesAssumption == Managed \cap Strays = {}
ASSUME UuidAssumption == NoUuid \notin Uuids

VARIABLES
    op,         \* the operation on the Environment that has not ended
    marker,     \* names with an incomplete-operation record
    account,    \* names whose Linux account exists
    home,       \* the home of each name
    record,     \* what reading the registration file of each name finds
    activity,   \* sessions and processes of the account
    touched,    \* homes that are in use, not empty, or modified from outside
    spent       \* storage identities given out so far

life == <<op, marker, account, home, record, activity, touched, spent>>

Names == Managed \cup Strays

Operations == {"none", "create", "rollback", "remove"}
Activities == {"none", "session", "process"}
Homes == [uuid : Uuids \cup {NoUuid}, owned : BOOLEAN, private : BOOLEAN]
NoHome == [uuid |-> NoUuid, owned |-> FALSE, private |-> FALSE]

(* A registration that parses and belongs to its file name, and the other  *)
(* observations of a registration file; only the first has a content.      *)
Valid(u) == [kind |-> "valid", uuid |-> u]
Other(kind) == [kind |-> kind, uuid |-> NoUuid]
OtherKinds == {"absent", "malformed", "unsupported", "conflicting",
               "unavailable"}
Absent == Other("absent")
Records == {Valid(u) : u \in Uuids} \cup {Other(k) : k \in OtherKinds}

LifeInit ==
    /\ op = [n \in Names |-> "none"]
    /\ marker = {}
    /\ account = {}
    /\ home = [n \in Names |-> NoHome]
    /\ record = [n \in Names |-> Absent]
    /\ activity = [n \in Names |-> "none"]
    /\ touched = {}
    /\ spent = {}
-----------------------------------------------------------------------------
(* All that belongs to the Environment agrees, but for the marker          *)
Whole(n) ==
    /\ n \in account
    /\ home[n].owned /\ home[n].private
    /\ home[n].uuid # NoUuid /\ record[n] = Valid(home[n].uuid)

Complete(n) == Whole(n) /\ n \notin marker

Canonical(n) == n \in account /\ home[n].owned /\ home[n].private

Free(n) ==
    /\ n \notin account \cup marker
    /\ home[n] = NoHome /\ record[n] = Absent
-----------------------------------------------------------------------------
(* Creation *)

Creating(n) == n \in Managed /\ op[n] = "create"

(* Preconditions hold, and the operation is reserved *)
Reserve(n) ==
    /\ n \in Managed /\ op[n] = "none" /\ Free(n)
    /\ op' = [op EXCEPT ![n] = "create"]
    /\ marker' = marker \cup {n}
    /\ UNCHANGED <<account, home, record, activity, touched, spent>>

CreateSubvolume(n) ==
    /\ Creating(n) /\ home[n] = NoHome
    /\ \E u \in Uuids \ spent :
          /\ home' = [home EXCEPT ![n].uuid = u]
          /\ spent' = spent \cup {u}
    /\ UNCHANGED <<op, marker, account, record, activity, touched>>

CreateAccount(n) ==
    /\ Creating(n) /\ home[n] # NoHome /\ n \notin account
    /\ account' = account \cup {n}
    /\ UNCHANGED <<op, marker, home, record, activity, touched, spent>>

SetHomeOwnership(n) ==
    /\ Creating(n) /\ n \in account /\ ~home[n].owned
    /\ home' = [home EXCEPT ![n].owned = TRUE]
    /\ UNCHANGED <<op, marker, account, record, activity, touched, spent>>

SetHomePermissions(n) ==
    /\ Creating(n) /\ home[n].owned /\ ~home[n].private
    /\ home' = [home EXCEPT ![n].private = TRUE]
    /\ UNCHANGED <<op, marker, account, record, activity, touched, spent>>

(* The registration is staged, the resources are verified, and the         *)
(* registration is published as one file.                                  *)
WriteRegistration(n) ==
    /\ Creating(n) /\ Canonical(n) /\ record[n] = Absent
    /\ record' = [record EXCEPT ![n] = Valid(home[n].uuid)]
    /\ UNCHANGED <<op, marker, account, home, activity, touched, spent>>

(* The published Environment is verified, and the marker removed *)
CompleteOperation(n) ==
    /\ Creating(n) /\ Whole(n)
    /\ op' = [op EXCEPT ![n] = "none"]
    /\ marker' = marker \ {n}
    /\ UNCHANGED <<account, home, record, activity, touched, spent>>

(* A creation that failed before publication may be undone, resource by    *)
(* resource, as long as nobody has used what it made.                      *)
ClassifyRollback(n) ==
    IF n \notin touched /\ record[n] = Absent
    THEN "automatically-eligible" ELSE "preserve-incomplete"

Undo(n, from) ==
    /\ n \in Managed /\ op[n] = from
    /\ ClassifyRollback(n) = "automatically-eligible"
    /\ UNCHANGED <<record, activity, touched, spent>>

BeginRollback(n) ==
    /\ Undo(n, "create")
    /\ op' = [op EXCEPT ![n] = "rollback"]
    /\ UNCHANGED <<marker, account, home>>

RollbackAccount(n) ==
    /\ Undo(n, "rollback") /\ n \in account
    /\ account' = account \ {n}
    /\ UNCHANGED <<op, marker, home>>

RollbackHome(n) ==
    /\ Undo(n, "rollback") /\ home[n] # NoHome
    /\ home' = [home EXCEPT ![n] = NoHome]
    /\ UNCHANGED <<op, marker, account>>

RollbackMarker(n) ==
    /\ Undo(n, "rollback") /\ n \notin account /\ home[n] = NoHome
    /\ op' = [op EXCEPT ![n] = "none"]
    /\ marker' = marker \ {n}
    /\ UNCHANGED <<account, home>>

Creation(n) ==
    \/ Reserve(n) \/ CreateSubvolume(n) \/ CreateAccount(n)
    \/ SetHomeOwnership(n) \/ SetHomePermissions(n)
    \/ WriteRegistration(n) \/ CompleteOperation(n)
    \/ BeginRollback(n) \/ RollbackAccount(n) \/ RollbackHome(n)
    \/ RollbackMarker(n)
-----------------------------------------------------------------------------
(* Removal, of complete Environments and of abandoned creations *)

RemoveAccount(n) ==
    /\ n \in account /\ op[n] # "remove" /\ n # Hub
    /\ activity[n] = "none"
    /\ op' = [op EXCEPT ![n] = "remove"]
    /\ account' = account \ {n}
    /\ UNCHANGED <<marker, home, record, activity, touched, spent>>

RemoveHome(n) ==
    /\ op[n] = "remove" /\ home[n] # NoHome
    /\ home' = [home EXCEPT ![n] = NoHome]
    /\ touched' = touched \ {n}
    /\ UNCHANGED <<op, marker, account, record, activity, spent>>

(* mutant of RemoveMetadata: does not wait until the home is gone *)
RemoveMetadataEarly(n) ==
    /\ op[n] = "remove"
    /\ \/ /\ n \in marker
          /\ marker' = marker \ {n}
          /\ UNCHANGED record
       \/ /\ record[n] # Absent
          /\ record' = [record EXCEPT ![n] = Absent]
          /\ UNCHANGED marker
    /\ UNCHANGED <<op, account, home, activity, touched, spent>>

(* Registration and marker are two files *)
RemoveMetadata(n) ==
    /\ op[n] = "remove" /\ home[n] = NoHome
    /\ \/ /\ n \in marker
          /\ marker' = marker \ {n}
          /\ UNCHANGED record
       \/ /\ record[n] # Absent
          /\ record' = [record EXCEPT ![n] = Absent]
          /\ UNCHANGED marker
    /\ UNCHANGED <<op, account, home, activity, touched, spent>>

VerifyAbsence(n) ==
    /\ op[n] = "remove" /\ Free(n)
    /\ op' = [op EXCEPT ![n] = "none"]
    /\ UNCHANGED <<marker, account, home, record, activity, touched, spent>>

Removal(n) ==
    RemoveAccount(n) \/ RemoveHome(n) \/ RemoveMetadata(n) \/ VerifyAbsence(n)
-----------------------------------------------------------------------------
(* What people do *)

Login(n) ==
    /\ n \in account /\ home[n] # NoHome /\ activity[n] # "session"
    /\ activity' = [activity EXCEPT ![n] = "session"]
    /\ touched' = touched \cup {n}
    /\ UNCHANGED <<op, marker, account, home, record, spent>>

(* The session ends; some of its processes may stay *)
Logout(n) ==
    /\ activity[n] = "session"
    /\ \E a \in {"none", "process"} : activity' = [activity EXCEPT ![n] = a]
    /\ UNCHANGED <<op, marker, account, home, record, touched, spent>>

Exit(n) ==
    /\ activity[n] = "process"
    /\ activity' = [activity EXCEPT ![n] = "none"]
    /\ UNCHANGED <<op, marker, account, home, record, touched, spent>>

(* Somebody changes the owner or the mode of a home, perhaps back again *)
Tamper(n) ==
    /\ op[n] = "none" /\ home[n] # NoHome
    /\ \/ home' = [home EXCEPT ![n].owned = ~@]
       \/ home' = [home EXCEPT ![n].private = ~@]
    /\ touched' = touched \cup {n}
    /\ UNCHANGED <<op, marker, account, record, activity, spent>>

(* A stray file appears, changes or goes *)
Scribble(n) ==
    /\ n \in Strays
    /\ \E r \in Records \ {record[n]} : record' = [record EXCEPT ![n] = r]
    /\ UNCHANGED <<op, marker, account, home, activity, touched, spent>>

People(n) == Login(n) \/ Logout(n) \/ Exit(n) \/ Tamper(n) \/ Scribble(n)

LifeNext == \E n \in Names : Creation(n) \/ Removal(n) \/ People(n)

LifeSpec == LifeInit /\ [][LifeNext]_life
-----------------------------------------------------------------------------
LifeTypeOK ==
    /\ op \in [Names -> Operations]
    /\ marker \in SUBSET Names
    /\ account \in SUBSET Names
    /\ home \in [Names -> Homes]
    /\ record \in [Names -> Records]
    /\ activity \in [Names -> Activities]
    /\ touched \in SUBSET Names
    /\ spent \in SUBSET Uuids
=============================================================================
