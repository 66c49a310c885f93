------------------------- MODULE TracedEnvironment -------------------------
(***************************************************************************)
(* What the files of the host tell of an Environment whose creation,       *)
(* rollback and removal are done part by part and may stop after any part: *)
(* account and home come only after a note that an operation is under way, *)
(* a registration is made of both, with the identity of the home, which no *)
(* other home ever had; nothing is added to a registered Environment; and  *)
(* the registration and the note go when account and home are both gone.   *)
(* So nothing of an Environment is ever on the host without a file that    *)
(* tells of it.                                                            *)
(*                                                                         *)
(* The creation and removal that the host plans (EnvironmentLife)          *)
(* implement it.                                                           *)
(***************************************************************************)

CONSTANT Identities

VARIABLES
    noted,      \* there is a note of an operation
    registered, \* the identity the registration carries, as a set
    parts,      \* which parts are there
    identity,   \* the identity of the home, as a set
    given       \* identities given to homes

vars == <<noted, registered, parts, identity, given>>

Parts == {"account", "home"}

Init ==
    /\ ~noted
    /\ registered = {} /\ parts = {} /\ identity = {} /\ given = {}

Note ==
    /\ ~noted /\ registered = {} /\ parts = {}
    /\ noted'
    /\ UNCHANGED <<registered, parts, identity, given>>

AddAccount ==
    /\ noted /\ registered = {} /\ "account" \notin parts
    /\ parts' = parts \cup {"account"}
    /\ UNCHANGED <<noted, registered, identity, given>>

AddHome ==
    /\ noted /\ registered = {} /\ "home" \notin parts
    /\ parts' = parts \cup {"home"}
    /\ \E i \in Identities \ given :
          identity' = {i} /\ given' = given \cup {i}
    /\ UNCHANGED <<noted, registered>>

(* Another Environment's home gets an identity *)
Give ==
    /\ \E i \in Identities \ given : given' = given \cup {i}
    /\ UNCHANGED <<noted, registered, parts, identity>>

Register ==
    /\ noted /\ registered = {} /\ parts = Parts
    /\ registered' = identity
    /\ UNCHANGED <<noted, parts, identity, given>>

Settle ==
    /\ noted /\ registered # {} /\ parts = Parts
    /\ ~noted'
    /\ UNCHANGED <<registered, parts, identity, given>>

TakeAccount ==
    /\ "account" \in parts
    /\ parts' = parts \ {"account"}
    /\ UNCHANGED <<noted, registered, identity, given>>

TakeHome ==
    /\ "home" \in parts
    /\ parts' = parts \ {"home"} /\ identity' = {}
    /\ UNCHANGED <<noted, registered, given>>

Unregister ==
    /\ registered # {} /\ parts = {}
    /\ registered' = {}
    /\ UNCHANGED <<noted, parts, identity, given>>

Unnote ==
    /\ noted /\ parts = {}
    /\ ~noted'
    /\ UNCHANGED <<registered, parts, identity, given>>

Next == Note \/ AddAccount \/ AddHome \/ Give \/ Register \/ Settle
          \/ TakeAccount \/ TakeHome \/ Unregister \/ Unnote

Spec == Init /\ [][Next]_vars
=============================================================================
