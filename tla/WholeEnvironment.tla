-------------------------- MODULE WholeEnvironment --------------------------
(***************************************************************************)
(* What an Environment is to those who use it, however many steps its      *)
(* creation and removal take and wherever they stop: it is registered at   *)
(* once, with an identity given to it and to no other before, which all    *)
(* its parts have; that never changes until it is unregistered, at once;   *)
(* what is left then, or of a creation that was given up, is gone before   *)
(* another one is begun; and what is saved of it is saved of it as a       *)
(* whole, while it is registered.                                          *)
(*                                                                         *)
(* The laboratory runtime (LabRuntime) implements it.                      *)
(***************************************************************************)

CONSTANT Identities

VARIABLES
    registered, \* the identities of the parts of the registered one, {}
                \* when none is
    building,   \* the identity of the one that is being created, as a set
    remains,    \* something is left of one that is neither
    given,      \* identities given out
    copies      \* what was registered when each copy was saved

vars == <<registered, building, remains, given, copies>>

Init ==
    /\ registered = {} /\ building = {}
    /\ remains = FALSE
    /\ given = {} /\ copies = {}

Begin ==
    /\ registered = {} /\ building = {} /\ ~remains
    /\ \E i \in Identities \ given :
          building' = {i} /\ given' = given \cup {i}
    /\ UNCHANGED <<registered, remains, copies>>

(* An identity goes to something else *)
Give ==
    /\ \E i \in Identities \ given : given' = given \cup {i}
    /\ UNCHANGED <<registered, building, remains, copies>>

Publish ==
    /\ building # {}
    /\ registered' = building /\ building' = {}
    /\ UNCHANGED <<remains, given, copies>>

Abandon ==
    /\ building # {}
    /\ building' = {} /\ remains' \in BOOLEAN
    /\ UNCHANGED <<registered, given, copies>>

Unpublish ==
    /\ registered # {}
    /\ registered' = {} /\ remains' = TRUE
    /\ UNCHANGED <<building, given, copies>>

Clear ==
    /\ remains /\ ~remains'
    /\ UNCHANGED <<registered, building, given, copies>>

Save ==
    /\ registered # {}
    /\ copies' = copies \cup {registered}
    /\ UNCHANGED <<registered, building, remains, given>>

Next == Begin \/ Give \/ Publish \/ Abandon \/ Unpublish \/ Clear \/ Save

Spec == Init /\ [][Next]_vars
=============================================================================
