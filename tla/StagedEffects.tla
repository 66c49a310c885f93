---------------------------- MODULE StagedEffects ----------------------------
(***************************************************************************)
(* What a step journal promises, without processes that drive the          *)
(* operation, records they hold or a store: the effects of a plan are      *)
(* approved, prepared, begun and recorded one after another, each before   *)
(* the next; an approval is given when the next effect needs it and kept;  *)
(* an operation is complete when its last effect is recorded and otherwise *)
(* given up, and then nothing is approved, prepared or recorded any more.  *)
(* Only an effect prepared before may still begin after that, once.        *)
(***************************************************************************)
EXTENDS Naturals

CONSTANTS
    Kinds,      \* kinds of operations
    NoKind,     \* there is none yet
    EffectsOf,  \* how many effects the plan of each kind has
    Released    \* the kind whose outcome is put into a catalogue

VARIABLES
    kind,       \* of the operation
    granted,    \* effects with the approval they need
    prepared,   \* the next effect is prepared
    begun,      \* effects begun against the host
    recorded,   \* effects recorded as performed
    outcome,    \* "open", "complete" or "given-up"
    listed      \* the outcome is in the catalogue

vars == <<kind, granted, prepared, begun, recorded, outcome, listed>>

Plan == 1..EffectsOf[kind]

Init ==
    /\ kind = NoKind /\ granted = {}
    /\ ~prepared /\ begun = 0 /\ recorded = 0
    /\ outcome = "open" /\ ~listed

Open ==
    /\ kind = NoKind
    /\ kind' \in Kinds /\ granted' \in SUBSET Plan'
    /\ UNCHANGED <<prepared, begun, recorded, outcome, listed>>

(* For the effect that is next, and perhaps others, never ahead of it *)
Grant ==
    /\ kind # NoKind /\ outcome = "open" /\ ~prepared
    /\ granted' \in SUBSET Plan /\ granted \subseteq granted'
    /\ recorded + 1 \in granted' \ granted
    /\ UNCHANGED <<kind, prepared, begun, recorded, outcome, listed>>

Prepare ==
    /\ kind # NoKind /\ outcome = "open"
    /\ ~prepared /\ prepared'
    /\ recorded + 1 \in granted
    /\ UNCHANGED <<kind, granted, begun, recorded, outcome, listed>>

(* The driver that prepared the effect cannot see that it was given up *)
Begin ==
    /\ prepared /\ begun = recorded
    /\ begun' = begun + 1
    /\ UNCHANGED <<kind, granted, prepared, recorded, outcome, listed>>

Record ==
    /\ outcome = "open" /\ prepared /\ begun = recorded + 1
    /\ recorded' = begun /\ ~prepared'
    /\ \/ outcome' = "open"
       \/ outcome' = "complete" /\ recorded' = EffectsOf[kind]
    /\ UNCHANGED <<kind, granted, begun, listed>>

Complete ==
    /\ kind # NoKind /\ outcome = "open"
    /\ recorded = EffectsOf[kind]
    /\ outcome' = "complete"
    /\ UNCHANGED <<kind, granted, prepared, begun, recorded, listed>>

GiveUp ==
    /\ kind # NoKind /\ outcome = "open"
    /\ outcome' = "given-up"
    /\ UNCHANGED <<kind, granted, prepared, begun, recorded, listed>>

List ==
    /\ kind = Released /\ outcome = "complete"
    /\ listed'
    /\ UNCHANGED <<kind, granted, prepared, begun, recorded, outcome>>

Next == Open \/ Grant \/ Prepare \/ Begin \/ Record \/ Complete \/ GiveUp
        \/ List

Spec == Init /\ [][Next]_vars
=============================================================================
