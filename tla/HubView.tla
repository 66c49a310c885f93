------------------------------ MODULE HubView ------------------------------
(***************************************************************************)
(* The view model of the Hub (src/src/apx_hub.py): from summaries of the   *)
(* Environments and templates and the state of the system, which buttons   *)
(* ask for what.  Of an action only an enabled one with a request is kept, *)
(* as the kind of operation it requests and the approval it asks for;      *)
(* texts, order and the read-only actions are left out.                    *)
(***************************************************************************)

CONSTANTS
    Cards,      \* the Environments shown
    Hub         \* the one whose role is hub

ASSUME HubAssumption == Hub \in Cards

SystemStates == {"ready", "busy", "incomplete", "unavailable"}

Action(kind, class) == [kind |-> kind, class |-> class]

HubIsActive(view) == \A n \in Cards : view.card[n] = "active" <=> n = Hub

(* With the Hub not the one active Environment the system is incomplete. *)
EffectiveState(view) ==
    IF HubIsActive(view) THEN view.system ELSE "incomplete"

SystemReady(view) == EffectiveState(view) = "ready" /\ HubIsActive(view)

(* mutant of EnvironmentActions: deletion asks for a plain confirmation *)
EnvironmentActionsWeak(ready, view, n) ==
    IF ~ready THEN {}
    ELSE IF view.card[n] = "incomplete" THEN
        {Action("recover_complete", "explicit-confirmation")}
    ELSE IF view.card[n] = "inactive" /\ n # Hub THEN
        {Action("activate", "unlocked-session"),
         Action("snapshot", "explicit-confirmation"),
         Action("archive", "explicit-confirmation"),
         Action("destroy", "explicit-confirmation")}
    ELSE {}

(* mutant of EnvironmentActions: an unconfirmed card has the buttons of an *)
(* inactive one                                                            *)
EnvironmentActionsUnconfirmed(ready, view, n) ==
    IF ~ready THEN {}
    ELSE IF view.card[n] = "incomplete" THEN
        {Action("recover_complete", "explicit-confirmation")}
    ELSE IF view.card[n] \in {"inactive", "unconfirmed"} /\ n # Hub THEN
        {Action("activate", "unlocked-session"),
         Action("snapshot", "explicit-confirmation"),
         Action("archive", "explicit-confirmation"),
         Action("destroy", "strong-confirmation")}
    ELSE {}

(* The buttons on the card of n *)
EnvironmentActions(ready, view, n) ==
    IF ~ready THEN {}
    ELSE IF view.card[n] = "incomplete" THEN
        {Action("recover_complete", "explicit-confirmation")}
    ELSE IF view.card[n] = "inactive" /\ n # Hub THEN
        {Action("activate", "unlocked-session"),
         Action("snapshot", "explicit-confirmation"),
         Action("archive", "explicit-confirmation"),
         Action("destroy", "strong-confirmation")}
    ELSE {}

(* The button on a template *)
TemplateActions(ready, template) ==
    IF ready /\ template.admitted /\ template.compatible
    THEN {Action("create", "explicit-confirmation")} ELSE {}

GlobalActions(ready) ==
    IF ready THEN {Action("restore", "explicit-confirmation")}
    ELSE {}

(* What the Hub may be asked to do with n.  The name of a new Environment  *)
(* is typed in, and nothing in the view stands in the way of any name.     *)
Offered(view, templates, n) ==
    LET ready == SystemReady(view) IN
    EnvironmentActions(ready, view, n)
        \cup GlobalActions(ready)
        \cup UNION {TemplateActions(ready, t) : t \in templates}
=============================================================================
