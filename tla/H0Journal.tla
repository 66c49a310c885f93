----------------------------- MODULE H0Journal -----------------------------
(* The record of one H0 graphical experiment and its transitions           *)
(* (src/src/apx_hyprland_h0_journal.py), with the conventions of           *)
(* CleanInstallJournal.  Its approval is given when the record is made.    *)
EXTENDS Naturals

EffectCount == 10
GraphicalStartIndex == 5
GraphicalReadyCount == 7
TeardownStartIndex == 8

Terminal == {"headless-restored", "preserved-uncertain"}
Statuses == Terminal \cup
    {"approved-not-started", "effect-prepared", "preparing-graphical-lease",
     "starting-hyprland", "graphical-ready", "stopping-and-revoking"}

Record == [kind : {"h0"}, completed : 0..EffectCount, prepared : BOOLEAN,
           status : Statuses]

Progress(completed) ==
    IF completed <= GraphicalStartIndex THEN "preparing-graphical-lease"
    ELSE IF completed < GraphicalReadyCount THEN "starting-hyprland"
    ELSE IF completed < TeardownStartIndex THEN "graphical-ready"
    ELSE IF completed < EffectCount THEN "stopping-and-revoking"
    ELSE "headless-restored"

(* validate_h0_record *)
Valid(r) ==
    \/ r.status = "preserved-uncertain"
    \/ /\ r.prepared
       /\ r.completed < EffectCount
       /\ r.status = "effect-prepared"
    \/ /\ ~r.prepared
       /\ r.status = IF r.completed = 0 THEN "approved-not-started"
                                        ELSE Progress(r.completed)

New == [kind |-> "h0", completed |-> 0, prepared |-> FALSE,
        status |-> "approved-not-started"]
-----------------------------------------------------------------------------
PrepareNextEffect(r) ==
    {next \in {[r EXCEPT !.prepared = TRUE, !.status = "effect-prepared"]} :
        /\ ~r.prepared
        /\ r.status \notin Terminal
        /\ r.completed < EffectCount}

RecordEffectSuccess(r) ==
    {next \in {[r EXCEPT !.completed = @ + 1, !.prepared = FALSE,
                         !.status = Progress(r.completed + 1)]} :
        r.status = "effect-prepared" /\ r.prepared}

MarkUncertain(r) ==
    {next \in {[r EXCEPT !.status = "preserved-uncertain"]} :
        r.status \notin Terminal}

Steps(r) == PrepareNextEffect(r) \cup RecordEffectSuccess(r)
              \cup MarkUncertain(r)
-----------------------------------------------------------------------------
(* assess_h0_recovery *)
Class(r) ==
    IF r.status = "headless-restored" THEN "complete-headless-restored"
    ELSE IF r.prepared THEN "effect-outcome-unknown"
    ELSE IF r.status = "preserved-uncertain"
    THEN "preserve-and-inspect-from-recovery-vt"
    ELSE IF r.completed = 0 THEN "no-effect-recorded"
    ELSE IF r.completed <= GraphicalStartIndex THEN "partial-lease-preparation"
    ELSE IF r.completed < TeardownStartIndex
    THEN "graphical-session-may-be-active"
    ELSE "partial-teardown"

RecoveryVtRequired(r) ==
    Class(r) \notin {"complete-headless-restored", "no-effect-recorded"}
=============================================================================
