---------------------------- MODULE WriteAheadLog ----------------------------
(***************************************************************************)
(* What the operation journal promises, without processes, locks, files or *)
(* resources: a log of phases that only grows by one legal phase at a      *)
(* time, of which a power loss takes away at most the part not yet         *)
(* flushed, and effects that start one by one, in order, and only while    *)
(* the flushed log ends in the record that prepared them.                  *)
(***************************************************************************)
EXTENDS Integers, Sequences

CONSTANT EffectCount

VARIABLES
    log,        \* visible phases, oldest first; <<>> before creation
    flushed,    \* how many of them a power loss cannot take away
    started     \* effects started against the host, oldest first

vars == <<log, flushed, started>>

Phase(status, completed) == [status |-> status, completed |-> completed]

(***************************************************************************)
(* The phases that may follow phase p.  A success is recorded only for an  *)
(* effect that was started.                                                *)
(***************************************************************************)
Following(p) ==
    CASE p.status \in {"reserved", "executing"} ->
            {Phase("incomplete", p.completed)}
              \cup (IF p.completed < EffectCount
                    THEN {Phase("effect-prepared", p.completed)} ELSE {})
              \cup (IF p.status = "executing" /\ p.completed = EffectCount
                    THEN {Phase("verifying-final", p.completed)} ELSE {})
      [] p.status = "effect-prepared" ->
            {Phase("executing", p.completed + 1)}
      [] p.status = "verifying-final" ->
            {Phase("complete", p.completed), Phase("incomplete", p.completed)}
      [] OTHER -> {}

LastPhase == log[Len(log)]

Init ==
    /\ log = <<>>
    /\ flushed = 0
    /\ started = <<>>

Open ==
    /\ log = <<>>
    /\ log' = <<Phase("reserved", 0)>>
    /\ UNCHANGED <<flushed, started>>

Extend ==
    /\ log # <<>>
    /\ \E p \in Following(LastPhase) :
          /\ p.completed <= Len(started)
          /\ log' = Append(log, p)
    /\ UNCHANGED <<flushed, started>>

Flush ==
    /\ flushed' = Len(log)
    /\ UNCHANGED <<log, started>>

PowerLoss ==
    /\ \E n \in flushed..Len(log) :
          /\ log' = SubSeq(log, 1, n)
          /\ flushed' = n
    /\ UNCHANGED started

(* Only the effect the flushed log ends in, and only once *)
Start ==
    /\ log # <<>> /\ flushed = Len(log)
    /\ LastPhase.status = "effect-prepared"
    /\ Len(started) = LastPhase.completed
    /\ started' = Append(started, Len(started) + 1)
    /\ UNCHANGED <<log, flushed>>

Next == Open \/ Extend \/ Flush \/ PowerLoss \/ Start

Spec == Init /\ [][Next]_vars
=============================================================================
