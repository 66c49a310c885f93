---------------------------- MODULE VerifiedFiles ----------------------------
(***************************************************************************)
(* What an acquisition does to its directory, without downloads, inodes,   *)
(* interruptions and resumptions: the files of a list get their names in   *)
(* the order of the list, each at once with a content its request admits,  *)
(* and keep both; there is at most one file under a temporary name, which  *)
(* is the next of the list until it has its own name; and a success is     *)
(* reported when every file has its name and nothing else is there.        *)
(***************************************************************************)
EXTENDS Naturals

CONSTANTS
    Count,      \* requests of the list
    Admitted    \* the contents that each request admits

VARIABLES
    stored,     \* the content under the name of each file, {} when none
    temporary,  \* files whose temporary name there is
    reported    \* a success has just been reported

vars == <<stored, temporary, reported>>

Files == 1..Count

Init ==
    /\ stored = [f \in Files |-> {}]
    /\ temporary = {}
    /\ ~reported

(* The next file of the list; one that has its name is not fetched again *)
Begin(f) ==
    /\ temporary = {} /\ ~reported
    /\ stored[f] = {} /\ \A g \in Files : g < f => stored[g] # {}
    /\ temporary' = {f}
    /\ UNCHANGED <<stored, reported>>

Store(f) ==
    /\ f \in temporary /\ stored[f] = {}
    /\ \E content \in Admitted[f] :
          stored' = [stored EXCEPT ![f] = {content}]
    /\ UNCHANGED <<temporary, reported>>

(* What was stored or interrupted *)
Discard(f) ==
    /\ f \in temporary
    /\ temporary' = temporary \ {f}
    /\ UNCHANGED <<stored, reported>>

Report ==
    /\ \A f \in Files : stored[f] # {}
    /\ temporary = {}
    /\ reported'
    /\ UNCHANGED <<stored, temporary>>

Return ==
    /\ ~reported'
    /\ UNCHANGED <<stored, temporary>>

Next ==
    \/ \E f \in Files : Begin(f) \/ Store(f) \/ Discard(f)
    \/ Report \/ Return

Spec == Init /\ [][Next]_vars
=============================================================================
