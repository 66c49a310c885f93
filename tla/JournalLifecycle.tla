-------------------------- MODULE JournalLifecycle --------------------------
(***************************************************************************)
(* One operation journal carried through every legal sequence of the       *)
(* journal operations of src/src/apx_executor_journal.py.                  *)
(***************************************************************************)
EXTENDS ExecutorJournal

VARIABLE journal    \* the current OperationJournal

vars == <<journal>>

Init == journal = NewJournal

Prepare == journal' \in PrepareNextEffect(journal)

RecordSuccess ==
    \E report \in Reports :
        journal' \in RecordEffectSuccess(journal, report)

BeginVerification == journal' \in BeginFinalVerification(journal)

Complete == journal' \in CompleteJournal(journal)

Fail == journal' \in MarkIncomplete(journal)

Next == Prepare \/ RecordSuccess \/ BeginVerification \/ Complete \/ Fail

Spec == Init /\ [][Next]_vars
-----------------------------------------------------------------------------
(* Every reachable journal has the fields and values of OperationJournal   *)
(* and passes validate_journal, so it can be serialized and read back.     *)
TypeOK == journal \in StoredJournal

(* The recovery class mark_incomplete writes into a failed journal is the  *)
(* one any later assess_recovery of that journal returns, even when the    *)
(* approval is still valid and the gates pass again: a failed operation    *)
(* never regains a continuation.                                           *)
StableClassification ==
    journal.status = "incomplete" =>
        \A approval, gates \in BOOLEAN :
            AssessRecovery(journal, approval, gates) = journal.recovery

(* Over any step of any operation, completed effects are never forgotten,  *)
(* a recorded resource keeps an entry of the same identity, and a complete *)
(* or incomplete journal never changes again.                              *)
ForwardStep ==
    /\ journal.status \notin {"complete", "incomplete"}
    /\ journal'.completed >= journal.completed
    /\ Recorded(journal.resources) \subseteq Recorded(journal'.resources)
    /\ \A id \in Recorded(journal.resources) :
          journal'.resources[id].identity = journal.resources[id].identity
MovesForward == [][ForwardStep]_vars

(* docs/privileged-executor-protocol-v1.md, Failure Rules: failure after   *)
(* effects produces "incomplete".  Every journal that is not terminal can  *)
(* be marked incomplete by mark_incomplete.                                *)
FailureRecordable ==
    journal.status \notin {"complete", "incomplete"} =>
        MarkIncomplete(journal) # {}
=============================================================================
