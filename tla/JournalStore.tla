---------------------------- MODULE JournalStore ----------------------------
(***************************************************************************)
(* One operation journal kept by FixtureJournalStore in a file that        *)
(* several processes read and replace (src/src/apx_executor_journal.py),   *)
(* with process crashes, I/O errors and power loss between any two system  *)
(* calls of the store.                                                     *)
(*                                                                         *)
(* A record names its predecessor by digest (_next), so the digest of a    *)
(* record stands for the whole chain of records up to it: a stored journal *)
(* is the sequence of its records, oldest first, <<>> when the file does   *)
(* not exist, and comparing journal_digest is comparing these sequences    *)
(* (SHA-256 is taken to have no collisions).                               *)
(*                                                                         *)
(* No executor calls the store yet.  The caller modelled is the one the    *)
(* protocol prescribes: it starts an effect only after its own update that *)
(* prepared the effect returned, and records a success only after having   *)
(* started the effect itself.                                              *)
(***************************************************************************)
EXTENDS ExecutorJournal, SequencesExt

CONSTANTS
    Writers,    \* processes that use the store
    NoWriter,   \* nobody holds the lock
    MaxAhead    \* bound: records a process derives beyond its last read

ASSUME WritersAssumption == NoWriter \notin Writers
ASSUME MaxAheadAssumption == MaxAhead \in Nat \ {0}

VARIABLES
    file,       \* what a process that opens the journal file reads
    durable,    \* the file at the last successful fsync of the directory
    unsynced,   \* what the file has been since
    temp,       \* temp[w]: the temporary file named after w's pid exists
    lock,       \* holder of the flock on the journal directory
    pc,         \* where each process is in a call of the store
    base,       \* the journal each process last read or successfully wrote
    held,       \* the journal each process holds, derived from base
    ack,        \* the process's own call reported base as written
    did,        \* the process started the effect that held ends in
    started,    \* effects started against the host, oldest first
    acked       \* the longest journal any call reported as written

disk == <<file, durable, unsynced>>
storage == <<disk, temp, lock>>
memory == <<base, held, ack, did>>
ghost == <<started, acked>>
vars == <<storage, pc, memory, ghost>>

(* What the file may hold after a power loss *)
Survivors == {durable} \cup unsynced

History == Seq(StoredJournal)

PcUnlocked == {"idle", "create-lock", "update-lock"}
PcLocked == {"create-write", "create-link", "create-unlink",
             "update-compare", "update-write", "update-replace", "sync"}

Init ==
    /\ file = <<>>
    /\ durable = <<>>
    /\ unsynced = {}
    /\ temp = [w \in Writers |-> FALSE]
    /\ lock = NoWriter
    /\ pc = [w \in Writers |-> "idle"]
    /\ base = [w \in Writers |-> <<>>]
    /\ held = [w \in Writers |-> <<>>]
    /\ ack = [w \in Writers |-> FALSE]
    /\ did = [w \in Writers |-> FALSE]
    /\ started = <<>>
    /\ acked = <<>>
-----------------------------------------------------------------------------
(* What a process does between calls of the store *)

Holds(w, journal, from) ==
    /\ base' = [base EXCEPT ![w] = from]
    /\ held' = [held EXCEPT ![w] = journal]
    /\ ack' = [ack EXCEPT ![w] = FALSE]
    /\ did' = [did EXCEPT ![w] = FALSE]

(* create_journal, and the call of create with the result *)
Create(w) ==
    /\ pc[w] = "idle"
    /\ Holds(w, <<NewJournal>>, <<>>)
    /\ pc' = [pc EXCEPT ![w] = "create-lock"]
    /\ UNCHANGED <<storage, ghost>>

(* read takes no lock; the file is always one whole journal *)
Read(w) ==
    /\ pc[w] = "idle"
    /\ file # <<>>
    /\ Holds(w, file, file)
    /\ UNCHANGED <<storage, pc, ghost>>

Derive(w, candidates) ==
    /\ pc[w] = "idle"
    /\ held[w] # <<>>
    /\ Len(held[w]) < Len(base[w]) + MaxAhead
    /\ \E j \in candidates : held' = [held EXCEPT ![w] = Append(@, j)]
    /\ UNCHANGED <<storage, pc, base, ack, ghost>>

(* The operations that need no evidence from outside the journal *)
Advance(w) ==
    /\ Derive(w, LocalSuccessors(Last(held[w])))
    /\ UNCHANGED did

(* The effect outside the journal that a stored record has announced *)
StartEffect(w) ==
    /\ pc[w] = "idle"
    /\ held[w] # <<>> /\ held[w] = base[w]
    /\ ack[w] /\ ~did[w]
    /\ Last(held[w]).prepared # NoEffect
    /\ did' = [did EXCEPT ![w] = TRUE]
    /\ started' = Append(started, Last(held[w]).prepared)
    /\ UNCHANGED <<storage, pc, base, held, ack, acked>>

RecordSuccess(w) ==
    /\ did[w]
    /\ \E report \in Reports :
          Derive(w, RecordEffectSuccess(Last(held[w]), report))
    /\ did' = [did EXCEPT ![w] = FALSE]

(* mutant of Update: a journal that does not name base as its predecessor  *)
(* is accepted                                                             *)
UpdateUnbound(w) ==
    /\ pc[w] = "idle"
    /\ base[w] # <<>> /\ held[w] # base[w]
    /\ pc' = [pc EXCEPT ![w] = "update-lock"]
    /\ UNCHANGED <<storage, memory, ghost>>

(* The call of update with the digest of base as expected_previous_digest; *)
(* a journal that does not name base as its predecessor is refused.        *)
Update(w) ==
    /\ pc[w] = "idle"
    /\ base[w] # <<>> /\ held[w] # base[w]
    /\ Front(held[w]) = base[w]
    /\ pc' = [pc EXCEPT ![w] = "update-lock"]
    /\ UNCHANGED <<storage, memory, ghost>>
-----------------------------------------------------------------------------
(* The system calls of create and update, under the directory lock *)

Goto(w, label) == pc' = [pc EXCEPT ![w] = label]

(* The call raises; closing the directory gives the lock back *)
Raise(w) ==
    /\ lock' = NoWriter
    /\ Goto(w, "idle")
    /\ UNCHANGED <<disk, memory, ghost>>

Lock(w) ==
    /\ lock = NoWriter
    /\ \/ pc[w] = "create-lock" /\ Goto(w, "create-write")
       \/ pc[w] = "update-lock" /\ Goto(w, "update-compare")
    /\ lock' = w
    /\ UNCHANGED <<disk, temp, memory, ghost>>

(* mutant of Compare: last writer wins *)
CompareNothing(w) ==
    /\ pc[w] = "update-compare"
    /\ file # <<>>
    /\ Goto(w, "update-write")
    /\ UNCHANGED <<storage, memory, ghost>>

Compare(w) ==
    /\ pc[w] = "update-compare"
    /\ file = base[w]
    /\ Goto(w, "update-write")
    /\ UNCHANGED <<storage, memory, ghost>>

(* mutant of CompareFails: the exception leaves the directory open *)
CompareFailsLocked(w) ==
    /\ pc[w] = "update-compare"
    /\ file # base[w]
    /\ Goto(w, "idle")
    /\ UNCHANGED <<storage, memory, ghost>>

(* The file is missing or no longer the journal update was told to expect. *)
(* A read that fails here raises as WriteTempFails does.                    *)
CompareFails(w) ==
    /\ pc[w] = "update-compare"
    /\ file # base[w]
    /\ Raise(w)
    /\ UNCHANGED temp

WriteTemp(w) ==
    /\ ~temp[w]
    /\ \/ pc[w] = "create-write" /\ Goto(w, "create-link")
       \/ pc[w] = "update-write" /\ Goto(w, "update-replace")
    /\ temp' = [temp EXCEPT ![w] = TRUE]
    /\ UNCHANGED <<disk, lock, memory, ghost>>

(* A temporary file of that name is left over and O_EXCL refuses it, or    *)
(* writing fails and the new file is removed again                         *)
WriteTempFails(w) ==
    /\ pc[w] \in {"create-write", "update-write"}
    /\ Raise(w)
    /\ UNCHANGED temp

(* The file is visible at once under its name, durable after fsync *)
Install(journal) ==
    /\ file' = journal
    /\ unsynced' = unsynced \cup {journal}
    /\ UNCHANGED durable

Flush(journal) ==
    /\ durable' = journal
    /\ unsynced' = {}

(* mutant of Link: create replaces a journal that exists *)
LinkOver(w) ==
    /\ pc[w] = "create-link"
    /\ Install(held[w])
    /\ Goto(w, "create-unlink")
    /\ UNCHANGED <<temp, lock, memory, ghost>>

Link(w) ==
    /\ pc[w] = "create-link"
    /\ file = <<>>
    /\ Install(held[w])
    /\ Goto(w, "create-unlink")
    /\ UNCHANGED <<temp, lock, memory, ghost>>

(* os.link finds a journal under that name, or os.link or os.replace fails;  *)
(* either way the temporary file is removed                                *)
InstallFails(w) ==
    /\ pc[w] \in {"create-link", "update-replace"}
    /\ temp' = [temp EXCEPT ![w] = FALSE]
    /\ Raise(w)

Unlink(w) ==
    /\ pc[w] = "create-unlink"
    /\ temp' = [temp EXCEPT ![w] = FALSE]
    /\ Goto(w, "sync")
    /\ UNCHANGED <<disk, lock, memory, ghost>>

Replace(w) ==
    /\ pc[w] = "update-replace"
    /\ Install(held[w])
    /\ temp' = [temp EXCEPT ![w] = FALSE]
    /\ Goto(w, "sync")
    /\ UNCHANGED <<lock, memory, ghost>>

(* mutant of Sync: the call returns without fsync of the directory *)
SyncNothing(w) ==
    /\ pc[w] = "sync"
    /\ lock' = NoWriter
    /\ Goto(w, "idle")
    /\ base' = [base EXCEPT ![w] = held[w]]
    /\ ack' = [ack EXCEPT ![w] = TRUE]
    /\ acked' = held[w]
    /\ UNCHANGED <<disk, temp, held, did, started>>

(* os.fsync of the directory, after which the call returns *)
Sync(w) ==
    /\ pc[w] = "sync"
    /\ Flush(file)
    /\ lock' = NoWriter
    /\ Goto(w, "idle")
    /\ base' = [base EXCEPT ![w] = held[w]]
    /\ ack' = [ack EXCEPT ![w] = TRUE]
    /\ acked' = held[w]
    /\ UNCHANGED <<file, temp, held, did, started>>

(* The new journal is visible, but nobody is told that it is durable, when *)
(* fsync fails, and in create when the temporary file cannot be removed    *)
SyncFails(w) ==
    /\ pc[w] \in {"create-unlink", "sync"}
    /\ Raise(w)
    /\ UNCHANGED temp
-----------------------------------------------------------------------------
(* Faults *)

(* The process dies and another takes its place.  The kernel drops the     *)
(* lock; a temporary file stays, and matters only when the pid is reused.  *)
Crash(w) ==
    /\ lock' = IF lock = w THEN NoWriter ELSE lock
    /\ \E samePid \in BOOLEAN :
          temp' = [temp EXCEPT ![w] = @ /\ samePid]
    /\ Goto(w, "idle")
    /\ Holds(w, <<>>, <<>>)
    /\ UNCHANGED <<disk, ghost>>

(* The machine stops: every process is gone and the directory comes back   *)
(* in one of the states it had since the last successful fsync.            *)
PowerLoss ==
    /\ \E h \in Survivors : file' = h /\ Flush(h)
    /\ \E kept \in SUBSET Writers :
          temp' = [w \in Writers |-> temp[w] /\ w \in kept]
    /\ lock' = NoWriter
    /\ pc' = [w \in Writers |-> "idle"]
    /\ base' = [w \in Writers |-> <<>>]
    /\ held' = [w \in Writers |-> <<>>]
    /\ ack' = [w \in Writers |-> FALSE]
    /\ did' = [w \in Writers |-> FALSE]
    /\ UNCHANGED ghost
-----------------------------------------------------------------------------
Call(w) == Create(w) \/ Read(w) \/ Advance(w) \/ StartEffect(w)
             \/ RecordSuccess(w) \/ Update(w)

InLock(w) == Compare(w) \/ CompareFails(w) \/ WriteTemp(w)
               \/ WriteTempFails(w) \/ Link(w) \/ InstallFails(w) \/ Unlink(w)
               \/ Replace(w) \/ Sync(w) \/ SyncFails(w)

Next == PowerLoss \/ \E w \in Writers : Call(w) \/ Lock(w) \/ InLock(w)
                                          \/ Crash(w)

Spec == Init /\ [][Next]_vars
-----------------------------------------------------------------------------
(* All variables have their types.  In particular the file, and everything *)
(* a power loss may leave of it, is a chain of journals read accepts.      *)
TypeOK ==
    /\ file \in History
    /\ durable \in History
    /\ unsynced \in SUBSET History
    /\ temp \in [Writers -> BOOLEAN]
    /\ lock \in Writers \cup {NoWriter}
    /\ pc \in [Writers -> PcUnlocked \cup PcLocked]
    /\ base \in [Writers -> History]
    /\ held \in [Writers -> History]
    /\ ack \in [Writers -> BOOLEAN]
    /\ did \in [Writers -> BOOLEAN]
    /\ started \in Seq(1..EffectCount)
    /\ acked \in History

(* "The journal must identify that exact next effect": whatever a power    *)
(* loss leaves of the file, every effect that was ever started has a       *)
(* record that prepared it.                                                *)
WriteAhead ==
    \A h \in Survivors : \A k \in DOMAIN started :
        \E n \in DOMAIN h : h[n].prepared = started[k]

(* Over all processes, crashes and retries, each effect is started at most *)
(* once and the effects start in the order of the plan.                    *)
EffectsInOrder == \A k \in DOMAIN started : started[k] = k

(* A journal that some create or update reported as written survives every *)
(* later crash and power loss: later journals only extend it.              *)
AckedSurvives == \A h \in Survivors : IsPrefix(acked, h)

TrueOfHost(class, completed) ==
    /\ class = "no-effect" => started = <<>>
    /\ class \in {"continuation-eligible", "automatic-rollback-eligible"} =>
           Len(started) = completed
    /\ class = "none" => Len(started) = EffectCount

(* assess_recovery of whatever journal is found after a power loss tells   *)
(* the truth about the host: "no-effect" only when no effect was started,  *)
(* continuation or automatic rollback only when exactly the completed      *)
(* effects were started, "none" only when all were.                        *)
RecoverySound ==
    \A h \in Survivors :
        IF h = <<>> THEN started = <<>>
        ELSE TrueOfHost(AssessRecovery(Last(h), TRUE, TRUE), Last(h).completed)

(* Whatever way a call of the store ends, by a return, an exception at any *)
(* of its system calls or a crash, it has given the lock back; and between *)
(* the two only the holder of the lock is inside.                          *)
LockHeld == \A w \in Writers : pc[w] \in PcLocked <=> lock = w

(***************************************************************************)
(* The store implements the abstract write-ahead log: the file's records   *)
(* are the log, and what the last fsync saw of them is its flushed part.   *)
(***************************************************************************)
PhaseOf(j) == [status |-> j.status, completed |-> j.completed]

Phases(h) == [n \in 1..Len(h) |-> PhaseOf(h[n])]

Abstract == INSTANCE WriteAheadLog WITH log <- Phases(file),
                                        flushed <- Len(durable)

(* Every step of the processes is a step of the write-ahead log.           *)
ImplementsWriteAheadLog == Abstract!Spec
=============================================================================
