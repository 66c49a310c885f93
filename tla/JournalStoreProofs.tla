------------------------- MODULE JournalStoreProofs -------------------------
(***************************************************************************)
(* JournalStore for every set of processes, every plan and every set of    *)
(* observations: types, then the write-ahead rule and the survival of      *)
(* acknowledged journals, which need one inductive invariant about how the *)
(* journals in the processes' hands and on disk extend one another.        *)
(***************************************************************************)
EXTENDS JournalStore, ExecutorJournalProofs, SequenceTheorems

-----------------------------------------------------------------------------
(* Types *)

LEMMA InitTypeOK == Init => TypeOK
BY DEF Init, TypeOK, History, PcUnlocked

LEMMA NewHistory == <<NewJournal>> \in History /\ <<NewJournal>> # <<>>
BY NewJournalStored DEF History

LEMMA AppendHistory ==
    ASSUME NEW h \in History, NEW j \in StoredJournal
    PROVE  Append(h, j) \in History
BY DEF History

LEMMA LastStored ==
    ASSUME NEW h \in History, h # <<>>
    PROVE  Last(h) \in StoredJournal
BY DEF History, Last

(* Deriving a record keeps every journal in a process's hands storable. *)
LEMMA DeriveType ==
    ASSUME TypeOK, NEW w \in Writers, NEW candidates,
           held[w] # <<>> => candidates \subseteq StoredJournal,
           Derive(w, candidates)
    PROVE  held' \in [Writers -> History]
<1>1. PICK j \in candidates : held' = [held EXCEPT ![w] = Append(@, j)]
  BY DEF Derive
<1>2. j \in StoredJournal /\ held[w] \in History
  BY DEF Derive, TypeOK
<1>3. Append(held[w], j) \in History
  BY <1>2, AppendHistory
<1>. QED  BY <1>1, <1>3 DEF TypeOK

LEMMA CallType ==
    ASSUME TypeOK, NEW w \in Writers, Call(w)
    PROVE  TypeOK'
<1>. USE DEF storage, disk, memory, ghost
<1>1. CASE Create(w)
  BY <1>1, NewHistory DEF Create, Holds, TypeOK, PcUnlocked, History
<1>2. CASE Read(w)
  BY <1>2 DEF Read, Holds, TypeOK
<1>3. CASE Advance(w)
  <2>1. Derive(w, LocalSuccessors(Last(held[w])))
    BY <1>3 DEF Advance
  <2>2. held[w] # <<>> => LocalSuccessors(Last(held[w])) \subseteq StoredJournal
    BY LastStored, LocalSuccessorsStored DEF TypeOK
  <2>3. held' \in [Writers -> History]
    BY <2>1, <2>2, DeriveType
  <2>. QED  BY <1>3, <2>3 DEF Advance, Derive, TypeOK
<1>4. CASE StartEffect(w)
  <2>1. held[w] # <<>>
    BY <1>4 DEF StartEffect
  <2>. QED  BY <1>4, <2>1, LastStored
            DEF StartEffect, TypeOK, StoredJournal, Journal, NoEffect
<1>5. CASE RecordSuccess(w)
  <2>1. PICK report \in Reports :
           Derive(w, RecordEffectSuccess(Last(held[w]), report))
    BY <1>5 DEF RecordSuccess
  <2>2. held[w] # <<>> =>
           RecordEffectSuccess(Last(held[w]), report) \subseteq StoredJournal
    BY LastStored, RecordEffectSuccessStored DEF TypeOK
  <2>3. held' \in [Writers -> History]
    BY <2>1, <2>2, DeriveType
  <2>. QED  BY <1>5, <2>1, <2>3 DEF RecordSuccess, Derive, TypeOK
<1>6. CASE Update(w)
  BY <1>6 DEF Update, TypeOK, PcUnlocked
<1>. QED  BY <1>1, <1>2, <1>3, <1>4, <1>5, <1>6 DEF Call

LEMMA StoreType ==
    ASSUME TypeOK, NEW w \in Writers, Lock(w) \/ InLock(w)
    PROVE  TypeOK'
<1>. USE DEF storage, disk, memory, ghost, Goto, Raise, TypeOK,
             PcUnlocked, PcLocked
<1>1. CASE Lock(w)
  BY <1>1 DEF Lock
<1>2. CASE Compare(w) \/ CompareFails(w)
  BY <1>2 DEF Compare, CompareFails
<1>3. CASE WriteTemp(w) \/ WriteTempFails(w)
  BY <1>3 DEF WriteTemp, WriteTempFails
<1>4. CASE Link(w) \/ InstallFails(w) \/ Unlink(w)
  BY <1>4 DEF Link, InstallFails, Unlink, Install
<1>5. CASE Replace(w)
  BY <1>5 DEF Replace, Install
<1>6. CASE Sync(w)
  <2>1. held[w] \in History
    OBVIOUS
  <2>2. base' \in [Writers -> History] /\ ack' \in [Writers -> BOOLEAN]
    BY <1>6, <2>1 DEF Sync
  <2>. QED  BY <1>6, <2>1, <2>2 DEF Sync, Flush
<1>7. CASE SyncFails(w)
  BY <1>7 DEF SyncFails
<1>. QED  BY <1>1, <1>2, <1>3, <1>4, <1>5, <1>6, <1>7 DEF InLock

LEMMA FaultType ==
    ASSUME TypeOK, PowerLoss \/ \E w \in Writers : Crash(w)
    PROVE  TypeOK'
<1>1. CASE PowerLoss
  BY <1>1 DEF PowerLoss, Flush, Survivors, TypeOK, ghost, PcUnlocked, History
<1>2. ASSUME NEW w \in Writers, Crash(w)
      PROVE  TypeOK'
  BY <1>2 DEF Crash, Holds, Goto, TypeOK, disk, ghost, PcUnlocked, History
<1>. QED  BY <1>1, <1>2

LEMMA NextTypeOK == TypeOK /\ [Next]_vars => TypeOK'
<1>1. ASSUME TypeOK, UNCHANGED vars
      PROVE  TypeOK'
  BY <1>1 DEF TypeOK, vars, storage, disk, memory, ghost
<1>. QED  BY <1>1, CallType, StoreType, FaultType DEF Next

(* Whatever the processes and faults do, the file, all a power loss may    *)
(* leave of it and all journals in hand are chains of valid records.       *)
THEOREM TypeCorrect == Spec => []TypeOK
<1>. QED  BY InitTypeOK, NextTypeOK, PTL DEF Spec
-----------------------------------------------------------------------------
(* Chains of records *)

LEMMA PrefixReflexive ==
    ASSUME NEW h \in History
    PROVE  IsPrefix(h, h)
BY DEF IsPrefix, History

LEMMA PrefixTransitive ==
    ASSUME NEW f \in History, NEW g \in History, NEW h \in History,
           IsPrefix(f, g), IsPrefix(g, h)
    PROVE  IsPrefix(f, h)
BY DEF IsPrefix, History

LEMMA PrefixFront ==
    ASSUME NEW h \in History, h # <<>>
    PROVE  IsPrefix(Front(h), h)
BY DEF IsPrefix, Front, History

LEMMA EmptyHistory == <<>> \in History /\ Front(<<>>) = <<>>
BY DEF History, Front

LEMMA PrefixOfEmpty ==
    ASSUME NEW h \in History, IsPrefix(h, <<>>)
    PROVE  h = <<>>
BY DEF IsPrefix, History

LEMMA PrefixRecord ==
    ASSUME NEW g \in History, NEW h \in History, IsPrefix(g, h),
           NEW n \in DOMAIN g
    PROVE  n \in DOMAIN h /\ h[n] = g[n]
BY DEF IsPrefix, History
-----------------------------------------------------------------------------
(***************************************************************************)
(* The inductive invariant.  WriteAhead is not inductive: that an effect   *)
(* is announced in every survivor follows from the caller holding a        *)
(* journal that its own call reported as written, from every reported      *)
(* journal being a prefix of every survivor, and this from the comparison  *)
(* in update being still true when the file is replaced, because the lock  *)
(* is held in between.                                                     *)
(***************************************************************************)
CallInProgress ==
    \A w \in Writers :
        /\ pc[w] \in {"create-lock", "create-write", "create-link"} =>
               held[w] # <<>>
        /\ pc[w] \in {"update-lock", "update-compare", "update-write",
                      "update-replace"} => IsPrefix(base[w], held[w])
        /\ pc[w] \in {"update-write", "update-replace"} => file = base[w]
        /\ pc[w] \in {"create-unlink", "sync"} => file = held[w]

SurvivorsChained ==
    /\ file \in Survivors
    /\ IsPrefix(acked, durable)
    /\ \A h \in Survivors : IsPrefix(durable, h) /\ IsPrefix(h, file)

AckedBases == \A w \in Writers : ack[w] => IsPrefix(base[w], acked)

StoreInv == /\ LockHeld /\ CallInProgress /\ SurvivorsChained
            /\ AckedBases /\ WriteAhead

LEMMA InitStoreInv == Init => StoreInv
<1>. SUFFICES ASSUME Init PROVE StoreInv
  OBVIOUS
<1>. USE DEF Init
<1>1. LockHeld
  BY WritersAssumption DEF LockHeld, PcLocked
<1>2. CallInProgress
  BY DEF CallInProgress
<1>3. SurvivorsChained
  BY PrefixReflexive, EmptyHistory DEF SurvivorsChained, Survivors
<1>4. AckedBases /\ WriteAhead
  BY DEF AckedBases, WriteAhead, Survivors
<1>. QED  BY <1>1, <1>2, <1>3, <1>4 DEF StoreInv

(* What is said of the disk alone holds on while the disk is not written,  *)
(* no effect is started and no call returns.                               *)
LEMMA DiskUnchanged ==
    ASSUME UNCHANGED <<disk, ghost>>
    PROVE  /\ SurvivorsChained => SurvivorsChained'
           /\ WriteAhead => WriteAhead'
BY DEF disk, ghost, Survivors, SurvivorsChained, WriteAhead

(* A step that changes the memory of one process that is in no call, and   *)
(* not the file, keeps everything but what is said of its own base.        *)
LEMMA CallStoreInv ==
    ASSUME TypeOK, StoreInv, NEW w \in Writers, Call(w)
    PROVE  StoreInv'
<1>. USE DEF StoreInv, Survivors, storage, disk, memory, ghost, TypeOK
<1>1. CASE Create(w)
  <2>. USE <1>1 DEF Create, Holds
  <2>1. LockHeld'
    BY DEF LockHeld, PcLocked
  <2>2. CallInProgress'
    BY DEF CallInProgress
  <2>3. SurvivorsChained' /\ AckedBases' /\ WriteAhead'
    BY DiskUnchanged DEF AckedBases
  <2>. QED  BY <2>1, <2>2, <2>3
<1>2. CASE Read(w)
  <2>1. SurvivorsChained' /\ WriteAhead'
    BY <1>2, DiskUnchanged DEF Read
  <2>. QED  BY <1>2, <2>1 DEF Read, Holds, LockHeld, CallInProgress, AckedBases
<1>3. CASE Advance(w) \/ RecordSuccess(w)
  <2>1. SurvivorsChained' /\ WriteAhead'
    BY <1>3, DiskUnchanged DEF Advance, RecordSuccess, Derive
  <2>2. /\ pc[w] = "idle" /\ UNCHANGED <<pc, lock, file, base, ack, acked>>
        /\ \A v \in Writers \ {w} : held'[v] = held[v]
    BY <1>3 DEF Advance, RecordSuccess, Derive
  <2>. QED  BY <2>1, <2>2 DEF LockHeld, CallInProgress, AckedBases
<1>4. CASE StartEffect(w)
  <2>. USE <1>4 DEF StartEffect
  <2>1. LockHeld' /\ CallInProgress' /\ SurvivorsChained' /\ AckedBases'
    BY DEF LockHeld, CallInProgress, SurvivorsChained, AckedBases
  <2>2. WriteAhead'
    <3>. SUFFICES ASSUME NEW h \in Survivors, NEW k \in DOMAIN started'
                  PROVE  \E n \in DOMAIN h : h[n].prepared = started'[k]
      BY DEF WriteAhead
    <3>. started' = Append(started, Last(base[w]).prepared)
      OBVIOUS
    <3>1. CASE k \in DOMAIN started
      <4>1. started'[k] = started[k]
        BY <3>1
      <4>. QED  BY <3>1, <4>1 DEF WriteAhead
    <3>2. CASE k \notin DOMAIN started
      <4>1. started'[k] = Last(base[w]).prepared
        BY <3>2
      <4>2. /\ IsPrefix(base[w], acked) /\ IsPrefix(acked, durable)
            /\ IsPrefix(durable, h) /\ h \in History
        BY DEF AckedBases, SurvivorsChained
      <4>3. IsPrefix(base[w], h)
        BY <4>2, PrefixTransitive
      <4>4. Len(base[w]) \in DOMAIN base[w]
        BY DEF History
      <4>. QED  BY <4>1, <4>2, <4>3, <4>4, PrefixRecord DEF Last
    <3>. QED  BY <3>1, <3>2
  <2>. QED  BY <2>1, <2>2
<1>5. CASE Update(w)
  <2>. USE <1>5 DEF Update
  <2>1. LockHeld'
    BY DEF LockHeld, PcLocked
  <2>2. IsPrefix(base[w], held[w])
    BY PrefixFront, EmptyHistory
  <2>3. CallInProgress'
    BY <2>2 DEF CallInProgress
  <2>4. SurvivorsChained' /\ AckedBases' /\ WriteAhead'
    BY DiskUnchanged DEF AckedBases
  <2>. QED  BY <2>1, <2>3, <2>4
<1>. QED  BY <1>1, <1>2, <1>3, <1>4, <1>5 DEF Call

LEMMA LockStoreInv ==
    ASSUME TypeOK, StoreInv, NEW w \in Writers, Lock(w)
    PROVE  StoreInv'
<1>. USE DEF StoreInv, Survivors, disk, memory, ghost, TypeOK, Lock, Goto
<1>1. LockHeld'
  BY WritersAssumption DEF LockHeld, PcLocked
<1>2. CallInProgress'
  BY DEF CallInProgress
<1>3. SurvivorsChained' /\ AckedBases' /\ WriteAhead'
  BY DiskUnchanged DEF AckedBases
<1>. QED  BY <1>1, <1>2, <1>3

(* A call that raises gives up the lock and leaves the file as it is.      *)
LEMMA RaiseStoreInv ==
    ASSUME TypeOK, StoreInv, NEW w \in Writers, pc[w] \in PcLocked, Raise(w)
    PROVE  StoreInv'
<1>. USE DEF StoreInv, Survivors, disk, memory, ghost, TypeOK, Raise, Goto
<1>1. LockHeld'
  BY WritersAssumption DEF LockHeld, PcLocked
<1>2. CallInProgress'
  BY DEF CallInProgress
<1>3. SurvivorsChained' /\ AckedBases' /\ WriteAhead'
  BY DiskUnchanged DEF AckedBases
<1>. QED  BY <1>1, <1>2, <1>3

(* The file becomes the journal in the hands of the lock holder, which     *)
(* extends the file.                                                       *)
LEMMA InstallStoreInv ==
    ASSUME TypeOK, StoreInv, NEW w \in Writers,
           pc[w] \in {"create-link", "update-replace"},
           IsPrefix(file, held[w]),
           Install(held[w]),
           \E label \in {"create-unlink", "sync"} : Goto(w, label),
           UNCHANGED <<lock, memory, ghost>>
    PROVE  StoreInv'
<1>. USE DEF StoreInv, Survivors, disk, memory, ghost, TypeOK, Goto, Install
<1>1. LockHeld'
  BY DEF LockHeld, PcLocked
<1>2. CallInProgress'
  <2>. SUFFICES ASSUME NEW v \in Writers, v # w
                PROVE  pc[v] \notin PcLocked
    BY DEF CallInProgress, PcLocked
  <2>. QED  BY DEF LockHeld, PcLocked
<1>3. SurvivorsChained'
  BY PrefixTransitive, PrefixReflexive DEF SurvivorsChained
<1>4. AckedBases'
  BY DEF AckedBases
<1>5. WriteAhead'
  <2>. SUFFICES ASSUME NEW k \in DOMAIN started
                PROVE  \E n \in DOMAIN held[w] :
                          held[w][n].prepared = started[k]
    BY DEF WriteAhead
  <2>1. PICK n \in DOMAIN file : file[n].prepared = started[k]
    BY DEF WriteAhead, SurvivorsChained
  <2>. QED  BY <2>1, PrefixRecord
<1>. QED  BY <1>1, <1>2, <1>3, <1>4, <1>5

LEMMA InLockStoreInv ==
    ASSUME TypeOK, StoreInv, NEW w \in Writers, InLock(w)
    PROVE  StoreInv'
<1>. USE DEF StoreInv, Survivors, storage, disk, memory, ghost, TypeOK, Goto
<1>1. CASE Compare(w)
  <2>. USE <1>1 DEF Compare
  <2>1. LockHeld'
    BY DEF LockHeld, PcLocked
  <2>2. CallInProgress'
    BY DEF CallInProgress
  <2>3. SurvivorsChained' /\ AckedBases' /\ WriteAhead'
    BY DiskUnchanged DEF AckedBases
  <2>. QED  BY <2>1, <2>2, <2>3
<1>2. CASE CompareFails(w) \/ WriteTempFails(w) \/ InstallFails(w) \/ SyncFails(w)
  BY <1>2, RaiseStoreInv
     DEF CompareFails, WriteTempFails, InstallFails, SyncFails, PcLocked
<1>3. CASE WriteTemp(w)
  <2>. USE <1>3 DEF WriteTemp
  <2>1. LockHeld'
    BY DEF LockHeld, PcLocked
  <2>2. CallInProgress'
    BY DEF CallInProgress
  <2>3. SurvivorsChained' /\ AckedBases' /\ WriteAhead'
    BY DiskUnchanged DEF AckedBases
  <2>. QED  BY <2>1, <2>2, <2>3
<1>4. CASE Link(w)
  <2>1. IsPrefix(file, held[w])
    BY <1>4 DEF Link, IsPrefix, History
  <2>. QED  BY <1>4, <2>1, InstallStoreInv DEF Link
<1>5. CASE Unlink(w)
  <2>. USE <1>5 DEF Unlink
  <2>1. LockHeld'
    BY DEF LockHeld, PcLocked
  <2>2. CallInProgress'
    BY DEF CallInProgress
  <2>3. SurvivorsChained' /\ AckedBases' /\ WriteAhead'
    BY DiskUnchanged DEF AckedBases
  <2>. QED  BY <2>1, <2>2, <2>3
<1>6. CASE Replace(w)
  <2>1. IsPrefix(file, held[w])
    BY <1>6 DEF Replace, CallInProgress
  <2>. QED  BY <1>6, <2>1, InstallStoreInv DEF Replace
<1>7. CASE Sync(w)
  <2>. USE <1>7 DEF Sync, Flush
  <2>1. LockHeld'
    BY WritersAssumption DEF LockHeld, PcLocked
  <2>2. CallInProgress'
    <3>. SUFFICES ASSUME NEW v \in Writers, v # w
                  PROVE  pc[v] \notin PcLocked
      BY DEF CallInProgress, PcLocked
    <3>. QED  BY DEF LockHeld, PcLocked
  <2>3. acked' = file /\ Survivors' = {file}
    BY DEF CallInProgress
  <2>4. SurvivorsChained'
    <3>1. IsPrefix(file, file)
      BY PrefixReflexive
    <3>. QED  BY <2>3, <3>1 DEF SurvivorsChained
  <2>5. AckedBases'
    <3>. SUFFICES ASSUME NEW v \in Writers, ack'[v]
                  PROVE  IsPrefix(base'[v], file)
      BY <2>3 DEF AckedBases
    <3>1. CASE v = w
      BY <3>1, PrefixReflexive DEF CallInProgress
    <3>2. CASE v # w
      <4>1. IsPrefix(base[v], acked) /\ base'[v] = base[v]
        BY <3>2 DEF AckedBases
      <4>2. IsPrefix(acked, durable) /\ IsPrefix(durable, file)
        BY DEF SurvivorsChained
      <4>3. IsPrefix(base[v], durable)
        BY <4>1, <4>2, PrefixTransitive
      <4>. QED  BY <4>1, <4>2, <4>3, PrefixTransitive
    <3>. QED  BY <3>1, <3>2
  <2>6. WriteAhead'
    <3>1. file \in Survivors /\ started' = started
      BY DEF SurvivorsChained
    <3>. HIDE DEF Survivors
    <3>. QED  BY <2>3, <3>1 DEF WriteAhead
  <2>. QED  BY <2>1, <2>2, <2>4, <2>5, <2>6
<1>. QED  BY <1>1, <1>2, <1>3, <1>4, <1>5, <1>6, <1>7 DEF InLock

LEMMA CrashStoreInv ==
    ASSUME TypeOK, StoreInv, NEW w \in Writers, Crash(w)
    PROVE  StoreInv'
<1>. USE DEF StoreInv, Survivors, disk, ghost, TypeOK, Crash, Goto, Holds
<1>1. LockHeld'
  BY WritersAssumption DEF LockHeld, PcLocked
<1>2. CallInProgress'
  BY DEF CallInProgress
<1>3. SurvivorsChained' /\ AckedBases' /\ WriteAhead'
  BY DiskUnchanged DEF AckedBases
<1>. QED  BY <1>1, <1>2, <1>3

LEMMA PowerLossStoreInv ==
    ASSUME TypeOK, StoreInv, PowerLoss
    PROVE  StoreInv'
<1>. USE DEF StoreInv, Survivors, disk, ghost, TypeOK, PowerLoss, Flush
<1>1. LockHeld'
  BY WritersAssumption DEF LockHeld, PcLocked
<1>2. CallInProgress' /\ AckedBases'
  BY DEF CallInProgress, AckedBases
<1>3. PICK h \in Survivors : file' = h /\ durable' = h /\ Survivors' = {h}
  OBVIOUS
<1>4. SurvivorsChained'
  <2>1. IsPrefix(h, h) /\ IsPrefix(acked, h)
    BY PrefixReflexive, PrefixTransitive DEF SurvivorsChained
  <2>. QED  BY <1>3, <2>1 DEF SurvivorsChained
<1>5. WriteAhead'
  <2>1. started' = started
    OBVIOUS
  <2>. HIDE DEF Survivors
  <2>. QED  BY <1>3, <2>1 DEF WriteAhead
<1>. QED  BY <1>1, <1>2, <1>4, <1>5

LEMMA NextStoreInv == TypeOK /\ StoreInv /\ [Next]_vars => StoreInv'
<1>1. ASSUME StoreInv, UNCHANGED vars
      PROVE  StoreInv'
  BY <1>1 DEF vars, storage, disk, memory, ghost, StoreInv, LockHeld,
              CallInProgress, SurvivorsChained, Survivors, AckedBases,
              WriteAhead
<1>. QED  BY <1>1, CallStoreInv, LockStoreInv, InLockStoreInv,
             CrashStoreInv, PowerLossStoreInv DEF Next

LEMMA StoreInvHolds == Spec => []StoreInv
<1>. QED  BY InitTypeOK, NextTypeOK, InitStoreInv, NextStoreInv, PTL DEF Spec

(* The write-ahead rule: no crash, power loss, failed system call or race  *)
(* of any number of processes leaves an effect that was started without a  *)
(* record of its preparation in what is found on disk afterwards.          *)
THEOREM WriteAheadHolds == Spec => []WriteAhead
<1>1. StoreInv => WriteAhead
  BY DEF StoreInv
<1>. QED  BY <1>1, StoreInvHolds, PTL

(* No failing path of create or update leaves the directory locked, and no *)
(* two calls are ever inside it together.                                  *)
THEOREM LockHeldHolds == Spec => []LockHeld
<1>1. StoreInv => LockHeld
  BY DEF StoreInv
<1>. QED  BY <1>1, StoreInvHolds, PTL

(* What create or update reported as written is never lost again.          *)
THEOREM AckedSurvivesHolds == Spec => []AckedSurvives
<1>1. TypeOK /\ StoreInv => AckedSurvives
  BY PrefixTransitive DEF StoreInv, SurvivorsChained, AckedSurvives, Survivors, TypeOK
<1>. QED  BY <1>1, TypeCorrect, StoreInvHolds, PTL
-----------------------------------------------------------------------------
(***************************************************************************)
(* Order of the effects and truth of the recovery assessment.  Both rest   *)
(* on how many effects were started compared with what each survivor       *)
(* counts.  The count stays right because at most one process ever holds   *)
(* the token for a prepared effect: the process whose own update of        *)
(* exactly that record returned.  Only it can start the effect and only it *)
(* can derive the record that succeeds the prepared one.                   *)
(***************************************************************************)
Pending(h) == h # <<>> /\ Last(h).prepared # NoEffect

Token(w) == ack[w] /\ held[w] = base[w] /\ Pending(base[w])

Counted(h) ==
    IF h = <<>> THEN Len(started) = 0
    ELSE /\ Last(h).completed <= Len(started)
         /\ Len(started) <= Last(h).completed + (IF Pending(h) THEN 1 ELSE 0)

SurvivorsCounted == \A h \in Survivors : Counted(h)

TokenAtEnd ==
    \A w \in Writers :
        /\ Token(w) => /\ Survivors = {file} /\ file = base[w]
                       /\ Len(started) = Last(file).completed
                                            + (IF did[w] THEN 1 ELSE 0)
        /\ did[w] => Token(w)

AcksUnique ==
    /\ \A w \in Writers : ack[w] => base[w] # <<>>
    /\ \A v, w \in Writers :
          ack[v] /\ ack[w] /\ base[v] = base[w] => v = w

CarriesNews(w) ==
    /\ pc[w] # "idle" => held[w] # base[w] /\ held[w] # <<>>
    /\ pc[w] \in {"create-lock", "create-write", "create-link"} =>
           held[w] = <<NewJournal>>
    /\ pc[w] \in {"update-lock", "update-compare", "update-write",
                  "update-replace"} =>
           base[w] # <<>> /\ base[w] = Front(held[w])
    /\ pc[w] \in {"create-unlink", "sync"} =>
           /\ \A v \in Writers : ack[v] => base[v] # file
           /\ Pending(file) => Len(started) = Last(file).completed

CallsCarryNews == \A w \in Writers : CarriesNews(w)

Derivation(w) ==
    /\ Len(held[w]) > Len(base[w])
    /\ held[w][Len(base[w]) + 1] \in Successors(Last(base[w]))
    /\ Pending(base[w]) => /\ ack[w]
                           /\ Len(started) > Last(base[w]).completed

HeldDerived ==
    \A w \in Writers :
        base[w] # <<>> /\ held[w] # base[w] => Derivation(w)

OrderInv == /\ SurvivorsCounted /\ TokenAtEnd /\ AcksUnique
            /\ CallsCarryNews /\ HeldDerived /\ EffectsInOrder

Invs == TypeOK /\ StoreInv /\ OrderInv

LEMMA InitOrderInv == Init => OrderInv
<1>. SUFFICES ASSUME Init PROVE OrderInv
  OBVIOUS
<1>. USE DEF Init
<1>1. SurvivorsCounted
  BY DEF SurvivorsCounted, Counted, Survivors
<1>2. TokenAtEnd /\ AcksUnique /\ CallsCarryNews /\ HeldDerived
  BY DEF TokenAtEnd, Token, AcksUnique, CallsCarryNews, CarriesNews,
         HeldDerived
<1>3. EffectsInOrder
  BY DEF EffectsInOrder
<1>. QED  BY <1>1, <1>2, <1>3 DEF OrderInv

(* A process that no longer holds an acknowledged journal owes nothing.    *)
LEMMA ForgetOrderInv ==
    ASSUME Invs, NEW w \in Writers, NEW label,
           NEW journal \in History, NEW from \in History,
           Holds(w, journal, from), from # <<>> => journal = from,
           Goto(w, label),
           \/ label = "idle"
           \/ label = "create-lock" /\ journal = <<NewJournal>> /\ from = <<>>,
           UNCHANGED <<disk, ghost>>
    PROVE  OrderInv'
<1>. USE DEF Invs, OrderInv, TypeOK, Holds, Goto, disk, ghost
<1>1. SurvivorsCounted' /\ EffectsInOrder'
  BY DEF SurvivorsCounted, Counted, Pending, Survivors, EffectsInOrder
<1>2. \A v \in Writers \ {w} :
         /\ base'[v] = base[v] /\ held'[v] = held[v] /\ ack'[v] = ack[v]
         /\ did'[v] = did[v] /\ pc'[v] = pc[v]
  OBVIOUS
<1>3. /\ base'[w] = from /\ held'[w] = journal /\ pc'[w] = label
      /\ ack'[w] = FALSE /\ did'[w] = FALSE
  OBVIOUS
<1>4. TokenAtEnd'
  BY <1>2, <1>3 DEF TokenAtEnd, Token, Pending, Survivors
<1>5. AcksUnique'
  BY <1>2, <1>3 DEF AcksUnique
<1>6. CallsCarryNews'
  <2>1. CarriesNews(w)'
    BY <1>3, NewHistory DEF CarriesNews
  <2>2. ASSUME NEW v \in Writers \ {w}
        PROVE  CarriesNews(v)'
    BY <1>2, <1>3 DEF CallsCarryNews, CarriesNews, Pending
  <2>. QED  BY <2>1, <2>2 DEF CallsCarryNews
<1>7. HeldDerived'
  BY <1>2, <1>3 DEF HeldDerived, Derivation, Pending
<1>. QED  BY <1>1, <1>4, <1>5, <1>6, <1>7

(* Within a call nothing but the place in the call matters. *)
LEMMA PcOrderInv ==
    ASSUME Invs, NEW w \in Writers, NEW label, Goto(w, label),
           UNCHANGED <<disk, memory, ghost>>,
           CarriesNews(w)'
    PROVE  OrderInv'
<1>. USE DEF Invs, OrderInv, TypeOK, Goto, disk, memory, ghost
<1>1. SurvivorsCounted' /\ EffectsInOrder'
  BY DEF SurvivorsCounted, Counted, Pending, Survivors, EffectsInOrder
<1>2. TokenAtEnd'
  BY DEF TokenAtEnd, Token, Pending, Survivors
<1>3. AcksUnique'
  BY DEF AcksUnique
<1>4. CallsCarryNews'
  <2>. SUFFICES ASSUME NEW v \in Writers, v # w
                PROVE  CarriesNews(v)'
    BY DEF CallsCarryNews
  <2>. QED  BY DEF CallsCarryNews, CarriesNews, Pending
<1>5. HeldDerived'
  BY DEF HeldDerived, Derivation, Pending
<1>. QED  BY <1>1, <1>2, <1>3, <1>4, <1>5

(* Deriving one more record.  Only the holder of the token has a pending   *)
(* journal it can extend, and gives the token up by extending it.          *)
LEMMA DeriveOrderInv ==
    ASSUME Invs, NEW w \in Writers, NEW candidates,
           candidates \subseteq Successors(Last(held[w])),
           held[w] = base[w] /\ Pending(base[w]) =>
               did[w] \/ candidates = {},
           Derive(w, candidates),
           did' = [did EXCEPT ![w] = FALSE]
    PROVE  OrderInv'
<1>. USE DEF Invs, OrderInv, TypeOK, Derive, storage, disk, ghost
<1>1. SurvivorsCounted' /\ EffectsInOrder' /\ AcksUnique'
  BY DEF SurvivorsCounted, Counted, Pending, Survivors, EffectsInOrder,
         AcksUnique
<1>2. PICK j \in candidates : held' = [held EXCEPT ![w] = Append(@, j)]
  OBVIOUS
<1>3. /\ held[w] \in History /\ base[w] \in History
      /\ held'[w] = Append(held[w], j)
  BY <1>2
<1>4. /\ Len(held'[w]) = Len(held[w]) + 1
      /\ held'[w][Len(held[w]) + 1] = j
      /\ \A n \in 1..Len(held[w]) : held'[w][n] = held[w][n]
  BY <1>3 DEF History
<1>5. base[w] # <<>> => Derivation(w)'
  <2>1. CASE held[w] = base[w] /\ base[w] # <<>>
    <3>1. j \in Successors(Last(base[w]))
      BY <1>2, <2>1
    <3>2. Pending(base[w]) => ack[w] /\ Len(started) > Last(base[w]).completed
      <4>. SUFFICES ASSUME Pending(base[w]) PROVE Token(w) /\ did[w]
        BY <2>1, LastStored DEF TokenAtEnd, Token, StoredJournal, Journal
      <4>. QED  BY <1>2, <2>1 DEF TokenAtEnd
    <3>. QED  BY <1>4, <2>1, <3>1, <3>2 DEF Derivation, Pending, History
  <2>2. CASE held[w] # base[w] /\ base[w] # <<>>
    <3>1. Derivation(w)
      BY <2>2 DEF HeldDerived
    <3>2. Len(base[w]) + 1 \in 1..Len(held[w])
      BY <3>1 DEF Derivation, History
    <3>. QED  BY <1>4, <3>1, <3>2 DEF Derivation, Pending, History
  <2>. QED  BY <2>1, <2>2
<1>6. held'[w] # base[w]
  <2>1. CASE base[w] = <<>> \/ held[w] = base[w]
    BY <1>4, <2>1 DEF History
  <2>2. CASE base[w] # <<>> /\ held[w] # base[w]
    BY <1>4, <2>2 DEF History, HeldDerived, Derivation
  <2>. QED  BY <2>1, <2>2
<1>7. \A v \in Writers \ {w} : held'[v] = held[v] /\ did'[v] = did[v]
  BY <1>2
<1>8. TokenAtEnd'
  BY <1>6, <1>7 DEF TokenAtEnd, Token, Pending, Survivors
<1>9. CallsCarryNews'
  BY <1>7 DEF CallsCarryNews, CarriesNews, Pending
<1>10. HeldDerived'
  BY <1>5, <1>7 DEF HeldDerived, Derivation, Pending
<1>. QED  BY <1>1, <1>8, <1>9, <1>10

(* Starting the effect: the holder of the token is the only one, nobody is *)
(* writing, and the count of started effects goes up by one.               *)
LEMMA StartEffectOrderInv ==
    ASSUME Invs, NEW w \in Writers, StartEffect(w)
    PROVE  OrderInv'
<1>. USE DEF Invs, OrderInv, TypeOK, StartEffect, storage, disk
<1>1. Token(w)
  BY DEF Token, Pending
<1>2. /\ Survivors = {file} /\ file = base[w]
      /\ Len(started) = Last(file).completed
      /\ Last(file) \in StoredJournal
  BY <1>1, LastStored DEF TokenAtEnd, Token, Pending, StoredJournal, Journal
<1>3. Last(file).prepared = Last(file).completed + 1
  BY <1>1, <1>2 DEF Token, Pending, StoredJournal, ValidJournal
<1>4. /\ started' = Append(started, Len(started) + 1)
      /\ Len(started') = Len(started) + 1
  BY <1>2, <1>3
<1>5. EffectsInOrder'
  <2>. SUFFICES ASSUME NEW k \in DOMAIN started'
                PROVE  started'[k] = k
    BY DEF EffectsInOrder
  <2>1. k \in 1..Len(started) + 1
    BY <1>4
  <2>2. started'[k] = IF k = Len(started) + 1 THEN Len(started) + 1
                                              ELSE started[k]
    BY <1>4, <2>1
  <2>. QED  BY <2>1, <2>2 DEF EffectsInOrder
<1>6. \A v \in Writers \ {w} : ~Token(v)
  BY <1>1, <1>2 DEF TokenAtEnd, AcksUnique, Token
<1>7. SurvivorsCounted'
  <2>1. Survivors' = {file} /\ file' = file
    BY <1>2 DEF Survivors
  <2>2. file # <<>> /\ Pending(file)
    BY <1>1, <1>2 DEF Token, Pending
  <2>3. Last(file).completed \in Int
    BY <1>2 DEF StoredJournal, Journal
  <2>4. Counted(file)'
    BY <1>2, <1>4, <2>1, <2>2, <2>3 DEF Counted, Pending
  <2>. QED  BY <2>1, <2>4 DEF SurvivorsCounted
<1>8. TokenAtEnd'
  BY <1>1, <1>2, <1>4, <1>6 DEF TokenAtEnd, Token, Pending, Survivors
<1>9. AcksUnique'
  BY DEF AcksUnique
<1>10. CallsCarryNews'
  BY <1>1, <1>2 DEF CallsCarryNews, CarriesNews, Token
<1>11. HeldDerived'
  <2>. SUFFICES ASSUME NEW v \in Writers, base[v] # <<>>, held[v] # base[v]
                PROVE  Derivation(v)'
    BY DEF HeldDerived
  <2>1. Derivation(v)
    BY DEF HeldDerived
  <2>2. Pending(base[v]) => Last(base[v]).completed \in Int
    BY LastStored DEF Pending, StoredJournal, Journal
  <2>. QED  BY <1>4, <2>1, <2>2 DEF Derivation, Pending
<1>. QED  BY <1>5, <1>7, <1>8, <1>9, <1>10, <1>11

LEMMA CallOrderInv ==
    ASSUME Invs, NEW w \in Writers, Call(w)
    PROVE  OrderInv'
<1>. USE DEF storage, disk, memory, ghost
<1>. TypeOK /\ OrderInv
  BY DEF Invs
<1>1. CASE Create(w)
  BY <1>1, NewHistory, EmptyHistory, ForgetOrderInv DEF Create, Goto
<1>2. CASE Read(w)
  <2>1. Goto(w, "idle")
    BY <1>2 DEF Read, Goto, TypeOK
  <2>2. file \in History
    BY DEF TypeOK
  <2>. QED  BY <1>2, <2>1, <2>2, ForgetOrderInv DEF Read
<1>3. CASE Advance(w)
  <2>. DEFINE candidates == LocalSuccessors(Last(held[w]))
  <2>1. Derive(w, candidates) /\ candidates \subseteq Successors(Last(held[w]))
    BY <1>3 DEF Advance, Successors
  <2>2. ASSUME held[w] = base[w], Pending(base[w])
        PROVE  candidates = {}
    BY <2>2, LastStored, PreparedHasOnlySuccess DEF TypeOK, Pending
  <2>3. ~did[w]
    <3>. SUFFICES ASSUME did[w] PROVE FALSE
      OBVIOUS
    <3>1. Token(w)
      BY DEF OrderInv, TokenAtEnd
    <3>. QED  BY <2>1, <2>2, <3>1 DEF Token, Derive
  <2>4. did' = [did EXCEPT ![w] = FALSE]
    BY <1>3, <2>3 DEF Advance, TypeOK
  <2>. HIDE DEF candidates
  <2>. QED  BY <2>1, <2>2, <2>4, DeriveOrderInv
<1>4. CASE StartEffect(w)
  BY <1>4, StartEffectOrderInv
<1>5. CASE RecordSuccess(w)
  <2>1. PICK report \in Reports :
           Derive(w, RecordEffectSuccess(Last(held[w]), report))
    BY <1>5 DEF RecordSuccess
  <2>. DEFINE candidates == RecordEffectSuccess(Last(held[w]), report)
  <2>2. candidates \subseteq Successors(Last(held[w]))
    BY DEF Successors
  <2>3. did[w] /\ did' = [did EXCEPT ![w] = FALSE]
    BY <1>5 DEF RecordSuccess
  <2>4. Derive(w, candidates)
    BY <2>1
  <2>. HIDE DEF candidates
  <2>. QED  BY <2>2, <2>3, <2>4, DeriveOrderInv
<1>6. CASE Update(w)
  <2>1. CarriesNews(w)'
    BY <1>6, EmptyHistory DEF Update, CarriesNews, TypeOK
  <2>. QED  BY <1>6, <2>1, PcOrderInv DEF Update, Goto
<1>. QED  BY <1>1, <1>2, <1>3, <1>4, <1>5, <1>6 DEF Call

(* The file becomes a journal one record longer than itself.               *)
LEMMA InstallOrderInv ==
    ASSUME Invs, NEW w \in Writers,
           pc[w] \in {"create-link", "update-replace"},
           Len(held[w]) = Len(file) + 1,
           Counted(held[w]),
           Pending(held[w]) => Len(started) = Last(held[w]).completed,
           \A v \in Writers : ~Token(v),
           Install(held[w]),
           \E label \in {"create-unlink", "sync"} : Goto(w, label),
           UNCHANGED <<memory, ghost>>
    PROVE  OrderInv'
<1>. USE DEF Invs, OrderInv, TypeOK, Goto, memory, ghost
<1>1. Survivors' = Survivors \cup {held[w]} /\ file' = held[w]
  BY DEF Install, Survivors
<1>2. SurvivorsCounted' /\ EffectsInOrder' /\ AcksUnique'
  BY <1>1 DEF SurvivorsCounted, Counted, Pending, EffectsInOrder, AcksUnique
<1>3. TokenAtEnd'
  BY DEF TokenAtEnd, Token, Pending
<1>4. HeldDerived'
  BY DEF HeldDerived, Derivation, Pending
<1>5. \A v \in Writers : ack[v] => base[v] # held[w]
  <2>. SUFFICES ASSUME NEW v \in Writers, ack[v]
                PROVE  Len(base[v]) <= Len(file)
    BY DEF History
  <2>1. IsPrefix(base[v], acked) /\ IsPrefix(acked, durable)
           /\ IsPrefix(durable, file)
    BY DEF StoreInv, AckedBases, SurvivorsChained
  <2>. QED  BY <2>1 DEF IsPrefix, History
<1>6. CallsCarryNews'
  <2>. SUFFICES ASSUME NEW v \in Writers
                PROVE  CarriesNews(v)'
    BY DEF CallsCarryNews
  <2>1. CASE v = w
    BY <1>1, <1>5, <2>1 DEF CallsCarryNews, CarriesNews, Pending
  <2>2. CASE v # w
    <3>1. pc[v] \notin PcLocked /\ pc'[v] = pc[v]
      BY <2>2 DEF StoreInv, LockHeld, PcLocked
    <3>. QED  BY <2>2, <3>1 DEF CallsCarryNews, CarriesNews, PcLocked
  <2>. QED  BY <2>1, <2>2
<1>. QED  BY <1>2, <1>3, <1>4, <1>6

LEMMA LinkOrderInv ==
    ASSUME Invs, NEW w \in Writers, Link(w)
    PROVE  OrderInv'
<1>. USE DEF Invs, OrderInv, TypeOK
<1>1. pc[w] = "create-link" /\ file = <<>> /\ held[w] = <<NewJournal>>
  BY DEF Link, CallsCarryNews, CarriesNews
<1>2. Len(held[w]) = Len(file) + 1 /\ Last(held[w]) = NewJournal
  BY <1>1 DEF Last
<1>3. Len(started) = 0
  BY <1>1 DEF StoreInv, SurvivorsChained, SurvivorsCounted, Counted
<1>4. Counted(held[w]) /\ ~Pending(held[w])
  BY <1>1, <1>2, <1>3, NewHistory DEF Counted, Pending, NewJournal
<1>5. \A v \in Writers : ~Token(v)
  BY <1>1 DEF TokenAtEnd, Token, Pending
<1>. QED  BY <1>1, <1>2, <1>4, <1>5, InstallOrderInv DEF Link

(* The record that replaces the file's last one was derived from it: when  *)
(* that one is pending, by its token holder after starting the effect.     *)
LEMMA ReplaceOrderInv ==
    ASSUME Invs, NEW w \in Writers, Replace(w)
    PROVE  OrderInv'
<1>. USE DEF Invs, OrderInv, TypeOK
<1>. DEFINE old == Last(file)
            new == Last(held[w])
<1>1. /\ pc[w] = "update-replace" /\ file = base[w] /\ file # <<>>
      /\ held[w] # base[w] /\ held[w] # <<>> /\ file = Front(held[w])
  BY DEF Replace, StoreInv, CallInProgress, CallsCarryNews, CarriesNews
<1>2. Len(held[w]) = Len(file) + 1
  BY <1>1 DEF Front, History
<1>3. Derivation(w)
  BY <1>1 DEF HeldDerived
<1>4. old \in StoredJournal /\ new \in Successors(old) /\ new \in StoredJournal
  <2>1. held[w][Len(base[w]) + 1] = new
    BY <1>1, <1>2 DEF Last
  <2>. QED  BY <1>1, <1>3, <2>1, LastStored DEF Derivation
<1>5. old.completed \in Int /\ new.completed \in Int
  BY <1>4 DEF StoredJournal, Journal
<1>6. Counted(file)
  BY DEF StoreInv, SurvivorsChained, SurvivorsCounted
<1>7. CASE ~Pending(file)
  <2>1. new.completed = old.completed
    BY <1>1, <1>4, <1>7, SuccessorsCount DEF Pending
  <2>2. Len(started) = new.completed
    BY <1>1, <1>5, <1>6, <1>7, <2>1 DEF Counted
  <2>3. Counted(held[w])
    BY <1>1, <1>5, <2>2 DEF Counted
  <2>4. \A v \in Writers : ~Token(v)
    BY <1>7 DEF TokenAtEnd, Token
  <2>. QED  BY <1>1, <1>2, <2>2, <2>3, <2>4, InstallOrderInv DEF Replace
<1>8. CASE Pending(file)
  <2>1. new.completed = old.completed + 1 /\ ~Pending(held[w])
    BY <1>1, <1>4, <1>8, SuccessorsCount DEF Pending
  <2>2. ack[w] /\ Len(started) > old.completed
    BY <1>1, <1>3, <1>8 DEF Derivation
  <2>3. Counted(held[w])
    BY <1>1, <1>5, <1>6, <1>8, <2>1, <2>2 DEF Counted
  <2>4. \A v \in Writers : ~Token(v)
    <3>. SUFFICES ASSUME NEW v \in Writers, Token(v) PROVE FALSE
      OBVIOUS
    <3>1. ack[v] /\ base[v] = base[w] /\ held[v] = base[v]
      BY <1>1 DEF TokenAtEnd, Token
    <3>2. v = w
      BY <2>2, <3>1 DEF AcksUnique
    <3>. QED  BY <1>1, <3>1, <3>2
  <2>. QED  BY <1>1, <1>2, <2>1, <2>3, <2>4, InstallOrderInv DEF Replace
<1>. QED  BY <1>7, <1>8

LEMMA SyncOrderInv ==
    ASSUME Invs, NEW w \in Writers, Sync(w)
    PROVE  OrderInv'
<1>. USE DEF Invs, OrderInv, TypeOK, Sync, Goto
<1>1. Survivors' = {file} /\ file' = file /\ file \in Survivors
  BY DEF Flush, Survivors, StoreInv, SurvivorsChained
<1>2. /\ file = held[w] /\ file # <<>> /\ held[w] # base[w] /\ ~did[w]
      /\ \A v \in Writers : ack[v] => base[v] # file
      /\ Pending(file) => Len(started) = Last(file).completed
  BY DEF StoreInv, CallInProgress, CallsCarryNews, CarriesNews,
         TokenAtEnd, Token
<1>3. /\ base'[w] = file /\ held' = held /\ did' = did /\ started' = started
      /\ ack'[w] = TRUE /\ pc'[w] = "idle"
      /\ \A v \in Writers \ {w} :
            base'[v] = base[v] /\ ack'[v] = ack[v] /\ pc'[v] = pc[v]
  BY <1>2
<1>4. SurvivorsCounted' /\ EffectsInOrder'
  BY <1>1, <1>3 DEF SurvivorsCounted, Counted, Pending, EffectsInOrder
<1>5. AcksUnique'
  BY <1>2, <1>3 DEF AcksUnique
<1>6. \A v \in Writers : ~Token(v)
  BY <1>2 DEF TokenAtEnd, Token
<1>7. TokenAtEnd'
  <2>. SUFFICES ASSUME NEW v \in Writers
                PROVE  /\ Token(v)' =>
                            /\ Survivors' = {file} /\ file = base'[v]
                            /\ Len(started) = Last(file).completed
                                                 + (IF did[v] THEN 1 ELSE 0)
                       /\ did[v] => Token(v)'
    BY <1>1, <1>3 DEF TokenAtEnd
  <2>1. ~did[v]
    BY <1>6 DEF TokenAtEnd
  <2>2. CASE v = w
    <3>. SUFFICES ASSUME Pending(file)
                  PROVE  Len(started) = Last(file).completed + 0
      BY <1>1, <1>3, <2>1, <2>2 DEF Token, Pending
    <3>1. Last(file).completed \in Int
      BY <1>2, LastStored DEF StoredJournal, Journal
    <3>. QED  BY <1>2, <3>1
  <2>3. CASE v # w
    BY <1>3, <1>6, <2>1, <2>3 DEF Token, Pending
  <2>. QED  BY <2>2, <2>3
<1>8. CallsCarryNews'
  <2>. SUFFICES ASSUME NEW v \in Writers, v # w
                PROVE  CarriesNews(v)'
    BY <1>3 DEF CallsCarryNews, CarriesNews
  <2>1. pc[v] \notin PcLocked
    BY DEF StoreInv, LockHeld, PcLocked
  <2>. QED  BY <1>3, <2>1 DEF CallsCarryNews, CarriesNews, PcLocked
<1>9. HeldDerived'
  BY <1>2, <1>3 DEF HeldDerived, Derivation, Pending
<1>. QED  BY <1>4, <1>5, <1>7, <1>8, <1>9

LEMMA InLockOrderInv ==
    ASSUME Invs, NEW w \in Writers, Lock(w) \/ InLock(w)
    PROVE  OrderInv'
<1>. USE DEF storage, disk, memory, ghost
<1>. TypeOK /\ OrderInv /\ CarriesNews(w)
  BY DEF Invs, OrderInv, CallsCarryNews
<1>1. ASSUME Raise(w)
      PROVE  OrderInv'
  <2>1. CarriesNews(w)'
    BY <1>1 DEF Raise, Goto, CarriesNews, TypeOK
  <2>. QED  BY <1>1, <2>1, PcOrderInv DEF Raise
<1>2. ASSUME NEW label, Goto(w, label), UNCHANGED <<disk, memory, ghost>>,
             \/ pc[w] = "create-lock" /\ label = "create-write"
             \/ pc[w] = "update-lock" /\ label = "update-compare"
             \/ pc[w] = "update-compare" /\ label = "update-write"
             \/ pc[w] = "create-write" /\ label = "create-link"
             \/ pc[w] = "update-write" /\ label = "update-replace"
             \/ pc[w] = "create-unlink" /\ label = "sync"
      PROVE  OrderInv'
  <2>1. CarriesNews(w)'
    BY <1>2 DEF Goto, CarriesNews, Pending, TypeOK
  <2>. QED  BY <1>2, <2>1, PcOrderInv
<1>3. CASE Lock(w)
  BY <1>2, <1>3 DEF Lock
<1>4. CASE Compare(w) \/ WriteTemp(w) \/ Unlink(w)
  BY <1>2, <1>4 DEF Compare, WriteTemp, Unlink
<1>5. CASE CompareFails(w) \/ WriteTempFails(w) \/ InstallFails(w) \/ SyncFails(w)
  BY <1>1, <1>5 DEF CompareFails, WriteTempFails, InstallFails, SyncFails
<1>. QED  BY <1>3, <1>4, <1>5, LinkOrderInv, ReplaceOrderInv, SyncOrderInv
          DEF InLock

LEMMA PowerLossOrderInv ==
    ASSUME Invs, PowerLoss
    PROVE  OrderInv'
<1>. USE DEF Invs, OrderInv, TypeOK, PowerLoss, ghost
<1>1. PICK h \in Survivors : file' = h /\ Survivors' = {h}
  BY DEF Flush, Survivors
<1>2. SurvivorsCounted' /\ EffectsInOrder'
  BY <1>1 DEF SurvivorsCounted, Counted, Pending, EffectsInOrder
<1>3. \A w \in Writers : /\ base'[w] = <<>> /\ held'[w] = <<>>
                         /\ ~ack'[w] /\ ~did'[w] /\ pc'[w] = "idle"
  OBVIOUS
<1>4. TokenAtEnd' /\ AcksUnique' /\ CallsCarryNews' /\ HeldDerived'
  BY <1>3 DEF TokenAtEnd, Token, AcksUnique, CallsCarryNews, CarriesNews,
              HeldDerived
<1>. QED  BY <1>2, <1>4

LEMMA NextOrderInv == Invs /\ [Next]_vars => OrderInv'
<1>. SUFFICES ASSUME Invs, [Next]_vars
              PROVE  OrderInv'
  OBVIOUS
<1>1. ASSUME NEW w \in Writers, Crash(w)
      PROVE  OrderInv'
  BY <1>1, EmptyHistory, ForgetOrderInv DEF Crash
<1>2. CASE UNCHANGED vars
  BY <1>2 DEF vars, storage, disk, memory, ghost, Invs, OrderInv,
              SurvivorsCounted, Counted, Pending, Survivors, TokenAtEnd,
              Token, AcksUnique, CallsCarryNews, CarriesNews, HeldDerived,
              Derivation, EffectsInOrder
<1>. QED  BY <1>1, <1>2, CallOrderInv, InLockOrderInv, PowerLossOrderInv
          DEF Next

LEMMA InvsHold == Spec => []Invs
<1>1. Init => Invs
  BY InitTypeOK, InitStoreInv, InitOrderInv DEF Invs
<1>2. Invs /\ [Next]_vars => Invs'
  BY NextTypeOK, NextStoreInv, NextOrderInv DEF Invs
<1>. QED  BY <1>1, <1>2, PTL DEF Spec

(* No race, retry, crash or power loss makes any process start an effect a *)
(* second time or before the effects the plan orders first.                *)
THEOREM EffectsInOrderHolds == Spec => []EffectsInOrder
<1>1. Invs => EffectsInOrder
  BY DEF Invs, OrderInv
<1>. QED  BY <1>1, InvsHold, PTL

(* What assess_recovery says of the journal found after a power loss is    *)
(* true of the host.                                                       *)
THEOREM RecoverySoundHolds == Spec => []RecoverySound
<1>1. Invs => RecoverySound
  <2>. SUFFICES ASSUME Invs, NEW h \in Survivors
                PROVE  IF h = <<>> THEN started = <<>>
                       ELSE TrueOfHost(AssessRecovery(Last(h), TRUE, TRUE),
                                       Last(h).completed)
    BY DEF RecoverySound
  <2>. DEFINE j == Last(h)
              class == AssessRecovery(j, TRUE, TRUE)
  <2>1. h \in History /\ started \in Seq(1..EffectCount) /\ Counted(h)
    BY DEF Invs, TypeOK, Survivors, OrderInv, SurvivorsCounted
  <2>2. CASE h = <<>>
    BY <2>1, <2>2 DEF Counted
  <2>3. CASE h # <<>>
    <3>1. j \in Journal /\ ValidJournal(j)
      BY <2>1, <2>3, LastStored DEF StoredJournal
    <3>2. j.prepared = NoEffect => Len(started) = j.completed
      BY <2>1, <2>3, <3>1 DEF Counted, Pending, Journal
    <3>3. class = "none" => j.status = "complete"
      BY DEF AssessRecovery
    <3>4. j.status = "complete" => /\ j.prepared = NoEffect
                                   /\ j.completed = EffectCount
      BY <3>1 DEF ValidJournal
    <3>5. class \in {"no-effect", "continuation-eligible",
                     "automatic-rollback-eligible"} => j.prepared = NoEffect
      BY DEF AssessRecovery
    <3>6. class = "no-effect" => j.completed = 0
      BY DEF AssessRecovery
    <3>. HIDE DEF class, j
    <3>7. TrueOfHost(class, j.completed)
      BY <2>1, <3>2, <3>3, <3>4, <3>5, <3>6 DEF TrueOfHost
    <3>. QED  BY <2>3, <3>7 DEF class, j
  <2>. QED  BY <2>2, <2>3
<1>. QED  BY <1>1, InvsHold, PTL
-----------------------------------------------------------------------------
(* Refinement: the store implements the write-ahead log *)

LEMMA PhasesShape ==
    ASSUME NEW h \in History
    PROVE  /\ Len(Phases(h)) = Len(h)
           /\ \A n \in 1..Len(h) : Phases(h)[n] = PhaseOf(h[n])
           /\ Phases(h) \in Seq({PhaseOf(j) : j \in StoredJournal})
<1>1. Len(h) \in Nat /\ \A n \in 1..Len(h) : h[n] \in StoredJournal
  BY DEF History
<1>. QED  BY <1>1 DEF Phases

LEMMA PhasesOfPrefix ==
    ASSUME NEW g \in History, NEW h \in History, IsPrefix(g, h)
    PROVE  Phases(g) = SubSeq(Phases(h), 1, Len(g))
<1>1. /\ Len(g) \in Nat /\ Len(h) \in Nat /\ Len(g) <= Len(h)
      /\ \A n \in 1..Len(g) : n \in 1..Len(h) /\ g[n] = h[n]
  BY DEF IsPrefix, History
<1>. DEFINE S == {PhaseOf(j) : j \in StoredJournal}
            cut == SubSeq(Phases(h), 1, Len(g))
<1>2. /\ cut \in Seq(S) /\ Len(cut) = Len(g)
      /\ \A n \in 1..Len(g) : cut[n] = Phases(h)[n]
  <2>1. \A n \in 1..Len(g) : n \in 1..Len(h) /\ h[n] \in StoredJournal
    BY <1>1 DEF History
  <2>2. \A n \in 1..Len(g) : Phases(h)[n] = PhaseOf(h[n])
    BY <2>1, PhasesShape
  <2>3. \A n \in 1..Len(g) : Phases(h)[n] \in S
    BY <2>1, <2>2
  <2>. QED  BY <1>1, <2>3, SubSeqProperties
<1>3. /\ Phases(g) \in Seq(S) /\ Len(Phases(g)) = Len(g)
      /\ \A n \in 1..Len(g) : Phases(g)[n] = cut[n]
  <2>1. \A n \in 1..Len(g) : Phases(h)[n] = PhaseOf(h[n])
    BY <1>1, PhasesShape
  <2>. HIDE DEF cut
  <2>2. \A n \in 1..Len(g) : Phases(g)[n] = cut[n]
    BY <1>1, <1>2, <2>1, PhasesShape
  <2>. QED  BY <2>2, PhasesShape
<1>. HIDE DEF S, cut
<1>4. Phases(g) = cut
  BY <1>2, <1>3, SeqEqual
<1>. QED  BY <1>4 DEF cut

LEMMA PhasesOfExtension ==
    ASSUME NEW h \in History, h # <<>>
    PROVE  Phases(h) = Append(Phases(Front(h)), PhaseOf(Last(h)))
<1>1. /\ Front(h) \in History /\ Len(h) \in Nat
      /\ Len(Front(h)) = Len(h) - 1
      /\ \A n \in 1..Len(h) - 1 : Front(h)[n] = h[n]
  <2>1. /\ Len(h) \in Nat \ {0}
        /\ \A n \in 1..Len(h) - 1 : h[n] \in StoredJournal
    BY DEF History
  <2>. DEFINE m == Len(h) - 1
              front == SubSeq(h, 1, m)
  <2>2. m \in Nat /\ \A n \in 1..m : h[n] \in StoredJournal
    BY <2>1
  <2>3. /\ front \in Seq(StoredJournal)
        /\ Len(front) = IF 1 <= m THEN m - 1 + 1 ELSE 0
        /\ \A n \in 1..m - 1 + 1 : front[n] = h[1 + n - 1]
    <3>. HIDE DEF m
    <3>. QED  BY <2>2, SubSeqProperties
  <2>4. Len(front) = m /\ \A n \in 1..m : front[n] = h[n]
    <3>. HIDE DEF m, front
    <3>1. (1 <= m => m - 1 + 1 = m) /\ (~(1 <= m) => m = 0)
      BY <2>2
    <3>2. m - 1 + 1 = m /\ \A n \in 1..m : 1 + n - 1 = n
      BY <2>2
    <3>. QED  BY <2>3, <3>1, <3>2
  <2>. QED  BY <2>1, <2>3, <2>4 DEF Front, History
<1>. DEFINE S == {PhaseOf(j) : j \in StoredJournal}
            front == Phases(Front(h))
            whole == Append(front, PhaseOf(Last(h)))
<1>2. /\ front \in Seq(S) /\ Len(front) = Len(h) - 1
      /\ \A n \in 1..Len(h) - 1 : front[n] = PhaseOf(h[n])
  BY <1>1, PhasesShape
<1>3. PhaseOf(Last(h)) \in S
  BY LastStored
<1>4. /\ Phases(h) \in Seq(S) /\ Len(Phases(h)) = Len(h)
      /\ \A n \in 1..Len(h) : Phases(h)[n] = PhaseOf(h[n])
  BY PhasesShape
<1>. HIDE DEF S, front
<1>5. /\ whole \in Seq(S) /\ Len(whole) = Len(h)
      /\ \A n \in 1..Len(h) : whole[n] = PhaseOf(h[n])
  BY <1>1, <1>2, <1>3 DEF Last
<1>. HIDE DEF whole
<1>6. Phases(h) = whole
  BY <1>4, <1>5, SeqEqual
<1>. QED  BY <1>6 DEF whole, front

(* Every record the operations derive takes the journal to a phase that    *)
(* may follow.                                                             *)
LEMMA SuccessorsFollow ==
    ASSUME NEW j \in StoredJournal, NEW d \in Successors(j)
    PROVE  PhaseOf(d) \in Abstract!Following(PhaseOf(j))
<1>. j \in Journal /\ ValidJournal(j)
  BY DEF StoredJournal
<1>. USE DEF PhaseOf, Abstract!Following, Abstract!Phase
<1>1. CASE d \in PrepareNextEffect(j)
  <2>1. /\ d = [j EXCEPT !.status = "effect-prepared",
                         !.prepared = j.completed + 1]
        /\ j.status \in {"reserved", "executing"}
        /\ j.completed < EffectCount
    BY <1>1 DEF PrepareNextEffect, Validated
  <2>2. d.status = "effect-prepared" /\ d.completed = j.completed
    BY <2>1 DEF Journal
  <2>. QED  BY <2>1, <2>2
<1>2. CASE d \in BeginFinalVerification(j)
  <2>1. /\ d = [j EXCEPT !.status = "verifying-final"]
        /\ j.status = "executing" /\ j.completed = EffectCount
    BY <1>2 DEF BeginFinalVerification, Validated
  <2>2. d.status = "verifying-final" /\ d.completed = j.completed
    BY <2>1 DEF Journal
  <2>. QED  BY <2>1, <2>2
<1>3. CASE d \in CompleteJournal(j)
  <2>1. /\ d = [j EXCEPT !.status = "complete", !.recovery = "none",
                         !.evidence = TRUE]
        /\ j.status = "verifying-final"
    BY <1>3 DEF CompleteJournal, Validated
  <2>2. d.status = "complete" /\ d.completed = j.completed
    BY <2>1 DEF Journal
  <2>. QED  BY <2>1, <2>2
<1>4. CASE d \in MarkIncomplete(j)
  <2>1. /\ d = [j EXCEPT !.status = "incomplete",
                         !.recovery = AssessRecovery(j, FALSE, FALSE),
                         !.reason = TRUE]
        /\ j.status \notin {"complete", "incomplete"}
    BY <1>4 DEF MarkIncomplete, Validated
  <2>2. d.status = "incomplete" /\ d.completed = j.completed
    BY <2>1 DEF Journal
  <2>3. j.status # "effect-prepared"
    BY <1>4, PreparedJournalCannotFail
  <2>4. j.status \in {"reserved", "executing", "verifying-final"}
    BY <2>1, <2>3 DEF Journal, Statuses
  <2>. QED  BY <2>2, <2>4
<1>5. CASE \E report \in Reports : d \in RecordEffectSuccess(j, report)
  BY <1>5, SuccessCountsOneEffect
<1>. QED  BY <1>1, <1>2, <1>3, <1>4, <1>5 DEF Successors, LocalSuccessors

LEMMA InitAbstract == Init => Abstract!Init
<1>. SUFFICES ASSUME Init PROVE Abstract!Init
  OBVIOUS
<1>1. Len(Phases(<<>>)) = 0 /\ Phases(<<>>) \in Seq({PhaseOf(j) : j \in StoredJournal})
  BY PhasesShape, EmptyHistory DEF History
<1>2. Phases(<<>>) = <<>>
  BY <1>1
<1>. QED  BY <1>2 DEF Init, Abstract!Init

(* An effect is started only at the flushed end of the log. *)
LEMMA StartEffectAbstract ==
    ASSUME Invs, NEW w \in Writers, StartEffect(w)
    PROVE  Abstract!Start
<1>. USE DEF Invs, OrderInv, TypeOK, StartEffect, storage, disk
<1>1. Token(w) /\ ~did[w]
  BY DEF Token, Pending
<1>2. /\ Survivors = {file} /\ file = base[w] /\ file # <<>>
      /\ Last(file) \in StoredJournal /\ Pending(file)
  BY <1>1, LastStored DEF TokenAtEnd, Token, Pending
<1>3. Len(started) = Last(file).completed
  BY <1>1, <1>2 DEF TokenAtEnd, StoredJournal, Journal
<1>4. /\ Last(file).prepared = Last(file).completed + 1
      /\ Last(file).status = "effect-prepared"
  BY <1>2 DEF Pending, StoredJournal, ValidJournal
<1>5. durable = file
  BY <1>2 DEF Survivors
<1>6. /\ Len(Phases(file)) = Len(file) /\ Phases(file) # <<>>
      /\ Phases(file)[Len(file)] = PhaseOf(Last(file))
  <2>1. Len(file) \in 1..Len(file)
    BY <1>2 DEF History
  <2>2. Len(Phases(file)) = Len(file) /\ Len(<<>>) = 0
    BY PhasesShape
  <2>3. Phases(file) # <<>>
    BY <2>1, <2>2
  <2>. QED  BY <2>1, <2>2, <2>3, PhasesShape DEF Last
<1>7. started' = Append(started, Len(started) + 1)
  BY <1>2, <1>3, <1>4
<1>. QED  BY <1>3, <1>4, <1>5, <1>6, <1>7
          DEF Abstract!Start, Abstract!LastPhase, PhaseOf

(* Replacing the file adds one record, whose phase may follow. *)
LEMMA ReplaceAbstract ==
    ASSUME Invs, NEW w \in Writers, Replace(w), SurvivorsCounted'
    PROVE  Abstract!Extend
<1>. USE DEF Invs, OrderInv, TypeOK
<1>1. /\ file = base[w] /\ file # <<>> /\ held[w] # <<>>
      /\ held[w] # base[w] /\ file = Front(held[w])
  BY DEF Replace, StoreInv, CallInProgress, CallsCarryNews, CarriesNews
<1>2. /\ Len(held[w]) = Len(file) + 1 /\ Len(file) \in 1..Len(file)
  BY <1>1 DEF Front, History
<1>3. Last(held[w]) \in Successors(Last(file)) /\ Last(file) \in StoredJournal
  <2>1. held[w][Len(base[w]) + 1] \in Successors(Last(base[w]))
    BY <1>1 DEF HeldDerived, Derivation
  <2>. QED  BY <1>1, <1>2, <2>1, LastStored DEF Last
<1>. DEFINE p == PhaseOf(Last(held[w]))
<1>4. Phases(file') = Append(Phases(file), p)
  BY <1>1, PhasesOfExtension DEF Replace, Install
<1>5. /\ Len(Phases(file)) = Len(file) /\ Phases(file) # <<>>
      /\ Phases(file)[Len(file)] = PhaseOf(Last(file))
  <2>1. Len(Phases(file)) = Len(file) /\ Len(<<>>) = 0
    BY PhasesShape
  <2>2. Phases(file) # <<>>
    BY <1>2, <2>1
  <2>. QED  BY <1>2, <2>1, <2>2, PhasesShape DEF Last
<1>6. p \in Abstract!Following(PhaseOf(Last(file)))
  BY <1>3, SuccessorsFollow
<1>7. p.completed <= Len(started)
  <2>1. held[w] \in Survivors' /\ started' = started
    BY DEF Replace, Install, Survivors, ghost
  <2>2. held'[w] = held[w]
    BY DEF Replace, memory
  <2>3. Counted(held[w])'
    BY <2>1, <2>2 DEF SurvivorsCounted
  <2>. QED  BY <1>1, <2>1, <2>2, <2>3 DEF Counted, PhaseOf
<1>8. UNCHANGED <<durable, started>>
  BY DEF Replace, Install, ghost
<1>. HIDE DEF p
<1>. QED  BY <1>4, <1>5, <1>6, <1>7, <1>8 DEF Abstract!Extend, Abstract!LastPhase

LEMMA LinkAbstract ==
    ASSUME Invs, NEW w \in Writers, Link(w)
    PROVE  Abstract!Open
<1>1. /\ file = <<>> /\ held[w] = <<NewJournal>> /\ file' = held[w]
      /\ UNCHANGED <<durable, started>>
  BY DEF Link, Install, ghost, Invs, OrderInv, CallsCarryNews, CarriesNews
<1>2. Phases(file) = <<>>
  <2>1. Len(Phases(<<>>)) = 0 /\ Phases(<<>>) \in Seq({PhaseOf(j) : j \in StoredJournal})
    BY PhasesShape, EmptyHistory DEF History
  <2>. QED  BY <1>1, <2>1
<1>3. Phases(<<NewJournal>>) = <<PhaseOf(NewJournal)>>
  <2>. DEFINE h == <<NewJournal>>
  <2>1. Len(h) = 1 /\ h[1] = NewJournal /\ h \in History
    BY NewHistory
  <2>. HIDE DEF h
  <2>2. /\ Len(Phases(h)) = 1
        /\ Phases(h)[1] = PhaseOf(NewJournal)
        /\ Phases(h) \in Seq({PhaseOf(j) : j \in StoredJournal})
    <3>1. 1 \in 1..Len(h)
      BY <2>1
    <3>. QED  BY <2>1, <3>1, PhasesShape
  <2>3. Phases(h) = <<PhaseOf(NewJournal)>>
    BY <2>2
  <2>. QED  BY <2>3 DEF h
<1>4. PhaseOf(NewJournal) = Abstract!Phase("reserved", 0)
  BY DEF PhaseOf, NewJournal, Abstract!Phase
<1>. QED  BY <1>1, <1>2, <1>3, <1>4 DEF Abstract!Open

LEMMA SyncAbstract ==
    ASSUME Invs, NEW w \in Writers, Sync(w)
    PROVE  Abstract!Flush
<1>1. file' = file /\ durable' = file /\ started' = started
  BY DEF Sync, Flush
<1>2. Len(Phases(file)) = Len(file)
  BY PhasesShape DEF Invs, TypeOK
<1>. QED  BY <1>1, <1>2 DEF Abstract!Flush

(* What a power loss leaves is a prefix no shorter than the flushed part. *)
LEMMA PowerLossAbstract ==
    ASSUME Invs, PowerLoss
    PROVE  Abstract!PowerLoss
<1>1. PICK h \in Survivors : file' = h /\ durable' = h
  BY DEF PowerLoss, Flush
<1>2. /\ h \in History /\ file \in History /\ durable \in History
      /\ IsPrefix(durable, h) /\ IsPrefix(h, file) /\ started' = started
  BY DEF Invs, TypeOK, Survivors, StoreInv, SurvivorsChained, PowerLoss, ghost
<1>3. Phases(h) = SubSeq(Phases(file), 1, Len(h))
  BY <1>2, PhasesOfPrefix
<1>4. Len(h) \in Len(durable)..Len(Phases(file))
  <2>1. Len(Phases(file)) = Len(file)
    BY <1>2, PhasesShape
  <2>. QED  BY <1>2, <2>1 DEF IsPrefix, History
<1>. QED  BY <1>1, <1>2, <1>3, <1>4 DEF Abstract!PowerLoss

LEMMA NextAbstract ==
    Invs /\ Invs' /\ [Next]_vars => [Abstract!Next]_(Abstract!vars)
<1>. SUFFICES ASSUME Invs, Invs', [Next]_vars
              PROVE  [Abstract!Next]_(Abstract!vars)
  OBVIOUS
<1>. USE DEF storage, disk, memory, ghost
<1>1. ASSUME UNCHANGED <<file, durable, started>>
      PROVE  UNCHANGED Abstract!vars
  BY <1>1 DEF Abstract!vars
<1>2. ASSUME NEW w \in Writers, Call(w)
      PROVE  Abstract!Start \/ UNCHANGED Abstract!vars
  BY <1>1, <1>2, StartEffectAbstract
     DEF Call, Create, Read, Advance, RecordSuccess, Derive, Update
<1>3. ASSUME NEW w \in Writers, InLock(w)
      PROVE  \/ Abstract!Open \/ Abstract!Extend \/ Abstract!Flush
             \/ UNCHANGED Abstract!vars
  <2>1. CASE Link(w)
    BY <2>1, LinkAbstract
  <2>2. CASE Replace(w)
    BY <2>2, ReplaceAbstract DEF Invs, OrderInv
  <2>3. CASE Sync(w)
    BY <2>3, SyncAbstract
  <2>4. CASE \/ Compare(w) \/ CompareFails(w) \/ WriteTemp(w)
             \/ WriteTempFails(w) \/ InstallFails(w) \/ Unlink(w) \/ SyncFails(w)
    BY <1>1, <2>4 DEF Compare, CompareFails, WriteTemp, WriteTempFails,
                      InstallFails, Unlink, SyncFails, Raise
  <2>. QED  BY <1>3, <2>1, <2>2, <2>3, <2>4 DEF InLock
<1>4. ASSUME NEW w \in Writers, Lock(w) \/ Crash(w)
      PROVE  UNCHANGED Abstract!vars
  BY <1>1, <1>4 DEF Lock, Crash
<1>5. CASE UNCHANGED vars
  BY <1>1, <1>5 DEF vars
<1>. QED  BY <1>2, <1>3, <1>4, <1>5, PowerLossAbstract DEF Next, Abstract!Next

(* The store, with any number of processes, crashing, racing and losing    *)
(* power as it may, behaves as a write-ahead log.                          *)
THEOREM Refinement == Spec => ImplementsWriteAheadLog
<1>. QED  BY InitAbstract, NextAbstract, InvsHold, PTL
          DEF Spec, ImplementsWriteAheadLog, Abstract!Spec
=============================================================================
