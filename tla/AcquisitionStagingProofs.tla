---------------------- MODULE AcquisitionStagingProofs ----------------------
(***************************************************************************)
(* The acquisition for every list of requests and every file system: types *)
(* for any number of processes; and, for one process at a time, that only  *)
(* verified content gets the name of a file, that the files keep within    *)
(* the aggregate limit, that a success is a complete one, and that all of  *)
(* this implements VerifiedFiles.  Two processes can publish what nobody   *)
(* verified (run staging_overlap).                                         *)
(***************************************************************************)
EXTENDS AcquisitionStaging, FiniteSetTheorems, WellFoundedInduction,
        TLAPS

Transfers == {"request", "receive", "link", "unlink"}

(* A process in a transfer is at a request of the list and has a file.     *)
AtRequest ==
    \A p \in Processes :
        /\ proc[p].pc \in {"open"} \cup Transfers => proc[p].file \in Files
        /\ proc[p].pc \in Transfers => proc[p].inode \in Inodes

TypeInv == TypeOK /\ AtRequest

LEMMA LeastOfTwo ==
    ASSUME NEW a \in Nat, NEW b \in Nat
    PROVE  Min({a, b}) \in Nat
<1>1. \E x \in {a, b} : \A y \in {a, b} : x <= y
  OBVIOUS
<1>. QED  BY <1>1 DEF Min

LEMMA TypeInit == Init => TypeInv
BY StagingAssumption
   DEF Init, TypeInv, TypeOK, AtRequest, Transfers, Acquisition, Idle, Empty,
       Files

(* A process that goes on to a new state of these types keeps the types.   *)
LEMMA ProcessType ==
    ASSUME TypeInv, NEW p \in Processes, NEW next \in Acquisition,
           next.pc \in {"open"} \cup Transfers => next.file \in Files,
           next.pc \in Transfers => next.inode \in Inodes,
           proc' = [proc EXCEPT ![p] = next]
    PROVE  proc' \in [Processes -> Acquisition] /\ AtRequest'
<1>1. proc \in [Processes -> Acquisition] /\ AtRequest
  BY DEF TypeInv, TypeOK
<1>2. proc' \in [Processes -> Acquisition]
  BY <1>1
<1>3. \A q \in Processes : proc'[q] = IF q = p THEN next ELSE proc[q]
  BY <1>1
<1>. QED  BY <1>1, <1>2, <1>3 DEF AtRequest

LEMMA AdvanceType ==
    ASSUME TypeInv, NEW p \in Processes, proc[p].file \in Files,
           NEW length \in Nat, Advance(p, length)
    PROVE  proc' \in [Processes -> Acquisition] /\ AtRequest'
<1>. DEFINE ahead == proc[p].file + 1
            sum == proc[p].aggregate + length
            next == [proc[p] EXCEPT !.pc = "next", !.file = ahead,
                                    !.inode = NoInode, !.aggregate = sum]
<1>1. FileCount \in Nat /\ proc \in [Processes -> Acquisition]
  BY StagingAssumption DEF TypeInv, TypeOK
<1>2. ahead \in 1..(FileCount + 1) /\ sum \in Nat
  BY <1>1 DEF Files, Acquisition
<1>3. proc' = [proc EXCEPT ![p] = next]
  BY <1>1 DEF Advance
<1>. HIDE DEF ahead, sum
<1>4. next \in Acquisition /\ next.pc = "next"
  BY <1>1, <1>2 DEF Acquisition
<1>. HIDE DEF next
<1>. QED  BY <1>3, <1>4, ProcessType DEF Transfers

(* The next state of a process of which only pc changes.                   *)
LEMMA GoesType ==
    ASSUME TypeInv, NEW p \in Processes,
           NEW pc \in {"root", "operation", "next", "done"} \cup Transfers,
           pc \in Transfers => proc[p].pc \in Transfers,
           proc' = [proc EXCEPT ![p].pc = pc]
    PROVE  proc' \in [Processes -> Acquisition] /\ AtRequest'
<1>. DEFINE next == [proc[p] EXCEPT !.pc = pc]
<1>1. proc \in [Processes -> Acquisition] /\ AtRequest
  BY DEF TypeInv, TypeOK
<1>2. /\ next \in Acquisition /\ next.pc = pc
      /\ next.file = proc[p].file /\ next.inode = proc[p].inode
  BY <1>1 DEF Acquisition, Transfers
<1>3. proc' = [proc EXCEPT ![p] = next]
  BY <1>1
<1>. HIDE DEF next
<1>. QED  BY <1>1, <1>2, <1>3, ProcessType DEF AtRequest, Transfers

LEMMA TypeNext == TypeInv /\ [Next]_vars => TypeInv'
<1>. SUFFICES ASSUME TypeInv, [Next]_vars
              PROVE  TypeInv'
  OBVIOUS
<1>. /\ setup \in {"absent", "root", "operation", "ready"}
     /\ final \in [Files -> Inodes \cup {NoInode}]
     /\ partial \in [Files -> Inodes \cup {NoInode}]
     /\ inode \in [Inodes ->
                      [written : Nat, length : Nat, genuine : BOOLEAN]]
     /\ proc \in [Processes -> Acquisition]
     /\ AtRequest
  BY DEF TypeInv, TypeOK
<1>1. CASE UNCHANGED vars
  BY <1>1 DEF vars, TypeInv, TypeOK, AtRequest
<1>2. ASSUME NEW p \in Processes, MakeRoot(p) \/ MakeOperation(p) \/ Reserve(p)
      PROVE  TypeInv'
  <2>1. PICK pc \in {"root", "operation", "next"} :
           proc' = [proc EXCEPT ![p].pc = pc]
    BY <1>2 DEF MakeRoot, MakeOperation, Reserve, Goes
  <2>2. proc' \in [Processes -> Acquisition] /\ AtRequest'
    BY <2>1, GoesType DEF Transfers
  <2>. QED  BY <1>2, <2>2
            DEF MakeRoot, MakeOperation, Reserve, TypeInv, TypeOK
<1>3. ASSUME NEW p \in Processes, Scan(p)
      PROVE  TypeInv'
  <2>. DEFINE next == [proc[p] EXCEPT !.pc = "clean", !.resume = TRUE,
                           !.todo = {f \in Files : partial[f] # NoInode}]
  <2>1. next \in Acquisition /\ next.pc = "clean"
    BY DEF Acquisition
  <2>2. proc' = [proc EXCEPT ![p] = next]
    BY <1>3 DEF Scan
  <2>. HIDE DEF next
  <2>3. proc' \in [Processes -> Acquisition] /\ AtRequest'
    BY <2>1, <2>2, ProcessType DEF Transfers
  <2>. QED  BY <1>3, <2>3 DEF Scan, TypeInv, TypeOK
<1>4. ASSUME NEW p \in Processes, RemovePartial(p)
      PROVE  TypeInv'
  <2>1. PICK f \in proc[p].todo :
           /\ partial' = [partial EXCEPT ![f] = NoInode]
           /\ proc' = [proc EXCEPT ![p].todo = @ \ {f}]
    BY <1>4 DEF RemovePartial
  <2>. DEFINE next == [proc[p] EXCEPT !.todo = @ \ {f}]
  <2>2. next \in Acquisition /\ next.pc = "clean"
    BY <1>4 DEF Acquisition, RemovePartial, At
  <2>3. proc' = [proc EXCEPT ![p] = next]
    BY <2>1
  <2>. HIDE DEF next
  <2>4. proc' \in [Processes -> Acquisition] /\ AtRequest'
    BY <2>2, <2>3, ProcessType DEF Transfers
  <2>. QED  BY <1>4, <2>1, <2>4 DEF RemovePartial, TypeInv, TypeOK
<1>5. ASSUME NEW p \in Processes, Cleaned(p) \/ Report(p)
      PROVE  TypeInv'
  <2>1. PICK pc \in {"next", "done"} :
           proc' = [proc EXCEPT ![p].pc = pc]
    BY <1>5 DEF Cleaned, Report, Goes
  <2>2. proc' \in [Processes -> Acquisition] /\ AtRequest'
    BY <2>1, GoesType DEF Transfers
  <2>. QED  BY <1>5, <2>2 DEF Cleaned, Report, TypeInv, TypeOK
<1>6. ASSUME NEW p \in Processes, SkipExisting(p)
      PROVE  TypeInv'
  <2>1. final[proc[p].file] \in Inodes /\ proc[p].file \in Files
    BY <1>6 DEF SkipExisting, Found
  <2>2. inode[final[proc[p].file]].written \in Nat
    BY <2>1
  <2>. QED  BY <1>6, <2>1, <2>2, AdvanceType
            DEF SkipExisting, TypeInv, TypeOK
<1>7. ASSUME NEW p \in Processes, Measure(p)
      PROVE  TypeInv'
  <2>. DEFINE room == Min({Size[proc[p].file], Limit - Usage})
              next == [proc[p] EXCEPT !.pc = "open", !.room = room]
  <2>1. room \in Nat
    <3>1. proc[p].file \in Files /\ Usage \in 0..(Limit - 1)
      BY <1>7 DEF Measure
    <3>2. Size[proc[p].file] \in Nat /\ Limit - Usage \in Nat
      BY <3>1, StagingAssumption
    <3>. QED  BY <3>2, LeastOfTwo
  <2>2. /\ proc' = [proc EXCEPT ![p] = next]
        /\ proc[p].file \in Files
    BY <1>7 DEF Measure, Room
  <2>. HIDE DEF room
  <2>3. next \in Acquisition /\ next.pc = "open" /\ next.file \in Files
    BY <2>1, <2>2 DEF Acquisition
  <2>. HIDE DEF next
  <2>4. proc' \in [Processes -> Acquisition] /\ AtRequest'
    BY <2>2, <2>3, ProcessType DEF Transfers
  <2>. QED  BY <1>7, <2>4 DEF Measure, TypeInv, TypeOK
<1>8. ASSUME NEW p \in Processes, OpenPartial(p)
      PROVE  TypeInv'
  <2>1. PICK i \in Inodes :
           /\ partial' = [partial EXCEPT ![proc[p].file] = i]
           /\ inode' = [inode EXCEPT ![i] = Empty]
           /\ proc' = [proc EXCEPT ![p].pc = "request", ![p].inode = i]
    BY <1>8 DEF OpenPartial
  <2>. DEFINE next == [proc[p] EXCEPT !.pc = "request", !.inode = i]
  <2>2. proc[p].file \in Files
    BY <1>8 DEF OpenPartial, At, AtRequest
  <2>3. /\ next \in Acquisition /\ next.pc = "request"
        /\ next.file = proc[p].file /\ next.inode = i
    BY DEF Acquisition
  <2>4. proc' = [proc EXCEPT ![p] = next]
    BY <2>1
  <2>. HIDE DEF next
  <2>5. proc' \in [Processes -> Acquisition] /\ AtRequest'
    BY <2>2, <2>3, <2>4, ProcessType
  <2>6. Empty \in [written : Nat, length : Nat, genuine : BOOLEAN]
    BY DEF Empty
  <2>. QED  BY <1>8, <2>1, <2>2, <2>5, <2>6 DEF OpenPartial, TypeInv, TypeOK
<1>9. ASSUME NEW p \in Processes, Respond(p)
      PROVE  TypeInv'
  <2>1. proc[p].file \in Files /\ proc[p].inode \in Inodes
    BY <1>9 DEF Respond, At, AtRequest, Transfers
  <2>2. PICK response \in Responses(proc[p].file) :
           inode' = [inode EXCEPT ![proc[p].inode].length = response.length,
                                  ![proc[p].inode].genuine = response.genuine]
    BY <1>9 DEF Respond
  <2>3. response.length \in Nat /\ response.genuine \in BOOLEAN
    BY <2>1, StagingAssumption DEF Responses, Lengths
  <2>4. inode' \in [Inodes ->
                       [written : Nat, length : Nat, genuine : BOOLEAN]]
    BY <2>1, <2>2, <2>3
  <2>5. proc' \in [Processes -> Acquisition] /\ AtRequest'
    BY <1>9, GoesType DEF Respond, Goes, At, Transfers
  <2>. QED  BY <1>9, <2>4, <2>5 DEF Respond, TypeInv, TypeOK
<1>10. ASSUME NEW p \in Processes, Receive(p)
       PROVE  TypeInv'
  <2>. DEFINE i == proc[p].inode
  <2>1. i \in Inodes
    BY <1>10 DEF Receive, At, AtRequest, Transfers
  <2>2. inode[i].written + 1 \in Nat
    BY <2>1
  <2>3. inode' = [inode EXCEPT ![i].written = inode[i].written + 1]
    BY <1>10 DEF Receive
  <2>4. inode' \in [Inodes ->
                       [written : Nat, length : Nat, genuine : BOOLEAN]]
    BY <2>1, <2>2, <2>3
  <2>. QED  BY <1>10, <2>4 DEF Receive, TypeInv, TypeOK, AtRequest
<1>11. ASSUME NEW p \in Processes, Verify(p) \/ Link(p)
       PROVE  TypeInv'
  <2>1. proc' \in [Processes -> Acquisition] /\ AtRequest'
    BY <1>11, GoesType DEF Verify, Link, Goes, At, Transfers
  <2>2. final' \in [Files -> Inodes \cup {NoInode}]
    <3>1. CASE Verify(p)
      BY <3>1 DEF Verify
    <3>2. CASE Link(p)
      <4>1. proc[p].file \in Files
        BY <3>2 DEF Link, At, AtRequest, Transfers
      <4>. QED  BY <3>2, <4>1 DEF Link
    <3>. QED  BY <1>11, <3>1, <3>2
  <2>. QED  BY <1>11, <2>1, <2>2 DEF Verify, Link, TypeInv, TypeOK
<1>12. ASSUME NEW p \in Processes, UnlinkPartial(p)
       PROVE  TypeInv'
  <2>1. proc[p].file \in Files /\ proc[p].inode \in Inodes
    BY <1>12 DEF UnlinkPartial, At, AtRequest, Transfers
  <2>2. inode[proc[p].inode].length \in Nat
    BY <2>1
  <2>. QED  BY <1>12, <2>1, <2>2, AdvanceType
            DEF UnlinkPartial, TypeInv, TypeOK
<1>13. ASSUME NEW p \in Processes, Stop(p)
       PROVE  TypeInv'
  <2>1. Idle \in Acquisition /\ Idle.pc = "idle"
    BY StagingAssumption DEF Idle, Acquisition
  <2>2. proc' \in [Processes -> Acquisition] /\ AtRequest'
    BY <1>13, <2>1, ProcessType DEF Stop, Transfers
  <2>. QED  BY <1>13, <2>2 DEF Stop, TypeInv, TypeOK
<1>. QED
  BY <1>1, <1>2, <1>3, <1>4, <1>5, <1>6, <1>7, <1>8, <1>9, <1>10, <1>11,
     <1>12, <1>13 DEF Next

(* All variables keep their types, whatever number of processes acquire    *)
(* into the same directory.                                                *)
THEOREM TypeCorrect == Spec => []TypeOK
<1>1. Spec => []TypeInv
  BY TypeInit, TypeNext, PTL DEF Spec
<1>. QED  BY <1>1, PTL DEF TypeInv
-----------------------------------------------------------------------------
(* The inductive invariant of a single process p.                          *)

(* The reservation is p's until it is ready, and nothing is in it yet.     *)
Reserved(p) ==
    /\ proc[p].pc = "root" => setup = "root"
    /\ proc[p].pc = "operation" => setup = "operation"
    /\ setup # "ready" =>
          /\ proc[p].pc \in {"idle", "root", "operation"}
          /\ \A f \in Files : final[f] = NoInode /\ partial[f] = NoInode

(* The only partial file is the one in transfer, or still to be removed.   *)
PartialKnown(p) ==
    /\ proc[p].pc = "clean" =>
          \A f \in Files : partial[f] # NoInode => f \in proc[p].todo
    /\ proc[p].pc \in {"next", "open", "done"} =>
          \A f \in Files : partial[f] = NoInode
    /\ proc[p].pc \in Transfers =>
          /\ partial[proc[p].file] = proc[p].inode
          /\ \A f \in Files : partial[f] # NoInode => f = proc[p].file

(* What p writes has the name of a file only when p has verified it.       *)
WritesPartial(p) ==
    /\ proc[p].pc \in Transfers \ {"unlink"} =>
          \A f \in Files : final[f] # proc[p].inode
    /\ proc[p].pc = "unlink" => final[proc[p].file] = proc[p].inode
    /\ proc[p].pc \in Transfers \ {"request"} =>
          (proc[p].file \in Packages =>
               inode[proc[p].inode].length = Size[proc[p].file])
    /\ proc[p].pc \in {"link", "unlink"} =>
          /\ inode[proc[p].inode].written = inode[proc[p].inode].length
          /\ proc[p].file \in Packages => inode[proc[p].inode].genuine

(* The requests before the current one are staged.                         *)
EarlierStaged(p) ==
    /\ proc[p].pc \in {"idle", "root", "operation", "clean"} =>
          proc[p].file = 1
    /\ \A f \in Files : f < proc[p].file => final[f] # NoInode
    /\ proc[p].pc = "done" => proc[p].file \notin Files

SerialInv(p) ==
    /\ StagedVerified
    /\ Reserved(p) /\ PartialKnown(p) /\ WritesPartial(p) /\ EarlierStaged(p)

LEMMA SerialInit ==
    ASSUME NEW p \in Processes, Init
    PROVE  SerialInv(p)
<1>1. /\ proc[p] = Idle
      /\ \A f \in Files : final[f] = NoInode /\ partial[f] = NoInode
  BY DEF Init
<1>2. \A f \in Files : ~(f < 1)
  BY StagingAssumption DEF Files
<1>. QED
  BY <1>1, <1>2
     DEF SerialInv, StagedVerified, Reserved, PartialKnown, WritesPartial,
         EarlierStaged, Transfers, Idle
(* What is staged stays verified if a step only writes elsewhere.          *)
LEMMA StagedKept ==
    ASSUME StagedVerified, final' = final,
           \A f \in Files : final[f] # NoInode =>
               inode'[final[f]] = inode[final[f]]
    PROVE  StagedVerified'
BY DEF StagedVerified

LEMMA SerialNext ==
    ASSUME NEW p, Processes = {p}, TypeInv, SerialInv(p), [Next]_vars
    PROVE  SerialInv(p)'
<1>. USE DEF At
<1>. p \in Processes
  OBVIOUS
<1>1. /\ setup \in {"absent", "root", "operation", "ready"}
      /\ final \in [Files -> Inodes \cup {NoInode}]
      /\ partial \in [Files -> Inodes \cup {NoInode}]
      /\ inode \in [Inodes ->
                       [written : Nat, length : Nat, genuine : BOOLEAN]]
      /\ proc \in [Processes -> Acquisition]
      /\ proc[p] \in Acquisition
      /\ AtRequest
  BY DEF TypeInv, TypeOK
<1>2. /\ StagedVerified /\ Reserved(p)
      /\ PartialKnown(p) /\ WritesPartial(p) /\ EarlierStaged(p)
  BY DEF SerialInv
<1>4. CASE UNCHANGED vars
  BY <1>2, <1>4
     DEF vars, SerialInv, StagedVerified, Reserved, PartialKnown,
         WritesPartial, EarlierStaged
<1>5. CASE MakeRoot(p) \/ MakeOperation(p) \/ Reserve(p)
  <2>1. PICK pc \in {"root", "operation", "next"} :
           proc' = [proc EXCEPT ![p].pc = pc]
    BY <1>5 DEF MakeRoot, MakeOperation, Reserve, Goes
  <2>2. /\ proc'[p].pc = pc /\ proc'[p].file = proc[p].file
        /\ UNCHANGED <<final, partial, inode>>
    BY <1>1, <1>5, <2>1 DEF Acquisition, MakeRoot, MakeOperation, Reserve
  <2>3. /\ setup # "ready" /\ proc[p].file = 1
        /\ pc = "root" => setup' = "root"
        /\ pc = "operation" => setup' = "operation"
        /\ pc = "next" => setup' = "ready"
    <3>1. CASE MakeRoot(p)
      <4>1. proc'[p].pc = "root"
        BY <1>1, <3>1 DEF MakeRoot, Goes, Acquisition
      <4>. QED
        BY <1>2, <2>2, <3>1, <4>1 DEF MakeRoot, EarlierStaged
    <3>2. CASE MakeOperation(p)
      <4>1. proc'[p].pc = "operation"
        BY <1>1, <3>2 DEF MakeOperation, Goes, Acquisition
      <4>. QED
        BY <1>2, <2>2, <3>2, <4>1 DEF MakeOperation, EarlierStaged, Reserved
    <3>3. CASE Reserve(p)
      <4>1. proc'[p].pc = "next"
        BY <1>1, <3>3 DEF Reserve, Goes, Acquisition
      <4>. QED
        BY <1>2, <2>2, <3>3, <4>1 DEF Reserve, EarlierStaged, Reserved
    <3>. QED  BY <1>5, <3>1, <3>2, <3>3
  <2>. QED
    BY <1>2, <2>2, <2>3
       DEF SerialInv, StagedVerified, Reserved, PartialKnown, WritesPartial,
           EarlierStaged, Transfers
<1>6. CASE Scan(p)
  <2>1. /\ proc'[p].pc = "clean" /\ proc'[p].file = proc[p].file
        /\ proc'[p].todo = {f \in Files : partial[f] # NoInode}
        /\ proc[p].pc = "idle" /\ setup = "ready"
        /\ UNCHANGED <<setup, final, partial, inode>>
    BY <1>1, <1>6 DEF Acquisition, Scan, Opened, At
  <2>. QED
    BY <1>2, <2>1
       DEF SerialInv, StagedVerified, Reserved, PartialKnown, WritesPartial,
           EarlierStaged, Transfers
<1>7. CASE RemovePartial(p)
  <2>1. PICK f \in proc[p].todo :
           /\ partial' = [partial EXCEPT ![f] = NoInode]
           /\ proc' = [proc EXCEPT ![p].todo = @ \ {f}]
    BY <1>7 DEF RemovePartial
  <2>2. /\ proc'[p].pc = "clean" /\ proc'[p].file = proc[p].file
        /\ proc'[p].todo = proc[p].todo \ {f}
        /\ proc[p].pc = "clean"
        /\ UNCHANGED <<setup, final, inode>>
    BY <1>1, <1>7, <2>1 DEF Acquisition, RemovePartial
  <2>3. /\ \A g \in Files : partial'[g] # NoInode =>
              g # f /\ partial[g] # NoInode
        /\ setup = "ready"
    BY <1>1, <1>2, <2>1, <2>2 DEF Reserved
  <2>. QED
    BY <1>2, <2>2, <2>3
       DEF SerialInv, StagedVerified, Reserved, PartialKnown, WritesPartial,
           EarlierStaged, Transfers
<1>8. CASE Cleaned(p)
  <2>1. /\ proc'[p].pc = "next" /\ proc'[p].file = proc[p].file
        /\ proc[p].pc = "clean" /\ proc[p].todo = {}
        /\ UNCHANGED <<setup, final, partial, inode>>
    BY <1>1, <1>8 DEF Acquisition, Cleaned, Goes
  <2>. QED
    BY <1>2, <2>1
       DEF SerialInv, StagedVerified, Reserved, PartialKnown, WritesPartial,
           EarlierStaged, Transfers
<1>9. CASE SkipExisting(p)
  <2>1. /\ proc'[p].pc = "next" /\ proc'[p].file = proc[p].file + 1
        /\ proc[p].pc = "next" /\ final[proc[p].file] # NoInode
        /\ proc[p].file \in Files
        /\ UNCHANGED <<setup, final, partial, inode>>
    BY <1>1, <1>9 DEF Acquisition, SkipExisting, NextRequest, Advance
  <2>2. \A f \in Files : f < proc'[p].file =>
            f < proc[p].file \/ f = proc[p].file
    BY <2>1, StagingAssumption DEF Files
  <2>. QED
    BY <1>2, <2>1, <2>2
       DEF SerialInv, StagedVerified, Reserved, PartialKnown, WritesPartial,
           EarlierStaged, Transfers
<1>10. CASE Measure(p)
  <2>1. /\ proc'[p].pc = "open" /\ proc'[p].file = proc[p].file
        /\ proc[p].pc = "next"
        /\ UNCHANGED <<setup, final, partial, inode>>
    BY <1>1, <1>10 DEF Acquisition, Measure, NextRequest
  <2>. QED
    BY <1>2, <2>1
       DEF SerialInv, StagedVerified, Reserved, PartialKnown, WritesPartial,
           EarlierStaged, Transfers
<1>11. CASE OpenPartial(p)
  <2>1. PICK i \in Inodes :
           /\ Unused(i)
           /\ partial' = [partial EXCEPT ![proc[p].file] = i]
           /\ inode' = [inode EXCEPT ![i] = Empty]
           /\ proc' = [proc EXCEPT ![p].pc = "request", ![p].inode = i]
    BY <1>11 DEF OpenPartial
  <2>2. /\ proc'[p].pc = "request" /\ proc'[p].file = proc[p].file
        /\ proc'[p].inode = i /\ proc[p].pc = "open"
        /\ proc[p].file \in Files
        /\ UNCHANGED <<setup, final>>
    BY <1>1, <1>11, <2>1 DEF Acquisition, OpenPartial, AtRequest
  <2>3. \A f \in Files : final[f] # i
    BY <2>1 DEF Unused
  <2>4. /\ partial'[proc[p].file] = i
        /\ \A f \in Files : f # proc[p].file => partial'[f] = partial[f]
    BY <1>1, <2>1, <2>2
  <2>5. StagedVerified'
    BY <1>1, <1>2, <2>1, <2>2, <2>3, StagedKept
  <2>. QED
    BY <1>2, <2>2, <2>3, <2>4, <2>5
       DEF SerialInv, Reserved, PartialKnown, WritesPartial, EarlierStaged,
           Transfers
<1>12. CASE Respond(p) \/ Receive(p)
  <2>. DEFINE i == proc[p].inode
              f == proc[p].file
  <2>1. /\ proc[p].pc \in {"request", "receive"} /\ proc'[p].pc = "receive"
        /\ proc'[p].file = f /\ proc'[p].inode = i
        /\ UNCHANGED <<setup, final, partial>>
    BY <1>1, <1>12 DEF Acquisition, Respond, Receive, Goes
  <2>2. i \in Inodes /\ f \in Files
    BY <1>1, <2>1 DEF AtRequest, Transfers
  <2>3. \A g \in Files : final[g] # i
    BY <1>2, <2>1 DEF WritesPartial, Transfers
  <2>4. StagedVerified'
    BY <1>1, <1>2, <1>12, <2>1, <2>3, StagedKept DEF Respond, Receive
  <2>5. f \in Packages => inode'[i].length = Size[f]
    BY <1>1, <1>2, <1>12, <2>1, <2>2
       DEF Respond, Receive, WritesPartial, Transfers
  <2>. QED
    BY <1>2, <2>1, <2>2, <2>3, <2>4, <2>5
       DEF SerialInv, Reserved, PartialKnown, WritesPartial, EarlierStaged,
           Transfers
<1>13. CASE Verify(p)
  <2>1. /\ proc'[p].pc = "link" /\ proc'[p].file = proc[p].file
        /\ proc'[p].inode = proc[p].inode /\ proc[p].pc = "receive"
        /\ inode[proc[p].inode].written = inode[proc[p].inode].length
        /\ proc[p].file \in Packages => inode[proc[p].inode].genuine
        /\ UNCHANGED <<setup, final, partial, inode>>
    BY <1>1, <1>13 DEF Acquisition, Verify, Goes
  <2>. QED
    BY <1>2, <2>1
       DEF SerialInv, StagedVerified, Reserved, PartialKnown, WritesPartial,
           EarlierStaged, Transfers
<1>14. CASE Link(p)
  <2>. DEFINE i == proc[p].inode
              f == proc[p].file
  <2>1. /\ proc'[p].pc = "unlink" /\ proc'[p].file = f
        /\ proc'[p].inode = i /\ proc[p].pc = "link"
        /\ final' = [final EXCEPT ![f] = partial[f]]
        /\ UNCHANGED <<setup, partial, inode>>
    BY <1>1, <1>14 DEF Acquisition, Link, Goes
  <2>2. i \in Inodes /\ f \in Files
    BY <1>1, <2>1 DEF AtRequest, Transfers
  <2>3. partial[f] = i /\ setup = "ready"
    BY <1>2, <2>1 DEF PartialKnown, Reserved, Transfers
  <2>4. /\ final'[f] = i
        /\ \A g \in Files : g # f => final'[g] = final[g]
    BY <1>1, <2>1, <2>2, <2>3
  <2>5. /\ inode[i].written = inode[i].length
        /\ f \in Packages =>
               inode[i].genuine /\ inode[i].written = Size[f]
    BY <1>2, <2>1 DEF WritesPartial, Transfers
  <2>6. StagedVerified'
    BY <1>2, <2>1, <2>4, <2>5 DEF StagedVerified
  <2>7. \A g \in Files : g < f => final'[g] # NoInode
    BY <1>2, <2>2, <2>4, StagingAssumption DEF EarlierStaged
  <2>8. WritesPartial(p)'
    BY <1>2, <2>1, <2>4, <2>5 DEF WritesPartial, Transfers
  <2>. QED
    BY <1>2, <2>1, <2>3, <2>6, <2>7, <2>8
       DEF SerialInv, Reserved, PartialKnown, EarlierStaged, Transfers
<1>15. CASE UnlinkPartial(p)
  <2>. DEFINE f == proc[p].file
  <2>1. /\ proc'[p].pc = "next" /\ proc'[p].file = f + 1
        /\ proc[p].pc = "unlink"
        /\ partial' = [partial EXCEPT ![f] = NoInode]
        /\ UNCHANGED <<setup, final, inode>>
    BY <1>1, <1>15 DEF Acquisition, UnlinkPartial, Advance
  <2>2. proc[p].inode \in Inodes /\ f \in Files
    BY <1>1, <2>1 DEF AtRequest, Transfers
  <2>3. final[f] # NoInode /\ setup = "ready"
    BY <1>2, <2>1, <2>2, StagingAssumption
       DEF WritesPartial, Reserved, Transfers
  <2>4. \A g \in Files : partial'[g] = NoInode
    BY <1>1, <1>2, <2>1, <2>2 DEF PartialKnown, Transfers
  <2>5. \A g \in Files : g < f + 1 => g < f \/ g = f
    BY <2>2, StagingAssumption DEF Files
  <2>. QED
    BY <1>2, <2>1, <2>3, <2>4, <2>5
       DEF SerialInv, StagedVerified, Reserved, PartialKnown, WritesPartial,
           EarlierStaged, Transfers
<1>16. CASE Report(p)
  <2>1. /\ proc'[p].pc = "done" /\ proc'[p].file = proc[p].file
        /\ proc[p].pc = "next" /\ proc[p].file \notin Files
        /\ UNCHANGED <<setup, final, partial, inode>>
    BY <1>1, <1>16 DEF Acquisition, Report, NextRequest, Goes
  <2>. QED
    BY <1>2, <2>1
       DEF SerialInv, StagedVerified, Reserved, PartialKnown, WritesPartial,
           EarlierStaged, Transfers
<1>17. CASE Stop(p)
  <2>1. /\ proc'[p] = Idle
        /\ UNCHANGED <<setup, final, partial, inode>>
    BY <1>1, <1>17 DEF Stop
  <2>2. \A f \in Files : ~(f < 1)
    BY StagingAssumption DEF Files
  <2>. QED
    BY <1>2, <2>1, <2>2
       DEF SerialInv, StagedVerified, Reserved, PartialKnown, WritesPartial,
           EarlierStaged, Transfers, Idle
<1>. QED
  BY <1>4, <1>5, <1>6, <1>7, <1>8, <1>9, <1>10, <1>11, <1>12, <1>13, <1>14,
     <1>15, <1>16, <1>17 DEF Next

(* Whatever the server sends and whenever the process is interrupted, only *)
(* complete and, for packages, genuine content ever has the name of a      *)
(* requested file, as long as one process at a time acquires.              *)
THEOREM StagedVerifiedSerial ==
    ASSUME NEW p, Processes = {p}
    PROVE  Spec => []StagedVerified
<1>1. Init => TypeInv /\ SerialInv(p)
  BY TypeInit, SerialInit
<1>2. TypeInv /\ SerialInv(p) /\ [Next]_vars => (TypeInv /\ SerialInv(p))'
  BY TypeNext, SerialNext
<1>3. TypeInv /\ SerialInv(p) => StagedVerified
  BY DEF SerialInv
<1>. QED  BY <1>1, <1>2, <1>3, PTL DEF Spec

(* A success that one process reports is a complete acquisition, however   *)
(* often it was interrupted and resumed before.                            *)
THEOREM ReportCompleteSerial ==
    ASSUME NEW p, Processes = {p}
    PROVE  Spec => []ReportComplete
<1>1. Init => TypeInv /\ SerialInv(p)
  BY TypeInit, SerialInit
<1>2. TypeInv /\ SerialInv(p) /\ [Next]_vars => (TypeInv /\ SerialInv(p))'
  BY TypeNext, SerialNext
<1>3. TypeInv /\ SerialInv(p) => ReportComplete
  <2>. SUFFICES ASSUME TypeInv, SerialInv(p), proc[p].pc = "done",
                       NEW f \in Files
                PROVE  final[f] # NoInode /\ partial[f] = NoInode
    BY DEF ReportComplete, At
  <2>1. /\ proc[p].file \in 1..(FileCount + 1)
        /\ proc[p].file \notin Files
    BY DEF TypeInv, TypeOK, Acquisition, SerialInv, EarlierStaged
  <2>2. f < proc[p].file
    BY <2>1, StagingAssumption DEF Files
  <2>. QED  BY <2>2 DEF SerialInv, EarlierStaged, PartialKnown
<1>. QED  BY <1>1, <1>2, <1>3, PTL DEF Spec
-----------------------------------------------------------------------------
(* Sums over finite sets.  A recursive function has a value because a      *)
(* smallest set without one cannot be: the induction below is by the least *)
(* counterexample, over sets of numbers and sets of sets, so that no       *)
(* operator has to be instantiated.                                        *)

(* A set of numbers that is not empty has a least element.                 *)
LEMMA Least ==
    ASSUME NEW T, T \subseteq Nat, T # {}
    PROVE  \E n \in T : \A m \in T : n <= m
<1>. DEFINE R == OpToRel(<, Nat)
<1>1. IsWellFoundedOn(R, Nat)
  BY NatLessThanWellFounded
<1>2. \A x, y \in Nat : y < x => <<y, x>> \in R
  BY DEF OpToRel
<1>. HIDE DEF R
<1>3. PICK n \in T : \A m \in T : ~(<<m, n>> \in R)
  BY <1>1, WFMin
<1>4. ASSUME NEW m \in T PROVE n <= m
  <2>1. n \in Nat /\ m \in Nat
    OBVIOUS
  <2>2. ~(m < n)
    BY <1>2, <1>3, <2>1
  <2>. QED  BY <2>1, <2>2
<1>. QED  BY <1>4

(* Induction over the natural numbers, about a set of numbers.             *)
LEMMA NumberInduction ==
    ASSUME NEW P, 0 \in P, \A n \in Nat : n \in P => n + 1 \in P
    PROVE  Nat \subseteq P
<1>. SUFFICES ASSUME Nat \ P # {}
              PROVE  FALSE
  OBVIOUS
<1>1. PICK n \in Nat \ P : \A m \in Nat \ P : n <= m
  BY Least
<1>2. n # 0 /\ n - 1 \in Nat /\ (n - 1) + 1 = n /\ ~(n <= n - 1)
  BY <1>1
<1>3. n - 1 \in P
  BY <1>1, <1>2
<1>4. (n - 1) + 1 \in P
  BY <1>2, <1>3
<1>. QED  BY <1>1, <1>2, <1>4

(* Induction over the subsets of a finite set, from those with one element *)
(* less.                                                                   *)
LEMMA SetInduction ==
    ASSUME NEW S, IsFiniteSet(S), NEW P,
           \A T \in SUBSET S : (\A x \in T : T \ {x} \in P) => T \in P
    PROVE  \A T \in SUBSET S : T \in P
<1>. DEFINE Sizes == {n \in Nat : \A T \in SUBSET S :
                          Cardinality(T) = n => T \in P}
<1>1. \A T \in SUBSET S : IsFiniteSet(T) /\ Cardinality(T) \in Nat
  BY FS_Subset, FS_CardinalityType
<1>2. 0 \in Sizes
  <2>. SUFFICES ASSUME NEW T \in SUBSET S, Cardinality(T) = 0
                PROVE  T \in P
    OBVIOUS
  <2>1. T = {}
    BY <1>1, FS_EmptySet
  <2>. QED  BY <2>1
<1>3. ASSUME NEW n \in Nat, n \in Sizes
      PROVE  n + 1 \in Sizes
  <2>. SUFFICES ASSUME NEW T \in SUBSET S, Cardinality(T) = n + 1
                PROVE  T \in P
    OBVIOUS
  <2>1. ASSUME NEW x \in T
        PROVE  T \ {x} \in P
    <3>1. Cardinality(T \ {x}) = n
      BY <1>1, FS_RemoveElement
    <3>. QED  BY <1>3, <3>1
  <2>. QED  BY <2>1
<1>. HIDE DEF Sizes
<1>4. Nat \subseteq Sizes
  BY <1>2, <1>3, NumberInduction
<1>. QED  BY <1>1, <1>4 DEF Sizes

(* The element that MapThenSumSet takes next *)
Pick(s) == CHOOSE x \in s : TRUE

(* F sums h over the subsets of S *)
Sums(F, h, S) ==
    F = [s \in SUBSET S |->
            IF s = {} THEN 0 ELSE h[Pick(s)] + F[s \ {Pick(s)}]]

Sum(h, S) == MapThenSumSet(LAMBDA x : h[x], S)

(* Such a function exists: one that is right up to size n gives one that   *)
(* is right up to n + 1.                                                   *)
LEMMA SumsExists ==
    ASSUME NEW h, NEW S, IsFiniteSet(S)
    PROVE  \E F : Sums(F, h, S)
<1>. DEFINE Extend(F) == [s \in SUBSET S |->
                IF s = {} THEN 0 ELSE h[Pick(s)] + F[s \ {Pick(s)}]]
            Upto(F, n) == \A s \in SUBSET S :
                Cardinality(s) <= n => F[s] = Extend(F)[s]
            Done == {n \in Nat : \E F : Upto(F, n)}
<1>1. \A s \in SUBSET S : IsFiniteSet(s) /\ Cardinality(s) \in Nat
  BY FS_Subset, FS_CardinalityType
<1>2. 0 \in Done
  <2>1. ASSUME NEW s \in SUBSET S, Cardinality(s) <= 0
        PROVE  s = {}
    BY <1>1, <2>1, FS_EmptySet
  <2>. DEFINE F == [s \in SUBSET S |-> 0]
  <2>2. Upto(F, 0)
    BY <2>1
  <2>. QED  BY <2>2
<1>3. \A s \in SUBSET S : \A F :
        /\ Extend(F)[s] =
              IF s = {} THEN 0 ELSE h[Pick(s)] + F[s \ {Pick(s)}]
        /\ Extend(F) = [t \in SUBSET S |-> Extend(F)[t]]
  OBVIOUS
<1>4. \A s \in SUBSET S : s # {} =>
        /\ Pick(s) \in s /\ s \ {Pick(s)} \in SUBSET S
        /\ Cardinality(s) = Cardinality(s \ {Pick(s)}) + 1
  <2>. SUFFICES ASSUME NEW s \in SUBSET S, s # {}
                PROVE  /\ Pick(s) \in s
                       /\ Cardinality(s) = Cardinality(s \ {Pick(s)}) + 1
    OBVIOUS
  <2>1. Pick(s) \in s
    BY DEF Pick
  <2>2. Cardinality(s \ {Pick(s)}) = Cardinality(s) - 1
    BY <1>1, <2>1, FS_RemoveElement
  <2>. QED  BY <1>1, <2>1, <2>2
<1>. HIDE DEF Extend
<1>5. ASSUME NEW n \in Nat, NEW F, Upto(F, n)
      PROVE  Upto(Extend(F), n + 1)
  <2>1. \A s \in SUBSET S : Cardinality(s) <= n => Extend(F)[s] = F[s]
    BY <1>5
  <2>. SUFFICES ASSUME NEW s \in SUBSET S, Cardinality(s) <= n + 1
                PROVE  Extend(F)[s] = Extend(Extend(F))[s]
    BY <2>1
  <2>2. CASE s = {}
    BY <1>3, <2>2
  <2>3. CASE s # {}
    <3>. DEFINE r == s \ {Pick(s)}
    <3>1. r \in SUBSET S /\ Cardinality(r) <= n
      BY <1>1, <1>4, <2>3
    <3>2. Extend(F)[r] = F[r]
      BY <2>1, <3>1
    <3>. QED  BY <1>3, <2>3, <3>2
  <2>. QED  BY <2>2, <2>3
<1>6. ASSUME NEW n \in Nat, n \in Done
      PROVE  n + 1 \in Done
  BY <1>5, <1>6
<1>7. Nat \subseteq Done
  <2>. HIDE DEF Done
  <2>. QED  BY <1>2, <1>6, NumberInduction
<1>8. /\ Cardinality(S) \in Nat
      /\ \A s \in SUBSET S : Cardinality(s) <= Cardinality(S)
  BY <1>1, FS_Subset
<1>9. PICK F : Upto(F, Cardinality(S))
  BY <1>7, <1>8
<1>10. Upto(Extend(F), Cardinality(S) + 1)
  BY <1>5, <1>8, <1>9
<1>11. \A s \in SUBSET S : Extend(F)[s] = Extend(Extend(F))[s]
  <2>1. \A s \in SUBSET S : Cardinality(s) <= Cardinality(S) + 1
    BY <1>1, <1>8
  <2>. QED  BY <1>10, <2>1
<1>12. Extend(F) = Extend(Extend(F))
  BY <1>11 DEF Extend
<1>. QED  BY <1>12 DEF Sums, Extend

(* Sum is the value of such a function *)
LEMMA SumUnfold ==
    ASSUME NEW h, NEW S, IsFiniteSet(S)
    PROVE  \E F : Sums(F, h, S) /\ Sum(h, S) = F[S]
<1>. DEFINE F == CHOOSE f : Sums(f, h, S)
<1>1. Sums(F, h, S)
  BY SumsExists
<1>2. Sum(h, S) = F[S]
  BY DEF Sum, MapThenSumSet, MapThenFoldSet, Sums, Pick
<1>. QED  BY <1>1, <1>2

LEMMA SumsValue ==
    ASSUME NEW h, NEW S, NEW F, Sums(F, h, S)
    PROVE  /\ F[{}] = 0
           /\ \A s \in SUBSET S : s # {} =>
                 Pick(s) \in s /\ F[s] = h[Pick(s)] + F[s \ {Pick(s)}]
BY DEF Sums, Pick

(* Two of them agree on the sets that both can sum.                        *)
LEMMA SumsAgree ==
    ASSUME NEW S, IsFiniteSet(S), NEW h, NEW F, Sums(F, h, S),
           NEW R, NEW k, NEW G, Sums(G, k, R), S \subseteq R,
           \A x \in S : h[x] = k[x]
    PROVE  \A T \in SUBSET S : F[T] = G[T]
<1>2. \A T \in SUBSET S : T # {} =>
         Pick(T) \in T /\ F[T] = h[Pick(T)] + F[T \ {Pick(T)}]
  BY SumsValue
<1>3. \A T \in SUBSET S : T # {} => G[T] = k[Pick(T)] + G[T \ {Pick(T)}]
  BY SumsValue
<1>. DEFINE P == {T \in SUBSET S : F[T] = G[T]}
<1>1. ASSUME NEW T \in SUBSET S, \A x \in T : T \ {x} \in P
      PROVE  T \in P
  <2>1. CASE T = {}
    BY <2>1, SumsValue
  <2>2. CASE T # {}
    <3>1. /\ Pick(T) \in T
          /\ F[T] = h[Pick(T)] + F[T \ {Pick(T)}]
          /\ G[T] = k[Pick(T)] + G[T \ {Pick(T)}]
      BY <1>2, <1>3, <2>2
    <3>. QED  BY <1>1, <3>1
  <2>. QED  BY <2>1, <2>2
<1>. HIDE DEF P
<1>4. \A T \in SUBSET S : T \in P
  BY <1>1, SetInduction
<1>. QED  BY <1>4 DEF P

LEMMA SumsNatural ==
    ASSUME NEW S, IsFiniteSet(S), NEW h, NEW F, Sums(F, h, S),
           \A x \in S : h[x] \in Nat
    PROVE  \A T \in SUBSET S : F[T] \in Nat
<1>2. \A T \in SUBSET S : T # {} =>
         Pick(T) \in T /\ F[T] = h[Pick(T)] + F[T \ {Pick(T)}]
  BY SumsValue
<1>. DEFINE P == {T \in SUBSET S : F[T] \in Nat}
<1>1. ASSUME NEW T \in SUBSET S, \A x \in T : T \ {x} \in P
      PROVE  T \in P
  <2>1. CASE T = {}
    BY <2>1, SumsValue
  <2>2. CASE T # {}
    <3>1. Pick(T) \in T /\ F[T] = h[Pick(T)] + F[T \ {Pick(T)}]
      BY <1>2, <2>2
    <3>2. F[T \ {Pick(T)}] \in Nat /\ h[Pick(T)] \in Nat
      BY <1>1, <3>1
    <3>. QED  BY <3>1, <3>2
  <2>. QED  BY <2>1, <2>2
<1>. HIDE DEF P
<1>3. \A T \in SUBSET S : T \in P
  BY <1>1, SetInduction
<1>. QED  BY <1>3 DEF P

(* Whatever element is taken first, the sum is the same.                   *)
LEMMA SumsRemove ==
    ASSUME NEW S, IsFiniteSet(S), NEW h, NEW F, Sums(F, h, S),
           \A x \in S : h[x] \in Nat
    PROVE  \A T \in SUBSET S : \A x \in T : F[T] = h[x] + F[T \ {x}]
<1>. DEFINE P == {T \in SUBSET S : \A x \in T : F[T] = h[x] + F[T \ {x}]}
<1>1. ASSUME NEW T \in SUBSET S, \A x \in T : T \ {x} \in P
      PROVE  T \in P
  <2>. SUFFICES ASSUME NEW x \in T
                PROVE  F[T] = h[x] + F[T \ {x}]
    OBVIOUS
  <2>. DEFINE c == Pick(T)
  <2>1. c \in T /\ F[T] = h[c] + F[T \ {c}]
    BY SumsValue
  <2>. HIDE DEF c
  <2>2. CASE x # c
    <3>. DEFINE rest == (T \ {c}) \ {x}
    <3>1. F[T \ {c}] = h[x] + F[rest]
      BY <1>1, <2>1, <2>2
    <3>2. F[T \ {x}] = h[c] + F[(T \ {x}) \ {c}]
      BY <1>1, <2>1, <2>2
    <3>3. (T \ {x}) \ {c} = rest
      OBVIOUS
    <3>4. h[x] \in Nat /\ h[c] \in Nat /\ rest \in SUBSET S
      BY <2>1
    <3>5. F[rest] \in Nat
      BY <3>4, SumsNatural
    <3>. HIDE DEF rest
    <3>. QED  BY <2>1, <3>1, <3>2, <3>3, <3>4, <3>5
  <2>. QED  BY <2>1, <2>2
<1>. HIDE DEF P
<1>2. \A T \in SUBSET S : T \in P
  BY <1>1, SetInduction
<1>. QED  BY <1>2 DEF P

LEMMA SumEmpty ==
    ASSUME NEW h
    PROVE  Sum(h, {}) = 0
BY FS_EmptySet, SumUnfold, SumsValue

(* A sum depends on the values in the set only.                            *)
LEMMA SumAgree ==
    ASSUME NEW S, IsFiniteSet(S), NEW h, NEW k, \A x \in S : h[x] = k[x]
    PROVE  Sum(h, S) = Sum(k, S)
<1>1. PICK F : Sums(F, h, S) /\ Sum(h, S) = F[S]
  BY SumUnfold
<1>2. PICK G : Sums(G, k, S) /\ Sum(k, S) = G[S]
  BY SumUnfold
<1>3. F[S] = G[S]
  BY <1>1, <1>2, SumsAgree
<1>. QED  BY <1>1, <1>2, <1>3

(* The sum without one element                                             *)
LEMMA SumRemove ==
    ASSUME NEW S, IsFiniteSet(S), NEW h, \A x \in S : h[x] \in Nat
    PROVE  /\ Sum(h, S) \in Nat
           /\ \A x \in S : Sum(h, S) = h[x] + Sum(h, S \ {x})
<1>1. PICK F : Sums(F, h, S) /\ Sum(h, S) = F[S]
  BY SumUnfold
<1>2. Sum(h, S) \in Nat
  BY <1>1, SumsNatural
<1>3. ASSUME NEW x \in S
      PROVE  Sum(h, S) = h[x] + Sum(h, S \ {x})
  <2>. DEFINE R == S \ {x}
  <2>1. IsFiniteSet(R) /\ R \subseteq S
    BY FS_RemoveElement
  <2>2. PICK G : Sums(G, h, R) /\ Sum(h, R) = G[R]
    BY <2>1, SumUnfold
  <2>3. G[R] = F[R]
    <3>. HIDE DEF R
    <3>. QED  BY <1>1, <2>1, <2>2, SumsAgree
  <2>4. F[S] = h[x] + F[R]
    BY <1>1, SumsRemove
  <2>. QED  BY <1>1, <2>2, <2>3, <2>4
<1>. QED  BY <1>2, <1>3

(* A subset has a smaller sum.                                             *)
LEMMA SumSubset ==
    ASSUME NEW S, IsFiniteSet(S), NEW h, \A x \in S : h[x] \in Nat,
           NEW R \in SUBSET S
    PROVE  Sum(h, R) <= Sum(h, S)
<1>. DEFINE P == {T \in SUBSET S : R \subseteq T => Sum(h, R) <= Sum(h, T)}
<1>1. \A T \in SUBSET S : IsFiniteSet(T)
  BY FS_Subset
<1>2. \A T \in SUBSET S :
         /\ Sum(h, T) \in Nat
         /\ \A x \in T : Sum(h, T) = h[x] + Sum(h, T \ {x})
  BY <1>1, SumRemove
<1>3. ASSUME NEW T \in SUBSET S, \A x \in T : T \ {x} \in P
      PROVE  T \in P
  <2>. SUFFICES ASSUME R \subseteq T
                PROVE  Sum(h, R) <= Sum(h, T)
    OBVIOUS
  <2>1. CASE R = T
    BY <1>2, <2>1
  <2>2. CASE R # T
    <3>1. PICK x \in T : x \notin R
      BY <2>2
    <3>2. Sum(h, R) <= Sum(h, T \ {x})
      BY <1>3, <3>1
    <3>3. /\ Sum(h, T) = h[x] + Sum(h, T \ {x})
          /\ h[x] \in Nat /\ Sum(h, R) \in Nat /\ Sum(h, T \ {x}) \in Nat
      <4>1. T \ {x} \in SUBSET S
        OBVIOUS
      <4>. QED  BY <1>2, <4>1
    <3>. QED  BY <3>2, <3>3
  <2>. QED  BY <2>1, <2>2
<1>. HIDE DEF P
<1>4. \A T \in SUBSET S : T \in P
  BY <1>3, SetInduction
<1>5. S \in P
  BY <1>4
<1>. QED  BY <1>5 DEF P

(* A sum is at most another if every element has one of its own there with *)
(* a value that is as large.                                               *)
LEMMA SumInjection ==
    ASSUME NEW S, IsFiniteSet(S), NEW T, IsFiniteSet(T),
           NEW g \in [S -> T], \A x, y \in S : g[x] = g[y] => x = y,
           NEW h, NEW k, \A y \in T : k[y] \in Nat,
           \A x \in S : h[x] \in Nat /\ h[x] <= k[g[x]]
    PROVE  Sum(h, S) <= Sum(k, T)
<1>. DEFINE Image(A) == {g[x] : x \in A}
            P == {A \in SUBSET S : Sum(h, A) <= Sum(k, Image(A))}
<1>1. ASSUME NEW A \in SUBSET S
      PROVE  /\ Sum(h, A) \in Nat
             /\ \A x \in A : Sum(h, A) = h[x] + Sum(h, A \ {x})
  <2>1. IsFiniteSet(A)
    BY FS_Subset
  <2>. QED  BY <2>1, SumRemove
<1>2. ASSUME NEW B \in SUBSET T
      PROVE  /\ Sum(k, B) \in Nat
             /\ \A y \in B : Sum(k, B) = k[y] + Sum(k, B \ {y})
  <2>1. IsFiniteSet(B)
    BY FS_Subset
  <2>. QED  BY <2>1, SumRemove
<1>3. ASSUME NEW A \in SUBSET S, \A x \in A : A \ {x} \in P
      PROVE  A \in P
  <2>1. CASE A = {}
    <3>1. Image(A) = {}
      BY <2>1
    <3>. HIDE DEF Image
    <3>2. Sum(h, A) = 0 /\ Sum(k, Image(A)) = 0
      BY <2>1, <3>1, SumEmpty
    <3>. QED  BY <3>2
  <2>2. CASE A # {}
    <3>1. PICK x \in A : TRUE
      BY <2>2
    <3>2. /\ Image(A) \in SUBSET T
          /\ Image(A \ {x}) = Image(A) \ {g[x]} /\ g[x] \in Image(A)
      BY <3>1
    <3>3. Sum(h, A \ {x}) <= Sum(k, Image(A \ {x}))
      BY <1>3, <3>1
    <3>4. A \ {x} \in SUBSET S /\ Image(A \ {x}) \in SUBSET T
      BY <3>1
    <3>. HIDE DEF Image
    <3>5. /\ Sum(h, A) = h[x] + Sum(h, A \ {x})
          /\ Sum(h, A \ {x}) \in Nat
      BY <1>1, <3>1, <3>4
    <3>8. /\ Sum(k, Image(A)) = k[g[x]] + Sum(k, Image(A \ {x}))
          /\ Sum(k, Image(A \ {x})) \in Nat
      BY <1>2, <3>2, <3>4
    <3>6. h[x] \in Nat /\ k[g[x]] \in Nat /\ h[x] <= k[g[x]]
      BY <3>1
    <3>7. Sum(h, A) <= Sum(k, Image(A))
      BY <3>3, <3>5, <3>6, <3>8
    <3>. QED  BY <3>7
  <2>. QED  BY <2>1, <2>2
<1>. HIDE DEF P
<1>4. S \in P
  BY <1>3, SetInduction
<1>5. Sum(h, S) <= Sum(k, Image(S)) /\ Image(S) \in SUBSET T
  BY <1>4 DEF P
<1>. HIDE DEF Image
<1>6. Sum(k, Image(S)) <= Sum(k, T)
  BY <1>5, SumSubset
<1>7. Sum(h, S) \in Nat /\ Sum(k, Image(S)) \in Nat /\ Sum(k, T) \in Nat
  BY <1>1, <1>2, <1>5
<1>. QED  BY <1>5, <1>6, <1>7
-----------------------------------------------------------------------------
(* The bytes in the files of the directory.                                *)

Bytes == [i \in Inodes |-> inode[i].written]

Linked == {i \in Inodes : \E f \in Files : final[f] = i \/ partial[f] = i}

LEMMA EntriesFinite ==
    ASSUME TypeOK
    PROVE  IsFiniteSet(Entries)
<1>. DEFINE g == [e \in Entries |->
                    IF e[1] = "final" THEN e[2] ELSE FileCount + e[2]]
            N == FileCount + FileCount
<1>1. FileCount \in Nat /\ N \in Nat
  BY StagingAssumption
<1>2. \A e \in Entries :
         /\ e[1] \in {"final", "partial"} /\ e[2] \in 1..FileCount
         /\ e[3] = IF e[1] = "final" THEN final[e[2]] ELSE partial[e[2]]
         /\ e = <<e[1], e[2], e[3]>>
  BY DEF Entries, Files
<1>3. g \in [Entries -> 1..N]
  BY <1>1, <1>2
<1>4. ASSUME NEW d \in Entries, NEW e \in Entries, g[d] = g[e]
      PROVE  d = e
  <2>1. d[1] = e[1] /\ d[2] = e[2]
    BY <1>1, <1>2, <1>4
  <2>2. d[3] = e[3]
    BY <1>2, <2>1
  <2>. QED  BY <1>2, <2>1, <2>2
<1>. HIDE DEF g, N
<1>5. g \in Injection(Entries, 1..N)
  BY <1>3, <1>4 DEF Injection, IsInjective
<1>6. IsFiniteSet(1..N)
  BY <1>1, FS_Interval
<1>. QED  BY <1>5, <1>6, FS_Injection

(* Every linked inode has an entry of its own.                             *)
LEMMA LinkedEntries ==
    ASSUME TypeOK
    PROVE  /\ IsFiniteSet(Linked)
           /\ \E g \in [Linked -> Entries] : \A i \in Linked : g[i][3] = i
           /\ \A e \in Entries : e[3] \in Linked
<1>1. ASSUME NEW i \in Linked
      PROVE  \E e \in Entries : e[3] = i
  <2>1. PICK f \in Files : final[f] = i \/ partial[f] = i
    BY DEF Linked
  <2>2. CASE final[f] = i
    <3>1. <<"final", f, i>> \in Entries
      BY <2>2 DEF Entries, Linked
    <3>. QED  BY <3>1
  <2>3. CASE partial[f] = i
    <3>1. <<"partial", f, i>> \in Entries
      BY <2>3 DEF Entries, Linked
    <3>. QED  BY <3>1
  <2>. QED  BY <2>1, <2>2, <2>3
<1>. DEFINE g == [i \in Linked |-> CHOOSE e \in Entries : e[3] = i]
<1>2. g \in [Linked -> Entries] /\ \A i \in Linked : g[i][3] = i
  BY <1>1
<1>. HIDE DEF g
<1>3. g \in Injection(Linked, Entries)
  BY <1>2 DEF Injection, IsInjective
<1>4. IsFiniteSet(Linked)
  BY <1>3, EntriesFinite, FS_Injection
<1>5. \A e \in Entries : e[3] \in Linked
  BY DEF Entries, Linked
<1>. QED  BY <1>2, <1>4, <1>5

(* The recursive functions in Usage and AggregateHeld sum functions.       *)
LEMMA UsageIsSum ==
    ASSUME TypeOK
    PROVE  Usage = Sum([e \in Entries |-> inode[e[3]].written], Entries)
<1>. DEFINE h == [e \in Entries |-> inode[e[3]].written]
            Body(F) == [s \in SUBSET Entries |->
                IF s = {} THEN 0
                ELSE inode[Pick(s)[3]].written + F[s \ {Pick(s)}]]
            F == CHOOSE f : f = Body(f)
<1>1. IsFiniteSet(Entries)
  BY EntriesFinite
<1>2. \A s \in SUBSET Entries : s # {} => Pick(s) \in Entries
  BY DEF Pick
<1>3. \A f : Sums(f, h, Entries) <=> f = Body(f)
  BY <1>2 DEF Sums
<1>4. F = Body(F)
  BY <1>1, <1>3, SumsExists
<1>5. Usage = F[Entries]
  BY DEF Usage, MapThenSumSet, MapThenFoldSet, Pick
<1>. HIDE DEF h, Body, F
<1>6. PICK G : Sums(G, h, Entries) /\ Sum(h, Entries) = G[Entries]
  BY <1>1, SumUnfold
<1>7. Sums(F, h, Entries)
  BY <1>3, <1>4
<1>8. F[Entries] = G[Entries]
  BY <1>1, <1>6, <1>7, SumsAgree
<1>. QED  BY <1>5, <1>6, <1>8 DEF h
LEMMA HeldIsSum ==
    ASSUME TypeOK
    PROVE  AggregateHeld <=> Sum(Bytes, Linked) <= Limit
<1>. DEFINE Body(F) == [s \in SUBSET Linked |->
                IF s = {} THEN 0
                ELSE inode[Pick(s)].written + F[s \ {Pick(s)}]]
            F == CHOOSE f : f = Body(f)
            held == MapThenSumSet(LAMBDA i : inode[i].written, Linked)
<1>1. IsFiniteSet(Linked)
  BY LinkedEntries
<1>2. \A s \in SUBSET Linked : s # {} => Pick(s) \in Linked
  BY DEF Pick
<1>3. \A i \in Linked : Bytes[i] = inode[i].written
  BY DEF Bytes, Linked
<1>4. \A f : Sums(f, Bytes, Linked) <=> f = Body(f)
  BY <1>2, <1>3 DEF Sums
<1>5. F = Body(F)
  BY <1>1, <1>4, SumsExists
<1>6. held = F[Linked]
  BY DEF MapThenSumSet, MapThenFoldSet, Pick
<1>7. \A i \in Inodes : Links(i) > 0 <=> i \in Linked
  <2>. SUFFICES ASSUME NEW i \in Inodes
                PROVE  Links(i) > 0 <=> i \in Linked
    OBVIOUS
  <2>. DEFINE own == {e \in Entries : e[3] = i}
  <2>1. own \in SUBSET Entries /\ IsFiniteSet(own)
    BY EntriesFinite, FS_Subset
  <2>2. Cardinality(own) \in Nat /\ (Cardinality(own) = 0 <=> own = {})
    BY <2>1, FS_CardinalityType, FS_EmptySet
  <2>3. own # {} <=> i \in Linked
    BY LinkedEntries
  <2>. QED  BY <2>2, <2>3 DEF Links
<1>8. {i \in Inodes : Links(i) > 0} = Linked
  BY <1>7 DEF Linked
<1>9. AggregateHeld <=> held <= Limit
  BY <1>8 DEF AggregateHeld
<1>. HIDE DEF Body, F, held
<1>10. PICK G : Sums(G, Bytes, Linked) /\ Sum(Bytes, Linked) = G[Linked]
  BY <1>1, SumUnfold
<1>11. Sums(F, Bytes, Linked)
  BY <1>4, <1>5
<1>12. F[Linked] = G[Linked]
  BY <1>1, <1>10, <1>11, SumsAgree
<1>. QED  BY <1>6, <1>9, <1>10, <1>12

(* What _current_usage counts is at least what the files hold; it counts   *)
(* a file with two names twice.                                            *)
LEMMA HeldIsUsed ==
    ASSUME TypeOK
    PROVE  /\ Sum(Bytes, Linked) \in Nat /\ Usage \in Nat
           /\ Sum(Bytes, Linked) <= Usage
<1>. DEFINE k == [e \in Entries |-> inode[e[3]].written]
<1>1. IsFiniteSet(Linked) /\ IsFiniteSet(Entries)
  BY LinkedEntries, EntriesFinite
<1>2. PICK g \in [Linked -> Entries] : \A i \in Linked : g[i][3] = i
  BY LinkedEntries
<1>3. \A i, j \in Linked : g[i] = g[j] => i = j
  BY <1>2
<1>4. \A i \in Inodes : Bytes[i] \in Nat /\ Bytes[i] = inode[i].written
  BY DEF Bytes, TypeOK
<1>5. \A e \in Entries : k[e] \in Nat /\ k[e] = inode[e[3]].written
  BY DEF Entries, TypeOK
<1>. HIDE DEF k
<1>6. \A i \in Linked : Bytes[i] \in Nat /\ Bytes[i] <= k[g[i]]
  <2>. SUFFICES ASSUME NEW i \in Linked
                PROVE  Bytes[i] \in Nat /\ Bytes[i] <= k[g[i]]
    OBVIOUS
  <2>1. i \in Inodes /\ g[i] \in Entries /\ g[i][3] = i
    BY <1>2 DEF Linked
  <2>2. Bytes[i] \in Nat /\ k[g[i]] = Bytes[i]
    BY <1>4, <1>5, <2>1
  <2>. QED  BY <2>2
<1>7. Sum(Bytes, Linked) <= Sum(k, Entries)
  BY <1>1, <1>3, <1>5, <1>6, SumInjection
<1>8. Sum(Bytes, Linked) \in Nat /\ Sum(k, Entries) \in Nat
  BY <1>1, <1>5, <1>6, SumRemove
<1>. QED  BY <1>7, <1>8, UsageIsSum DEF k

(* The files keep within the limit because a writer never writes more than *)
(* the room it found, and what the others hold does not grow meanwhile.    *)
RoomKept(p) ==
    /\ Sum(Bytes, Linked) <= Limit
    /\ proc[p].pc = "open" => Sum(Bytes, Linked) + proc[p].room <= Limit
    /\ proc[p].pc \in Transfers =>
          /\ Sum(Bytes, Linked \ {proc[p].inode}) + proc[p].room <= Limit
          /\ inode[proc[p].inode].written <= proc[p].room

LEMMA RoomInit ==
    ASSUME NEW p \in Processes, Init
    PROVE  RoomKept(p)
<1>1. Linked = {}
  BY StagingAssumption DEF Init, Linked
<1>2. proc[p].pc = "idle"
  BY DEF Init, Idle
<1>. QED  BY <1>1, <1>2, SumEmpty, StagingAssumption DEF RoomKept, Transfers

(* The sum over the linked files, all or without one, only shrinks when    *)
(* their contents stay and no other is linked.                             *)
LEMMA HeldShrinks ==
    ASSUME TypeOK, Linked' \subseteq Linked,
           \A i \in Linked' : Bytes'[i] = Bytes[i], NEW D
    PROVE  /\ Sum(Bytes', Linked' \ D) \in Nat
           /\ Sum(Bytes, Linked \ D) \in Nat
           /\ Sum(Bytes', Linked' \ D) <= Sum(Bytes, Linked \ D)
<1>. DEFINE A == Linked \ D
            B == Linked' \ D
<1>1. IsFiniteSet(A) /\ IsFiniteSet(B) /\ B \in SUBSET A
  <2>1. IsFiniteSet(Linked) /\ A \in SUBSET Linked /\ B \in SUBSET Linked
    BY LinkedEntries
  <2>. QED  BY <2>1, FS_Subset
<1>2. \A i \in A : Bytes[i] \in Nat
  BY DEF Bytes, Linked, TypeOK
<1>3. \A i \in B : Bytes'[i] = Bytes[i]
  OBVIOUS
<1>. HIDE DEF A, B
<1>4. Sum(Bytes', B) = Sum(Bytes, B)
  BY <1>1, <1>3, SumAgree
<1>5. Sum(Bytes, B) <= Sum(Bytes, A)
  BY <1>1, <1>2, SumSubset
<1>6. Sum(Bytes, A) \in Nat /\ Sum(Bytes, B) \in Nat
  BY <1>1, <1>2, SumRemove
<1>. QED  BY <1>4, <1>5, <1>6 DEF A, B

(* The same for a process that stays where it is in its transfer, or is    *)
(* in none.                                                                *)
LEMMA RoomStays ==
    ASSUME NEW p \in Processes, TypeInv, RoomKept(p),
           inode' = inode, Linked' \subseteq Linked,
           proc'[p].pc = "open" => proc[p].pc = "open",
           proc'[p].pc \in Transfers =>
               proc[p].pc \in Transfers /\ proc'[p].inode = proc[p].inode,
           proc'[p].pc \in {"open"} \cup Transfers =>
               proc'[p].room = proc[p].room
    PROVE  RoomKept(p)'
<1>1. TypeOK /\ Bytes' = Bytes
  BY DEF TypeInv, Bytes
<1>2. /\ Sum(Bytes', Linked') \in Nat /\ Sum(Bytes, Linked) \in Nat
      /\ Sum(Bytes', Linked') <= Sum(Bytes, Linked)
  <2>1. Linked \ {} = Linked /\ Linked' \ {} = Linked'
    OBVIOUS
  <2>. QED  BY <1>1, <2>1, HeldShrinks
<1>3. \A i : LET D == {i} IN
        /\ Sum(Bytes', Linked' \ D) \in Nat /\ Sum(Bytes, Linked \ D) \in Nat
        /\ Sum(Bytes', Linked' \ D) <= Sum(Bytes, Linked \ D)
  BY <1>1, HeldShrinks
<1>4. proc[p].room \in Nat /\ Limit \in Nat
  BY StagingAssumption DEF TypeInv, TypeOK, Acquisition
<1>5. Sum(Bytes', Linked') <= Limit
  BY <1>2, <1>4 DEF RoomKept
<1>6. ASSUME proc'[p].pc = "open"
      PROVE  Sum(Bytes', Linked') + proc'[p].room <= Limit
  BY <1>2, <1>4, <1>6 DEF RoomKept
<1>7. ASSUME proc'[p].pc \in Transfers
      PROVE  /\ Sum(Bytes', Linked' \ {proc'[p].inode}) + proc'[p].room
                    <= Limit
             /\ inode'[proc'[p].inode].written <= proc'[p].room
  <2>. DEFINE i == proc[p].inode
  <2>1. /\ proc'[p].inode = i /\ proc'[p].room = proc[p].room
        /\ Sum(Bytes, Linked \ {i}) + proc[p].room <= Limit
        /\ inode[i].written <= proc[p].room
    BY <1>7 DEF RoomKept
  <2>2. /\ Sum(Bytes', Linked' \ {i}) \in Nat
        /\ Sum(Bytes, Linked \ {i}) \in Nat
        /\ Sum(Bytes', Linked' \ {i}) <= Sum(Bytes, Linked \ {i})
    BY <1>3
  <2>. HIDE DEF i
  <2>. QED  BY <1>4, <2>1, <2>2
<1>. QED  BY <1>5, <1>6, <1>7 DEF RoomKept

LEMMA RoomNext ==
    ASSUME NEW p, Processes = {p}, TypeInv, TypeInv', SerialInv(p),
           RoomKept(p), [Next]_vars
    PROVE  RoomKept(p)'
<1>. USE DEF At
<1>. p \in Processes
  OBVIOUS
<1>1. /\ setup \in {"absent", "root", "operation", "ready"}
      /\ final \in [Files -> Inodes \cup {NoInode}]
      /\ partial \in [Files -> Inodes \cup {NoInode}]
      /\ inode \in [Inodes ->
                       [written : Nat, length : Nat, genuine : BOOLEAN]]
      /\ proc \in [Processes -> Acquisition]
      /\ proc[p] \in Acquisition
      /\ TypeOK /\ TypeOK' /\ AtRequest
  BY DEF TypeInv, TypeOK
<1>2. CASE UNCHANGED vars
  BY <1>2, RoomStays DEF vars, Linked
<1>3. CASE \/ MakeRoot(p) \/ MakeOperation(p) \/ Reserve(p) \/ Scan(p)
           \/ Cleaned(p) \/ SkipExisting(p) \/ Verify(p) \/ Report(p)
           \/ Stop(p)
  <2>1. UNCHANGED <<final, partial, inode>>
    BY <1>3 DEF MakeRoot, MakeOperation, Reserve, Scan, Cleaned,
                SkipExisting, Verify, Report, Stop
  <2>2. \/ proc'[p].pc \notin {"open"} \cup Transfers
        \/ /\ proc[p].pc = "receive" /\ proc'[p].pc = "link"
           /\ proc'[p].inode = proc[p].inode /\ proc'[p].room = proc[p].room
    <3>1. CASE \/ MakeRoot(p) \/ MakeOperation(p) \/ Reserve(p)
               \/ Scan(p) \/ Cleaned(p)
      BY <1>1, <3>1
         DEF MakeRoot, MakeOperation, Reserve, Scan, Cleaned, Goes,
             Acquisition, Transfers
    <3>2. CASE SkipExisting(p) \/ Verify(p) \/ Report(p) \/ Stop(p)
      BY <1>1, <3>2
         DEF SkipExisting, Advance, Verify, Report, Stop, Goes, Idle,
             Acquisition, Transfers
    <3>. QED  BY <1>3, <3>1, <3>2
  <2>3. Linked' = Linked
    BY <2>1 DEF Linked
  <2>. QED  BY <2>1, <2>2, <2>3, RoomStays DEF Transfers
<1>4. CASE RemovePartial(p)
  <2>1. PICK f \in proc[p].todo :
           /\ partial' = [partial EXCEPT ![f] = NoInode]
           /\ proc' = [proc EXCEPT ![p].todo = @ \ {f}]
    BY <1>4 DEF RemovePartial
  <2>2. proc'[p].pc = "clean" /\ UNCHANGED <<final, inode>>
    BY <1>1, <1>4, <2>1 DEF RemovePartial, Acquisition
  <2>3. Linked' \subseteq Linked
    BY <1>1, <2>1, <2>2, StagingAssumption DEF Linked
  <2>. QED  BY <2>2, <2>3, RoomStays DEF Transfers
<1>5. CASE Measure(p)
  <2>. DEFINE left == Limit - Usage
              size == Size[proc[p].file]
  <2>1. /\ proc'[p].pc = "open" /\ proc'[p].room = Min({size, left})
        /\ size \in Nat /\ left \in Nat /\ Usage \in 0..(Limit - 1)
        /\ UNCHANGED <<final, partial, inode>>
    BY <1>1, <1>5, StagingAssumption DEF Measure, Room, Acquisition
  <2>2. Min({size, left}) <= left /\ Min({size, left}) \in Nat
    <3>. HIDE DEF size, left
    <3>1. \E x \in {size, left} : \A y \in {size, left} : x <= y
      BY <2>1
    <3>. QED  BY <2>1, <3>1, LeastOfTwo DEF Min
  <2>3. Linked' = Linked /\ Bytes' = Bytes
    BY <2>1 DEF Linked, Bytes
  <2>4. Sum(Bytes, Linked) \in Nat /\ Sum(Bytes, Linked) <= Usage
    BY <1>1, HeldIsUsed
  <2>5. Sum(Bytes, Linked) + proc'[p].room <= Limit
    BY <2>1, <2>2, <2>4, StagingAssumption
  <2>6. Sum(Bytes, Linked) <= Limit
    BY DEF RoomKept
  <2>. QED  BY <2>1, <2>3, <2>5, <2>6 DEF RoomKept, Transfers
<1>6. CASE OpenPartial(p)
  <2>1. PICK i \in Inodes :
           /\ Unused(i)
           /\ partial' = [partial EXCEPT ![proc[p].file] = i]
           /\ inode' = [inode EXCEPT ![i] = Empty]
           /\ proc' = [proc EXCEPT ![p].pc = "request", ![p].inode = i]
    BY <1>6 DEF OpenPartial
  <2>2. /\ proc'[p].pc = "request" /\ proc'[p].inode = i
        /\ proc'[p].room = proc[p].room /\ proc[p].room \in Nat
        /\ proc[p].pc = "open" /\ proc[p].file \in Files /\ final' = final
    BY <1>1, <1>6, <2>1 DEF Acquisition, OpenPartial, AtRequest
  <2>3. i \notin Linked /\ Linked' \ {i} \subseteq Linked /\ i \in Linked'
    BY <1>1, <2>1, <2>2 DEF Unused, Linked
  <2>4. /\ inode'[i].written = 0
        /\ \A j \in Inodes : j # i => inode'[j] = inode[j]
    BY <1>1, <2>1 DEF Empty
  <2>. DEFINE rest == Linked' \ {i}
  <2>5. IsFiniteSet(Linked) /\ IsFiniteSet(Linked') /\ IsFiniteSet(rest)
    <3>1. IsFiniteSet(Linked) /\ rest \in SUBSET Linked
      BY <1>1, <2>3, LinkedEntries
    <3>2. IsFiniteSet(rest)
      BY <3>1, FS_Subset
    <3>3. IsFiniteSet(rest \cup {i}) /\ rest \cup {i} = Linked'
      BY <2>3, <3>2, FS_AddElement
    <3>. QED  BY <3>1, <3>2, <3>3
  <2>6. /\ \A j \in Linked : Bytes[j] \in Nat
        /\ \A j \in Linked' : Bytes'[j] \in Nat
        /\ \A j \in rest : Bytes'[j] = Bytes[j]
        /\ Bytes'[i] = 0
    BY <1>1, <2>4 DEF Bytes, Linked, TypeOK
  <2>7. Sum(Bytes', rest) = Sum(Bytes, rest)
    BY <2>5, <2>6, SumAgree
  <2>8. Sum(Bytes, rest) <= Sum(Bytes, Linked)
    BY <2>3, <2>5, <2>6, SumSubset
  <2>9. Sum(Bytes', Linked') = Bytes'[i] + Sum(Bytes', rest)
    BY <2>3, <2>5, <2>6, SumRemove
  <2>10. /\ Sum(Bytes, Linked) \in Nat /\ Sum(Bytes', rest) \in Nat
         /\ Sum(Bytes', Linked') \in Nat
    <3>1. \A j \in rest : Bytes'[j] \in Nat
      BY <2>6
    <3>. QED  BY <2>5, <2>6, <3>1, SumRemove
  <2>11. Sum(Bytes, Linked) + proc[p].room <= Limit
    BY <2>2 DEF RoomKept
  <2>. HIDE DEF rest
  <2>12. /\ Sum(Bytes', Linked') <= Limit
         /\ Sum(Bytes', rest) + proc'[p].room <= Limit
    BY <2>2, <2>6, <2>7, <2>8, <2>9, <2>10, <2>11, StagingAssumption
  <2>. QED  BY <2>2, <2>4, <2>12 DEF rest, RoomKept, Transfers
<1>7. CASE Respond(p) \/ Receive(p)
  <2>. DEFINE i == proc[p].inode
              others == Linked \ {i}
  <2>1. /\ proc[p].pc \in {"request", "receive"} /\ proc'[p].pc = "receive"
        /\ proc'[p].file = proc[p].file /\ proc'[p].inode = i
        /\ proc'[p].room = proc[p].room /\ proc[p].room \in Nat
        /\ UNCHANGED <<final, partial>>
    BY <1>1, <1>7 DEF Acquisition, Respond, Receive, Goes
  <2>2. i \in Inodes /\ proc[p].file \in Files /\ partial[proc[p].file] = i
    BY <1>1, <2>1 DEF AtRequest, Transfers, SerialInv, PartialKnown
  <2>3. /\ inode'[i].written <= proc[p].room /\ inode'[i].written \in Nat
        /\ \A j \in Inodes : j # i => inode'[j] = inode[j]
    <3>1. CASE Respond(p)
      <4>1. PICK response \in Responses(proc[p].file) :
               inode' = [inode EXCEPT ![i].length = response.length,
                                      ![i].genuine = response.genuine]
        BY <3>1 DEF Respond
      <4>2. inode[i].written <= proc[p].room
        BY <2>1 DEF RoomKept, Transfers
      <4>. QED  BY <1>1, <2>2, <4>1, <4>2
    <3>2. CASE Receive(p)
      <4>1. /\ inode' = [inode EXCEPT ![i].written = inode[i].written + 1]
            /\ inode[i].written < proc[p].room
        BY <3>2 DEF Receive
      <4>. QED  BY <1>1, <2>1, <2>2, <4>1
    <3>. QED  BY <1>7, <3>1, <3>2
  <2>4. Linked' = Linked /\ i \in Linked
    BY <2>1, <2>2 DEF Linked
  <2>5. /\ IsFiniteSet(Linked) /\ IsFiniteSet(others)
        /\ \A j \in Linked : Bytes'[j] \in Nat
        /\ \A j \in others : Bytes'[j] = Bytes[j]
        /\ Bytes'[i] = inode'[i].written
    BY <1>1, <2>2, <2>3, LinkedEntries, FS_RemoveElement
       DEF Bytes, Linked, TypeOK
  <2>6. Sum(Bytes', others) = Sum(Bytes, others)
    BY <2>5, SumAgree
  <2>7. Sum(Bytes', Linked) = Bytes'[i] + Sum(Bytes', others)
    BY <2>4, <2>5, SumRemove
  <2>8. Sum(Bytes', others) \in Nat
    BY <2>5, SumRemove
  <2>9. Sum(Bytes, others) + proc[p].room <= Limit
    BY <2>1 DEF RoomKept, Transfers
  <2>. HIDE DEF others
  <2>10. Sum(Bytes', Linked) <= Limit
    BY <2>1, <2>3, <2>5, <2>6, <2>7, <2>8, <2>9, StagingAssumption
  <2>11. Sum(Bytes', others) + proc'[p].room <= Limit
    BY <2>1, <2>6, <2>9
  <2>. QED
    BY <2>1, <2>3, <2>4, <2>10, <2>11 DEF others, RoomKept, Transfers
<1>8. CASE Link(p) \/ UnlinkPartial(p)
  <2>. DEFINE f == proc[p].file
  <2>1. /\ proc[p].pc \in Transfers /\ f \in Files /\ inode' = inode
        /\ \/ /\ proc'[p].pc = "unlink" /\ proc'[p].inode = proc[p].inode
              /\ proc'[p].room = proc[p].room
           \/ proc'[p].pc = "next"
    BY <1>1, <1>8 DEF Link, UnlinkPartial, Advance, Goes, Acquisition,
                      AtRequest, Transfers
  <2>2. Linked' \subseteq Linked
    <3>1. CASE Link(p)
      <4>1. /\ final' = [final EXCEPT ![f] = partial[f]] /\ partial' = partial
        BY <3>1 DEF Link
      <4>. QED  BY <1>1, <2>1, <4>1 DEF Linked
    <3>2. CASE UnlinkPartial(p)
      <4>1. partial' = [partial EXCEPT ![f] = NoInode] /\ final' = final
        BY <3>2 DEF UnlinkPartial
      <4>. QED  BY <1>1, <2>1, <4>1, StagingAssumption DEF Linked
    <3>. QED  BY <1>8, <3>1, <3>2
  <2>. QED  BY <2>1, <2>2, RoomStays DEF Transfers
<1>. QED
  BY <1>2, <1>3, <1>4, <1>5, <1>6, <1>7, <1>8 DEF Next

(* Whatever the server announces and sends, and whatever interrupted       *)
(* downloads left, the files that one process at a time acquires together  *)
(* keep within the aggregate limit: comparing with the room found when the *)
(* stream was opened is enough.                                            *)
THEOREM AggregateHeldSerial ==
    ASSUME NEW p, Processes = {p}
    PROVE  Spec => []AggregateHeld
<1>1. Init => TypeInv /\ SerialInv(p) /\ RoomKept(p)
  BY TypeInit, SerialInit, RoomInit
<1>2. TypeInv /\ SerialInv(p) /\ RoomKept(p) /\ [Next]_vars
        => (TypeInv /\ SerialInv(p) /\ RoomKept(p))'
  BY TypeNext, SerialNext, RoomNext
<1>3. TypeInv /\ RoomKept(p) => AggregateHeld
  BY HeldIsSum DEF TypeInv, RoomKept
<1>. QED  BY <1>1, <1>2, <1>3, PTL DEF Spec
-----------------------------------------------------------------------------
(***************************************************************************)
(* One process implements VerifiedFiles.  What it is about to fetch has no *)
(* name yet, what a first run comes to later has none either, and no more  *)
(* is announced than the request admits.                                   *)
(***************************************************************************)
Fetching == {"open", "request", "receive", "link"}

Unfetched(p) ==
    /\ proc[p].pc = "clean" => proc[p].resume
    /\ proc[p].pc \in Fetching => final[proc[p].file] = NoInode
    /\ proc[p].pc # "idle" /\ ~proc[p].resume =>
          \A f \in Files : f > proc[p].file => final[f] = NoInode
    /\ proc[p].pc = "next" /\ ~proc[p].resume /\ proc[p].file \in Files =>
          final[proc[p].file] = NoInode
    /\ proc[p].pc \in {"receive", "link", "unlink"} =>
          inode[proc[p].inode].length <= Size[proc[p].file]

LEMMA UnfetchedNext ==
    ASSUME NEW p, Processes = {p}, TypeInv, SerialInv(p), Unfetched(p),
           [Next]_vars
    PROVE  Unfetched(p)'
<1>. USE DEF At
<1>. p \in Processes
  OBVIOUS
<1>1. /\ final \in [Files -> Inodes \cup {NoInode}]
      /\ inode \in [Inodes ->
                       [written : Nat, length : Nat, genuine : BOOLEAN]]
      /\ proc \in [Processes -> Acquisition]
      /\ proc[p] \in Acquisition
      /\ AtRequest /\ proc[p].file \in Nat /\ Files \subseteq Nat
  BY StagingAssumption DEF TypeInv, TypeOK, Acquisition, Files
<1>2. Reserved(p) /\ PartialKnown(p)
  BY DEF SerialInv
<1>. USE DEF Unfetched, Fetching
<1>4. CASE UNCHANGED vars
  BY <1>4 DEF vars
<1>5. CASE MakeRoot(p) \/ MakeOperation(p) \/ Reserve(p)
  <2>1. /\ proc'[p].pc \in {"root", "operation", "next"}
        /\ proc'[p].file = proc[p].file
        /\ UNCHANGED final
    BY <1>1, <1>5 DEF Acquisition, MakeRoot, MakeOperation, Reserve, Goes
  <2>2. setup # "ready"
    BY <1>2, <1>5 DEF MakeRoot, MakeOperation, Reserve, Reserved
  <2>3. \A f \in Files : final'[f] = NoInode
    BY <1>2, <2>1, <2>2 DEF Reserved
  <2>. QED  BY <2>1, <2>3
<1>6. CASE Scan(p)
  <2>1. proc'[p].pc = "clean" /\ proc'[p].resume
    BY <1>1, <1>6 DEF Acquisition, Scan
  <2>. QED  BY <2>1
<1>7. CASE RemovePartial(p) \/ Cleaned(p)
  <2>1. /\ proc[p].pc = "clean" /\ proc'[p].pc \in {"clean", "next"}
        /\ proc'[p].file = proc[p].file
        /\ proc'[p].resume = proc[p].resume /\ UNCHANGED final
    BY <1>1, <1>7 DEF Acquisition, RemovePartial, Cleaned, Goes
  <2>. QED  BY <2>1
<1>9. CASE SkipExisting(p)
  <2>1. /\ proc'[p].pc = "next" /\ proc'[p].resume
    BY <1>1, <1>9 DEF Acquisition, SkipExisting, NextRequest, Advance, Found
  <2>. QED  BY <2>1
<1>10. CASE Measure(p)
  <2>1. /\ proc'[p].pc = "open" /\ proc'[p].file = proc[p].file
        /\ proc'[p].resume = proc[p].resume
        /\ proc[p].pc = "next" /\ proc[p].file \in Files
        /\ ~Found(p) /\ UNCHANGED final
    BY <1>1, <1>10 DEF Acquisition, Measure, NextRequest
  <2>. QED  BY <1>1, <2>1 DEF Found, Acquisition
<1>11. CASE OpenPartial(p)
  <2>1. /\ proc'[p].pc = "request" /\ proc'[p].file = proc[p].file
        /\ proc'[p].resume = proc[p].resume
        /\ proc[p].pc = "open" /\ UNCHANGED final
    BY <1>1, <1>11 DEF Acquisition, OpenPartial
  <2>. QED  BY <2>1
<1>12. CASE Respond(p)
  <2>1. /\ proc'[p].pc = "receive" /\ proc'[p].file = proc[p].file
        /\ proc'[p].resume = proc[p].resume /\ proc'[p].inode = proc[p].inode
        /\ proc[p].pc = "request" /\ UNCHANGED final
    BY <1>1, <1>12 DEF Acquisition, Respond, Goes
  <2>2. proc[p].inode \in Inodes /\ proc[p].file \in Files
    BY <1>1, <2>1 DEF AtRequest, Transfers
  <2>3. inode'[proc[p].inode].length \in 0..Size[proc[p].file]
    BY <1>1, <1>12, <2>2 DEF Respond, Responses, Lengths
  <2>. QED  BY <2>1, <2>3
<1>13. CASE Receive(p)
  <2>1. /\ proc' = proc /\ proc[p].pc = "receive" /\ UNCHANGED final
        /\ proc[p].inode \in Inodes
    BY <1>1, <1>13 DEF Receive, AtRequest, Transfers
  <2>2. inode'[proc[p].inode].length = inode[proc[p].inode].length
    BY <1>1, <1>13, <2>1 DEF Receive
  <2>. QED  BY <2>1, <2>2
<1>14. CASE Verify(p)
  <2>1. /\ proc'[p].pc = "link" /\ proc'[p].file = proc[p].file
        /\ proc'[p].resume = proc[p].resume /\ proc'[p].inode = proc[p].inode
        /\ proc[p].pc = "receive" /\ UNCHANGED <<final, inode>>
    BY <1>1, <1>14 DEF Acquisition, Verify, Goes
  <2>. QED  BY <2>1
<1>15. CASE Link(p)
  <2>1. /\ proc'[p].pc = "unlink" /\ proc'[p].file = proc[p].file
        /\ proc'[p].resume = proc[p].resume /\ proc'[p].inode = proc[p].inode
        /\ proc[p].pc = "link" /\ UNCHANGED inode
        /\ final' = [final EXCEPT ![proc[p].file] = partial[proc[p].file]]
    BY <1>1, <1>15 DEF Acquisition, Link, Goes
  <2>2. \A f \in Files : f > proc[p].file => final'[f] = final[f]
    BY <1>1, <2>1
  <2>. QED  BY <2>1, <2>2
<1>16. CASE UnlinkPartial(p)
  <2>1. /\ proc'[p].pc = "next" /\ proc'[p].file = proc[p].file + 1
        /\ proc'[p].resume = proc[p].resume
        /\ proc[p].pc = "unlink" /\ UNCHANGED final
    BY <1>1, <1>16 DEF Acquisition, UnlinkPartial, Advance
  <2>. QED  BY <1>1, <2>1
<1>17. CASE Report(p)
  <2>1. /\ proc'[p].pc = "done" /\ proc'[p].file = proc[p].file
        /\ proc'[p].resume = proc[p].resume
        /\ proc[p].pc = "next" /\ UNCHANGED final
    BY <1>1, <1>17 DEF Acquisition, Report, NextRequest, Goes
  <2>. QED  BY <2>1
<1>18. CASE Stop(p)
  <2>1. proc'[p].pc = "idle"
    BY <1>1, <1>18 DEF Stop, Idle
  <2>. QED  BY <2>1
<1>. QED
  BY <1>4, <1>5, <1>6, <1>7, <1>9, <1>10, <1>11, <1>12, <1>13, <1>14, <1>15,
     <1>16, <1>17, <1>18 DEF Next

(* What VerifiedFiles sees of the directory *)
Stored == [f \in Files |-> IF final[f] = NoInode THEN {}
                           ELSE {Content(final[f])}]
Temporary == {f \in Files : partial[f] # NoInode}
Reported(p) == proc[p].pc = "done"

LEMMA DirectoryView ==
    ASSUME NEW p, Processes = {p}
    PROVE  /\ (\E q \in Processes : At(q, "done")) = Reported(p)
           /\ (\E q \in Processes : At(q, "done"))' = Reported(p)'
  BY DEF At, Reported

(* Names and contents stay where only the content of other inodes changes. *)
LEMMA StoredStays ==
    ASSUME UNCHANGED final,
           \A f \in Files : final[f] # NoInode =>
               inode'[final[f]] = inode[final[f]]
    PROVE  Stored' = Stored
  BY DEF Stored, Content

(* What does not report leaves VerifiedFiles where it is, or returns there *)
LEMMA ReturnStep ==
    ASSUME NEW p, Processes = {p}, UNCHANGED <<Stored, Temporary>>,
           ~Reported(p)'
    PROVE  Directory!Next
<1>1. Directory!Return
  BY DirectoryView DEF Directory!Return, Stored, Temporary
<1>. QED  BY <1>1 DEF Directory!Next

LEMMA DirectoryStep ==
    ASSUME NEW p, Processes = {p}, TypeInv, SerialInv(p), Unfetched(p),
           [Next]_vars
    PROVE  [Directory!Next]_(Directory!vars)
<1>. USE DEF At
<1>. p \in Processes
  OBVIOUS
<1>1. /\ final \in [Files -> Inodes \cup {NoInode}]
      /\ partial \in [Files -> Inodes \cup {NoInode}]
      /\ inode \in [Inodes ->
                       [written : Nat, length : Nat, genuine : BOOLEAN]]
      /\ proc \in [Processes -> Acquisition]
      /\ proc[p] \in Acquisition
      /\ AtRequest /\ NoInode \notin Inodes
      /\ proc[p].file \in Nat /\ Files \subseteq Nat
  BY StagingAssumption DEF TypeInv, TypeOK, Acquisition, Files
<1>2. /\ StagedVerified /\ Reserved(p)
      /\ PartialKnown(p) /\ WritesPartial(p) /\ EarlierStaged(p)
  BY DEF SerialInv
<1>3. Directory!Files = Files
  BY DEF Directory!Files, Files
<1>4. CASE UNCHANGED vars
  BY <1>4 DEF vars, Directory!vars, Content
<1>5. CASE \/ MakeRoot(p) \/ MakeOperation(p) \/ Reserve(p) \/ Scan(p)
           \/ Cleaned(p) \/ SkipExisting(p) \/ Measure(p) \/ Verify(p)
           \/ Stop(p)
  <2>1. proc'[p].pc # "done" /\ UNCHANGED <<final, partial, inode>>
    BY <1>1, <1>5 DEF MakeRoot, MakeOperation, Reserve, Scan, Cleaned,
                      SkipExisting, Measure, Verify, Stop, Goes, Advance, Idle,
                      Acquisition
  <2>. QED  BY <2>1, ReturnStep DEF Stored, Temporary, Content, Reported
<1>6. CASE Respond(p) \/ Receive(p)
  <2>1. /\ proc[p].pc \in {"request", "receive"} /\ proc'[p].pc = "receive"
        /\ UNCHANGED <<final, partial>>
    BY <1>1, <1>6 DEF Acquisition, Respond, Receive, Goes
  <2>2. \A g \in Files : final[g] # proc[p].inode
    BY <1>2, <2>1 DEF WritesPartial, Transfers
  <2>3. \A g \in Files : final[g] # NoInode =>
            inode'[final[g]] = inode[final[g]]
    BY <1>1, <1>6, <2>2 DEF Respond, Receive
  <2>4. Stored' = Stored
    BY <2>1, <2>3, StoredStays
  <2>. QED  BY <2>1, <2>4, ReturnStep DEF Temporary, Reported
<1>7. CASE RemovePartial(p) \/ UnlinkPartial(p)
  <2>1. /\ proc[p].pc \in {"clean", "unlink"}
        /\ proc'[p].pc \in {"clean", "next"}
        /\ UNCHANGED <<final, inode>>
    BY <1>1, <1>7 DEF Acquisition, RemovePartial, UnlinkPartial, Advance
  <2>2. PICK f \in Files : /\ partial[f] # NoInode
                           /\ partial' = [partial EXCEPT ![f] = NoInode]
    BY <1>1, <1>7 DEF RemovePartial, UnlinkPartial, Acquisition, AtRequest,
                      Transfers
  <2>3. f \in Temporary /\ Temporary' = Temporary \ {f}
    BY <1>1, <2>2 DEF Temporary
  <2>4. ~Reported(p) /\ ~Reported(p)' /\ Stored' = Stored
    BY <2>1 DEF Reported, Stored, Content
  <2>5. Directory!Discard(f)
    BY <2>3, <2>4, DirectoryView DEF Directory!Discard, Stored, Temporary
  <2>. QED  BY <1>3, <2>5 DEF Directory!Next
<1>8. CASE OpenPartial(p)
  <2>. DEFINE f == proc[p].file
  <2>1. PICK i \in Inodes :
           /\ Unused(i)
           /\ partial' = [partial EXCEPT ![f] = i]
           /\ inode' = [inode EXCEPT ![i] = Empty]
           /\ proc' = [proc EXCEPT ![p].pc = "request", ![p].inode = i]
    BY <1>8 DEF OpenPartial
  <2>2. /\ proc[p].pc = "open" /\ proc'[p].pc = "request"
        /\ f \in Files /\ UNCHANGED final
    BY <1>1, <1>8, <2>1 DEF Acquisition, OpenPartial, AtRequest
  <2>3. \A g \in Files : final[g] # i
    BY <2>1 DEF Unused
  <2>4. Stored' = Stored
    BY <1>1, <2>1, <2>2, <2>3, StoredStays
  <2>5. Temporary = {} /\ Temporary' = {f}
    BY <1>1, <1>2, <2>1, <2>2 DEF PartialKnown, Temporary
  <2>6. Stored[f] = {} /\ \A g \in Files : g < f => Stored[g] # {}
    BY <1>2, <2>2 DEF Unfetched, Fetching, EarlierStaged, Stored
  <2>7. ~Reported(p) /\ ~Reported(p)'
    BY <2>2 DEF Reported
  <2>8. Directory!Begin(f)
    BY <1>3, <2>4, <2>5, <2>6, <2>7, DirectoryView
       DEF Directory!Begin, Stored, Temporary
  <2>. QED  BY <1>3, <2>2, <2>8 DEF Directory!Next, Directory!Begin
<1>9. CASE Link(p)
  <2>. DEFINE f == proc[p].file
              i == proc[p].inode
  <2>1. /\ proc[p].pc = "link" /\ proc'[p].pc = "unlink"
        /\ final' = [final EXCEPT ![f] = partial[f]]
        /\ UNCHANGED <<partial, inode>>
    BY <1>1, <1>9 DEF Acquisition, Link, Goes
  <2>2. f \in Files /\ i \in Inodes /\ partial[f] = i
    BY <1>1, <1>2, <2>1 DEF AtRequest, Transfers, PartialKnown
  <2>3. f \in Temporary /\ Temporary' = Temporary /\ Stored[f] = {}
    BY <1>1, <2>1, <2>2 DEF Temporary, Stored, Unfetched, Fetching
  <2>4. Content(i) \in Contents(f)
    <3>1. /\ inode[i] \in [written : Nat, length : Nat, genuine : BOOLEAN]
          /\ inode[i].written = inode[i].length
          /\ inode[i].length <= Size[f] /\ Size[f] \in Nat
      BY <1>1, <1>2, <2>1, <2>2, StagingAssumption
         DEF WritesPartial, Unfetched
    <3>2. f \in Packages => inode[i].written = Size[f] /\ inode[i].genuine
      BY <1>2, <2>1 DEF WritesPartial, Transfers
    <3>. QED  BY <3>1, <3>2 DEF Content, Contents
  <2>5. Stored' = [Stored EXCEPT ![f] = {Content(i)}]
    <3>1. \A g \in Files : final'[g] = IF g = f THEN i ELSE final[g]
      BY <1>1, <2>1, <2>2
    <3>2. i # NoInode
      BY <1>1, <2>2
    <3>. QED  BY <2>1, <3>1, <3>2 DEF Stored, Content
  <2>6. ~Reported(p) /\ ~Reported(p)'
    BY <2>1 DEF Reported
  <2>7. Directory!Store(f)
    BY <1>3, <2>2, <2>3, <2>4, <2>5, <2>6, DirectoryView
       DEF Directory!Store, Stored, Temporary
  <2>. QED  BY <1>3, <2>2, <2>7 DEF Directory!Next, Directory!Store
<1>10. CASE Report(p)
  <2>1. /\ proc[p].pc = "next" /\ proc'[p].pc = "done"
        /\ proc[p].file \notin Files
        /\ UNCHANGED <<final, partial, inode>>
    BY <1>1, <1>10 DEF Acquisition, Report, NextRequest, Goes
  <2>2. \A f \in Files : f < proc[p].file
    BY <1>1, <2>1, StagingAssumption DEF Acquisition, Files
  <2>3. \A f \in Files : Stored[f] # {}
    BY <1>2, <2>2 DEF EarlierStaged, Stored
  <2>4. Temporary = {}
    BY <1>2, <2>1 DEF PartialKnown, Temporary
  <2>5. Reported(p)' /\ UNCHANGED <<Stored, Temporary>>
    BY <2>1 DEF Reported, Stored, Temporary, Content
  <2>6. Directory!Report
    BY <1>3, <2>3, <2>4, <2>5, DirectoryView
       DEF Directory!Report, Stored, Temporary
  <2>. QED  BY <2>6 DEF Directory!Next
<1>. QED  BY <1>4, <1>5, <1>6, <1>7, <1>8, <1>9, <1>10 DEF Next

(* One acquisition at a time, whatever the server sends and however often  *)
(* it is interrupted and resumed, implements VerifiedFiles: the files get  *)
(* their names in order, each at once with a content its request admits,   *)
(* and keep them; a success is reported of a complete directory.           *)
THEOREM KeepsVerifiedSerial ==
    ASSUME NEW p, Processes = {p}
    PROVE  Spec => KeepsVerified
<1>1. Init => TypeInv /\ SerialInv(p) /\ Unfetched(p)
  <2>. SUFFICES ASSUME Init PROVE TypeInv /\ SerialInv(p) /\ Unfetched(p)
    OBVIOUS
  <2>1. proc[p].pc = "idle"
    BY DEF Init, Idle
  <2>. QED  BY <2>1, TypeInit, SerialInit DEF Unfetched, Fetching
<1>2. TypeInv /\ SerialInv(p) /\ Unfetched(p) /\ [Next]_vars =>
          (TypeInv /\ SerialInv(p) /\ Unfetched(p))'
  BY TypeNext, SerialNext, UnfetchedNext
<1>3. Init => Directory!Init
  BY DEF Init, Idle, At, Directory!Init, Directory!Files, Files
<1>4. TypeInv /\ SerialInv(p) /\ Unfetched(p) /\ [Next]_vars =>
          [Directory!Next]_(Directory!vars)
  BY DirectoryStep
<1>. QED  BY <1>1, <1>2, <1>3, <1>4, PTL
          DEF Spec, KeepsVerified, Directory!Spec
=============================================================================
