------------------------ MODULE AcquisitionStaging -------------------------
(***************************************************************************)
(* Acquisition of a fixed list of files into a staging directory: the      *)
(* downloads of apx_downloader.py, written by the streaming writer of      *)
(* apx_staging.py, in the order and with the recovery of                   *)
(* apx_graphical_acquisition.py.  The package and database acquisitions    *)
(* are the same without a resume.                                          *)
(*                                                                         *)
(* Each system call that other processes or a later one can notice is a    *)
(* step.  An error that the code raises ends the process, and so does its  *)
(* death: Stop stands for both, and the guard of an action for the checks  *)
(* that would have raised.  The directory is in /tmp, which a reboot       *)
(* empties, so fsync is left out.                                          *)
(***************************************************************************)
EXTENDS Naturals, FiniteSets, FiniteSetsExt

CONSTANTS
    Processes,      \* invocations of an acquisition
    Inodes,         \* regular files the file system can hold
    NoInode,
    FileCount,      \* requests of the list
    Packages,       \* requests with a known size and digest
    Size,           \* exact size of a package, maximum of another file
    Limit,          \* MAX_AGGREGATE_BYTES
    MaxFiles,       \* MAX_FILES
    Authorized      \* AUTHORIZED_AGGREGATE

VARIABLES
    setup,          \* how much of the operation directory there is
    final,          \* the inode under the name of each file
    partial,        \* the inode under its .partial name
    inode,          \* what is in each inode and what the server announced
    proc            \* what each process is doing

vars == <<setup, final, partial, inode, proc>>

Files == 1..FileCount

ASSUME StagingAssumption ==
    /\ FileCount \in Nat \ {0}
    /\ Packages \subseteq Files
    /\ Size \in [Files -> Nat \ {0}]
    /\ Limit \in Nat /\ MaxFiles \in Nat /\ Authorized \in Nat
    /\ NoInode \notin Inodes

(* Idle and Empty are the values of proc and inode that nothing uses *)
Idle == [pc |-> "idle", resume |-> FALSE, file |-> 1, inode |-> NoInode,
         room |-> 0, aggregate |-> 0, todo |-> {}]

Empty == [written |-> 0, length |-> 0, genuine |-> FALSE]

Init ==
    /\ setup = "absent"
    /\ final = [f \in Files |-> NoInode]
    /\ partial = [f \in Files |-> NoInode]
    /\ inode = [i \in Inodes |-> Empty]
    /\ proc = [p \in Processes |-> Idle]
-----------------------------------------------------------------------------
(* The entries of the files directory: kind of name, file, inode *)
Entries ==
    {e \in {"final", "partial"} \X Files \X Inodes :
        e[3] = IF e[1] = "final" THEN final[e[2]] ELSE partial[e[2]]}

Links(i) == Cardinality({e \in Entries : e[3] = i})

(* _current_usage: st_size of every entry *)
Usage == MapThenSumSet(LAMBDA e : inode[e[3]].written, Entries)

Unused(i) ==
    /\ \A f \in Files : final[f] # i /\ partial[f] # i
    /\ \A p \in Processes : proc[p].inode # i

(* Every use of the staging directory opens the root first, and all but    *)
(* the reservation then the operation directory, its files and the marker. *)
RootThere == setup # "absent"

Opened == RootThere /\ setup = "ready"

At(p, pc) == proc[p].pc = pc

Goes(p, pc) == proc' = [proc EXCEPT ![p].pc = pc]

(* The next request of the list, if the aggregate was not exceeded *)
NextRequest(p) == At(p, "next") /\ proc[p].aggregate <= Authorized

(* acquire_to_fixture wrote or found the file: on to the next request *)
Advance(p, length) ==
    proc' = [proc EXCEPT ![p].pc = "next", ![p].file = @ + 1,
                         ![p].inode = NoInode,
                         ![p].aggregate = @ + length]
-----------------------------------------------------------------------------
(* The root must not exist; mkdir decides *)
MakeRoot(p) ==
    /\ At(p, "idle")
    /\ setup = "absent"
    /\ setup' = "root"
    /\ Goes(p, "root")
    /\ UNCHANGED <<final, partial, inode>>

MakeOperation(p) ==
    /\ At(p, "root") /\ RootThere
    /\ setup' = "operation"
    /\ Goes(p, "operation")
    /\ UNCHANGED <<final, partial, inode>>

(* The plan marker, then the files directory, with which the reservation   *)
(* is one that _open_operation accepts                                     *)
Reserve(p) ==
    /\ At(p, "operation")
    /\ setup' = "ready"
    /\ Goes(p, "next")
    /\ UNCHANGED <<final, partial, inode>>

(* Resuming reads the directory.  It refuses an entry with a second link.  *)
Scan(p) ==
    /\ At(p, "idle") /\ Opened
    /\ \A e \in Entries : Links(e[3]) = 1
    /\ proc' = [proc EXCEPT ![p].pc = "clean", ![p].resume = TRUE,
                    ![p].todo = {f \in Files : partial[f] # NoInode}]
    /\ UNCHANGED <<setup, final, partial, inode>>

RemovePartial(p) ==
    /\ At(p, "clean")
    /\ \E f \in proc[p].todo :
          /\ partial[f] # NoInode
          /\ partial' = [partial EXCEPT ![f] = NoInode]
          /\ proc' = [proc EXCEPT ![p].todo = @ \ {f}]
    /\ UNCHANGED <<setup, final, inode>>

Cleaned(p) ==
    /\ At(p, "clean")
    /\ proc[p].todo = {}
    /\ Goes(p, "next")
    /\ UNCHANGED <<setup, final, partial, inode>>

(* A resume looks under the name of the request, a first run does not. *)
Found(p) == proc[p].resume /\ final[proc[p].file] # NoInode

(* Resuming accepts a file that is there if _validated_existing_bytes does *)
SkipExisting(p) ==
    /\ NextRequest(p) /\ proc[p].file \in Files /\ Found(p)
    /\ LET f == proc[p].file
           i == final[f]
       IN  /\ Links(i) = 1
           /\ inode[i].written \in 1..Size[f]
           /\ f \in Packages => inode[i].written = Size[f] /\ inode[i].genuine
           /\ Advance(p, inode[i].written)
    /\ UNCHANGED <<setup, final, partial, inode>>

(* What a writer takes at most: its file's maximum, and what is left of    *)
(* the aggregate now                                                       *)
Room(f) == Min({Size[f], Limit - Usage})

(* begin_stream takes the room that is left ... *)
Measure(p) ==
    /\ NextRequest(p) /\ proc[p].file \in Files /\ ~Found(p)
    /\ Opened
    /\ Size[proc[p].file] <= Limit
    /\ Cardinality(Entries) < MaxFiles
    /\ Usage \in 0..(Limit - 1)
    /\ proc' = [proc EXCEPT ![p].pc = "open", ![p].room = Room(proc[p].file)]
    /\ UNCHANGED <<setup, final, partial, inode>>

(* ... and makes the partial file, which must not exist *)
OpenPartial(p) ==
    /\ At(p, "open")
    /\ partial[proc[p].file] = NoInode
    /\ \E i \in Inodes :
          /\ Unused(i)
          /\ partial' = [partial EXCEPT ![proc[p].file] = i]
          /\ inode' = [inode EXCEPT ![i] = Empty]
          /\ proc' = [proc EXCEPT ![p].pc = "request", ![p].inode = i]
    /\ UNCHANGED <<setup, final>>

(* A length that one Content-Length header announces *)
Lengths(f) == 0..Size[f]

(* What the opener returns for a file: one direct answer, never that of a  *)
(* redirect.  Whether its content is the genuine one is up to the server.  *)
Responses(f) == [length : Lengths(f), genuine : BOOLEAN]

(* The response announces a length that fits the request. *)
Respond(p) ==
    /\ At(p, "request")
    /\ \E response \in Responses(proc[p].file) :
          /\ proc[p].file \in Packages =>
                 response.length = Size[proc[p].file]
          /\ inode' = [inode EXCEPT ![proc[p].inode].length = response.length,
                                    ![proc[p].inode].genuine = response.genuine]
    /\ Goes(p, "receive")
    /\ UNCHANGED <<setup, final, partial>>

(* The loop reads on: there is a chunk, and it does not exceed what was    *)
(* announced.                                                              *)
MoreToCome(p) == inode[proc[p].inode].written < inode[proc[p].inode].length

(* mutant of Receive: the room left in the directory is not looked at *)
ReceiveUnbounded(p) ==
    /\ At(p, "receive") /\ MoreToCome(p)
    /\ inode' = [inode EXCEPT ![proc[p].inode].written = @ + 1]
    /\ UNCHANGED <<setup, final, partial, proc>>

(* A chunk arrives and goes to the writer *)
Receive(p) ==
    /\ At(p, "receive") /\ MoreToCome(p)
    /\ inode[proc[p].inode].written < proc[p].room
    /\ inode' = [inode EXCEPT ![proc[p].inode].written = @ + 1]
    /\ UNCHANGED <<setup, final, partial, proc>>

(* mutant of Verify: the digest of the stream is not compared *)
VerifyLength(p) ==
    /\ At(p, "receive")
    /\ inode[proc[p].inode].written = inode[proc[p].inode].length
    /\ Goes(p, "link")
    /\ UNCHANGED <<setup, final, partial, inode>>

(* The end of the stream: length, and digest if it is known *)
Verify(p) ==
    /\ At(p, "receive")
    /\ inode[proc[p].inode].written = inode[proc[p].inode].length
    /\ proc[p].file \in Packages => inode[proc[p].inode].genuine
    /\ Goes(p, "link")
    /\ UNCHANGED <<setup, final, partial, inode>>

(* os.link by name: whatever is the partial file by now *)
Link(p) ==
    /\ At(p, "link")
    /\ partial[proc[p].file] # NoInode
    /\ final[proc[p].file] = NoInode
    /\ final' = [final EXCEPT ![proc[p].file] = partial[proc[p].file]]
    /\ Goes(p, "unlink")
    /\ UNCHANGED <<setup, partial, inode>>

(* mutant of UnlinkPartial: the partial file stays *)
UnlinkNothing(p) ==
    /\ At(p, "unlink")
    /\ partial[proc[p].file] # NoInode
    /\ Advance(p, inode[proc[p].inode].length)
    /\ UNCHANGED <<setup, final, partial, inode>>

(* mutant of UnlinkPartial: the other name of the file goes *)
UnlinkFinal(p) ==
    /\ At(p, "unlink")
    /\ partial[proc[p].file] # NoInode
    /\ final' = [final EXCEPT ![proc[p].file] = NoInode]
    /\ Advance(p, inode[proc[p].inode].length)
    /\ UNCHANGED <<setup, partial, inode>>

UnlinkPartial(p) ==
    /\ At(p, "unlink")
    /\ partial[proc[p].file] # NoInode
    /\ partial' = [partial EXCEPT ![proc[p].file] = NoInode]
    /\ Advance(p, inode[proc[p].inode].length)
    /\ UNCHANGED <<setup, final, inode>>

(* The acquisition reports success *)
Report(p) ==
    /\ NextRequest(p) /\ proc[p].file \notin Files
    /\ Goes(p, "done")
    /\ UNCHANGED <<setup, final, partial, inode>>

(* A check raises, the process is killed, or it returns *)
Stop(p) ==
    /\ proc[p].pc # "idle"
    /\ proc' = [proc EXCEPT ![p] = Idle]
    /\ UNCHANGED <<setup, final, partial, inode>>

Next == \E p \in Processes :
            \/ MakeRoot(p) \/ MakeOperation(p) \/ Reserve(p)
            \/ Scan(p) \/ RemovePartial(p) \/ Cleaned(p) \/ SkipExisting(p)
            \/ Measure(p) \/ OpenPartial(p) \/ Respond(p) \/ Receive(p)
            \/ Verify(p) \/ Link(p) \/ UnlinkPartial(p)
            \/ Report(p) \/ Stop(p)

Spec == Init /\ [][Next]_vars
-----------------------------------------------------------------------------
(* What an acquisition is doing; todo is the partial files it still has to *)
(* remove, room and aggregate count bytes                                  *)
Acquisition ==
    [pc : {"idle", "root", "operation", "clean", "next", "open", "request",
           "receive", "link", "unlink", "done"},
     resume : BOOLEAN, file : 1..(FileCount + 1),
     inode : Inodes \cup {NoInode}, room : Nat, aggregate : Nat,
     todo : SUBSET Files]

(* All variables have their types: in particular no acquisition goes past  *)
(* the end of its list, and its room is never negative.                    *)
TypeOK ==
    /\ setup \in {"absent", "root", "operation", "ready"}
    /\ final \in [Files -> Inodes \cup {NoInode}]
    /\ partial \in [Files -> Inodes \cup {NoInode}]
    /\ inode \in [Inodes -> [written : Nat, length : Nat, genuine : BOOLEAN]]
    /\ proc \in [Processes -> Acquisition]

(* "One exclusive partial file that becomes visible only after             *)
(* validation" (StreamingStagingWriter): what has the name of a file is    *)
(* everything the server announced, and for a package the one the          *)
(* manifest names.                                                         *)
StagedVerified ==
    \A f \in Files : final[f] # NoInode =>
        LET content == inode[final[f]]
        IN  /\ content.written = content.length
            /\ f \in Packages =>
                   content.genuine /\ content.written = Size[f]

(* The files of the directory together keep within MAX_AGGREGATE_BYTES,    *)
(* leftovers of interrupted downloads included, although write only        *)
(* compares with the room that begin_stream found.                         *)
AggregateHeld ==
    MapThenSumSet(LAMBDA i : inode[i].written,
                  {i \in Inodes : Links(i) > 0}) <= Limit

(* The acquisition only reports success when every file of the list is     *)
(* staged and nothing else is left in the directory, whatever sequence of  *)
(* interrupted acquisitions and resumptions came before.                   *)
ReportComplete ==
    \A p \in Processes : At(p, "done") =>
        \A f \in Files : final[f] # NoInode /\ partial[f] = NoInode
-----------------------------------------------------------------------------
(* What is under a name, and what a request admits: for a package the one  *)
(* file the manifest names                                                 *)
Content(i) == [length |-> inode[i].written, genuine |-> inode[i].genuine]

Contents(f) ==
    {c \in [length : 0..Size[f], genuine : BOOLEAN] :
        f \in Packages => c.length = Size[f] /\ c.genuine}

Directory ==
    INSTANCE VerifiedFiles
    WITH Count <- FileCount,
         Admitted <- [f \in Files |-> Contents(f)],
         stored <- [f \in Files |-> IF final[f] = NoInode THEN {}
                                    ELSE {Content(final[f])}],
         temporary <- {f \in Files : partial[f] # NoInode},
         reported <- \E p \in Processes : At(p, "done")

(* Whatever the server sends and however often the acquisition is          *)
(* interrupted and resumed, the directory only ever goes the way from      *)
(* empty to complete that VerifiedFiles describes, and nothing that has    *)
(* its name is fetched again, changed or lost.                             *)
KeepsVerified == Directory!Spec
=============================================================================
