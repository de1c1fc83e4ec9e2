------------------------------ MODULE SessionLock ------------------------------
(***************************************************************************)
(* The per-session lock file of storage/lock.py.  A process acquires by     *)
(* creating the file exclusively and writing its pid and host into it; a    *)
(* process that finds the file reads the owner, asks the operating system   *)
(* whether that pid is alive, and unlinks the path if it is not.  Every     *)
(* system call is a step of its own: other processes run between them.     *)
(*                                                                         *)
(* A process is its pid on its host.  A pid that died may come back as a    *)
(* new process (Start).  Calls of unlink and read act on the path; a write  *)
(* acts on the file the descriptor was opened on.                           *)
(***************************************************************************)
EXTENDS Naturals

CONSTANTS
    Procs,      \* processes that use the session
    HostOf,     \* the host each runs on
    NoFile, Nobody

ASSUME LockAssumption ==
    /\ NoFile \notin [by : Procs, written : BOOLEAN]
    /\ Nobody \notin Procs

VARIABLES
    file,       \* what the lock path names: nothing, or a file and its creator
    pc,         \* where each process is
    attempt,    \* the iteration of acquire's loop it is in
    saw,        \* the owner it read from the file
    stolen      \* history: the file of a process that held the lock was unlinked

vars == <<file, pc, attempt, saw, stolen>>

MaxAttempts == 2

\* out: outside; create, write: os.open and json.dump of acquire; read, check,
\* unlink: the three calls of _remove_if_stale; in: inside the session;
\* remove: release has read its own name and is about to unlink.
Labels == {"out", "create", "write", "read", "check", "unlink", "in", "remove", "dead"}

\* The process has created the file and not begun to give it up by itself.
Holding(p) == pc[p] \in {"write", "in", "remove"}

\* _read_owner finds a complete record of q.
NamesOwner(f, q) == f = [by |-> q, written |-> TRUE]

Init ==
    /\ file = NoFile
    /\ pc = [p \in Procs |-> "out"]
    /\ attempt = [p \in Procs |-> 1]
    /\ saw = [p \in Procs |-> Nobody]
    /\ stolen = FALSE

Goto(p, label) == pc' = [pc EXCEPT ![p] = label]

\* StorageError: the caller gives up.
Refuse(p) == Goto(p, "out")

Acquire(p) ==
    /\ pc[p] = "out"
    /\ Goto(p, "create")
    /\ attempt' = [attempt EXCEPT ![p] = 1]
    /\ UNCHANGED <<file, saw, stolen>>

\* Mutant of Create: os.open without O_EXCL.
CreateShared(p) ==
    /\ pc[p] = "create"
    /\ file' = [by |-> p, written |-> FALSE]
    /\ Goto(p, "write")
    /\ UNCHANGED <<attempt, saw, stolen>>

\* os.open(O_CREAT | O_EXCL).
Create(p) ==
    /\ pc[p] = "create"
    /\ \/ /\ file = NoFile
          /\ file' = [by |-> p, written |-> FALSE]
          /\ Goto(p, "write")
       \/ /\ file # NoFile
          /\ UNCHANGED file
          /\ Goto(p, "read")
    /\ UNCHANGED <<attempt, saw, stolen>>

\* The record reaches the file, if the path still names it.
Written(p) == IF file = [by |-> p, written |-> FALSE]
              THEN [by |-> p, written |-> TRUE] ELSE file

\* Mutant of WriteOwner: the record is never flushed.
WriteOwnerUnflushed(p) ==
    /\ pc[p] = "write"
    /\ Goto(p, "in")
    /\ UNCHANGED <<file, attempt, saw, stolen>>

WriteOwner(p) ==
    /\ pc[p] = "write"
    /\ file' = Written(p)
    /\ Goto(p, "in")
    /\ UNCHANGED <<attempt, saw, stolen>>

\* An OSError of the write or of fsync: acquire raises and leaves the file.
WriteFails(p) ==
    /\ pc[p] = "write"
    /\ file' \in {file, Written(p)}
    /\ Refuse(p)
    /\ UNCHANGED <<attempt, saw, stolen>>

\* _read_owner: a missing or unreadable file, or one of another host, is not
\* for this process to remove.
ReadOwner(p) ==
    /\ pc[p] = "read"
    /\ \/ \E q \in Procs :
            /\ NamesOwner(file, q) /\ HostOf[q] = HostOf[p]
            /\ saw' = [saw EXCEPT ![p] = q]
            /\ Goto(p, "check")
       \/ /\ ~ \E q \in Procs : NamesOwner(file, q) /\ HostOf[q] = HostOf[p]
          /\ Refuse(p)
          /\ UNCHANGED saw
    /\ UNCHANGED <<file, attempt, stolen>>

\* Mutant of CheckOwner: no owner is ever found dead.
CheckOwnerTimid(p) ==
    /\ pc[p] = "check"
    /\ Refuse(p)
    /\ UNCHANGED <<file, attempt, saw, stolen>>

\* _process_exists of the pid that was read.
CheckOwner(p) ==
    /\ pc[p] = "check"
    /\ IF pc[saw[p]] = "dead" THEN Goto(p, "unlink") ELSE Refuse(p)
    /\ UNCHANGED <<file, attempt, saw, stolen>>

\* Mutant of UnlinkStale: one iteration too many.
UnlinkStaleForever(p) ==
    /\ pc[p] = "unlink"
    /\ IF file # NoFile /\ attempt[p] <= MaxAttempts
       THEN Goto(p, "create") /\ attempt' = [attempt EXCEPT ![p] = @ + 1]
       ELSE Refuse(p) /\ UNCHANGED attempt
    /\ file' = NoFile
    /\ stolen' = (stolen \/ (file # NoFile /\ Holding(file.by)))
    /\ saw' = [saw EXCEPT ![p] = Nobody]

\* The unlink of _remove_if_stale, then the loop's next iteration if any is left.
UnlinkStale(p) ==
    /\ pc[p] = "unlink"
    /\ IF file # NoFile /\ attempt[p] < MaxAttempts
       THEN Goto(p, "create") /\ attempt' = [attempt EXCEPT ![p] = @ + 1]
       ELSE Refuse(p) /\ UNCHANGED attempt
    /\ file' = NoFile
    /\ stolen' = (stolen \/ (file # NoFile /\ Holding(file.by)))
    /\ saw' = [saw EXCEPT ![p] = Nobody]

\* release, first half: only a file that names this process is to be unlinked.
BeginRelease(p) ==
    /\ pc[p] = "in"
    /\ IF NamesOwner(file, p) THEN Goto(p, "remove") ELSE Goto(p, "out")
    /\ UNCHANGED <<file, attempt, saw, stolen>>

\* release, second half: unlink(missing_ok=True) of whatever the path names.
FinishRelease(p) ==
    /\ pc[p] = "remove"
    /\ file' = NoFile
    /\ stolen' = (stolen \/ (file # NoFile /\ file.by # p /\ Holding(file.by)))
    /\ Goto(p, "out")
    /\ UNCHANGED <<attempt, saw>>

Die(p) ==
    /\ pc[p] # "dead"
    /\ Goto(p, "dead")
    /\ saw' = [saw EXCEPT ![p] = Nobody]
    /\ UNCHANGED <<file, attempt, stolen>>

\* The operating system hands the pid out again.
Start(p) ==
    /\ pc[p] = "dead"
    /\ Goto(p, "out")
    /\ UNCHANGED <<file, attempt, saw, stolen>>

\* The steps a process takes by itself once it has called acquire or release.
Step(p) ==
    \/ Create(p) \/ WriteOwner(p) \/ WriteFails(p)
    \/ ReadOwner(p) \/ CheckOwner(p) \/ UnlinkStale(p)
    \/ FinishRelease(p)

Next == \E p \in Procs : Acquire(p) \/ BeginRelease(p) \/ Step(p) \/ Die(p) \/ Start(p)

Spec == Init /\ [][Next]_vars

\* acquire and release contain no wait: a live process that is inside them
\* goes on.  Nothing is assumed of when a process calls them, dies or returns.
FairSpec == Spec /\ \A p \in Procs : WF_vars(Step(p))

-------------------------------------------------------------------------------
\* The lock path, the loop counters and the owners read keep their shapes: in
\* particular acquire never starts a third attempt.
TypeOK ==
    /\ file \in [by : Procs, written : BOOLEAN] \cup {NoFile}
    /\ pc \in [Procs -> Labels]
    /\ attempt \in [Procs -> 1..MaxAttempts]
    /\ saw \in [Procs -> Procs \cup {Nobody}]
    /\ stolen \in BOOLEAN

\* What the lock is for (docs/03_PIPELINE.md:98, lock.py:1): one process at a
\* time works on the session.
MutualExclusion ==
    \A p, q \in Procs : Holding(p) /\ Holding(q) => p = q

\* Two processes are inside only after the file of one that held the lock has
\* been unlinked under it: the exclusive creation, failed writes, crashes, the
\* reuse of pids, refusals and normal releases never admit a second one.
ExclusiveUnlessStolen == ~stolen => MutualExclusion

\* Until then the path names the holder's file, with its record once written:
\* the invariant that makes ExclusiveUnlessStolen inductive.
HolderOwnsFile ==
    ~stolen => \A p \in Procs :
        Holding(p) => file = [by |-> p, written |-> pc[p] # "write"]

\* A lock whose recorded owner is dead, as a process on the same host meets it.
StaleFor(p) == file # NoFile /\ file.written /\ HostOf[file.by] = HostOf[p]
               /\ pc[file.by] = "dead"

\* README.md:318: a lock left by a dead process of the same host does not stop
\* a process that comes to acquire it: the file goes, or the pid lives again,
\* unless that process dies itself.
StaleLockRecovered ==
    \A p \in Procs :
        pc[p] = "create" /\ StaleFor(p) ~> ~StaleFor(p) \/ pc[p] = "dead"
===============================================================================
