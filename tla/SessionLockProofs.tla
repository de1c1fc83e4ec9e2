--------------------------- MODULE SessionLockProofs ---------------------------
(***************************************************************************)
(* The lock's exclusion for any number of processes and hosts, as far as it *)
(* goes: until a file is unlinked under its holder.                         *)
(***************************************************************************)
EXTENDS SessionLock, TLAPS

LockInv == TypeOK /\ HolderOwnsFile

\* A created file is a file.
LEMMA LockFile ==
    ASSUME NEW p \in Procs, NEW w \in BOOLEAN
    PROVE  /\ [by |-> p, written |-> w] \in [by : Procs, written : BOOLEAN]
           /\ [by |-> p, written |-> w] # NoFile
<1>1. [by |-> p, written |-> w] \in [by : Procs, written : BOOLEAN]
  OBVIOUS
<1> QED
  BY <1>1, LockAssumption

\* Without a lock file nobody holds the lock.
LEMMA LockInit == Init => LockInv
<1> SUFFICES ASSUME Init PROVE LockInv
  OBVIOUS
<1>1. TypeOK
  <2>1. pc \in [Procs -> Labels]
    BY DEF Init, Labels
  <2>2. attempt \in [Procs -> 1..MaxAttempts] /\ saw \in [Procs -> Procs \cup {Nobody}]
    BY DEF Init, MaxAttempts
  <2> QED BY <2>1, <2>2 DEF Init, TypeOK
<1>2. HolderOwnsFile
  BY DEF Init, HolderOwnsFile, Holding
<1> QED
  BY <1>1, <1>2 DEF LockInv

\* Every step keeps the variables' shapes.
LEMMA LockType == TypeOK /\ [Next]_vars => TypeOK'
<1> SUFFICES ASSUME TypeOK, [Next]_vars PROVE TypeOK'
  OBVIOUS
<1> USE DEF TypeOK, Labels, Goto, Refuse, Written, MaxAttempts
<1>1. ASSUME NEW p \in Procs, Acquire(p) PROVE TypeOK'
  BY <1>1 DEF Acquire
<1>2. ASSUME NEW p \in Procs, Create(p) PROVE TypeOK'
  <2>1. CASE file = NoFile
    <3>1. file' \in [by : Procs, written : BOOLEAN]
      BY <1>2, <2>1, LockFile DEF Create
    <3>2. pc' \in [Procs -> Labels]
      BY <1>2, <2>1 DEF Create
    <3> QED BY <1>2, <3>1, <3>2 DEF Create
  <2>2. CASE file # NoFile
    <3>1. file' = file /\ pc' \in [Procs -> Labels]
      BY <1>2, <2>2 DEF Create
    <3> QED BY <1>2, <3>1 DEF Create
  <2> QED BY <2>1, <2>2
<1>3. ASSUME NEW p \in Procs, WriteOwner(p) \/ WriteFails(p) PROVE TypeOK'
  <2>1. Written(p) \in [by : Procs, written : BOOLEAN] \cup {NoFile}
    OBVIOUS
  <2> HIDE DEF Written
  <2> QED BY <1>3, <2>1 DEF WriteOwner, WriteFails
<1>4. ASSUME NEW p \in Procs, ReadOwner(p) PROVE TypeOK'
  BY <1>4 DEF ReadOwner
<1>5. ASSUME NEW p \in Procs, CheckOwner(p) PROVE TypeOK'
  BY <1>5 DEF CheckOwner
<1>6. ASSUME NEW p \in Procs, UnlinkStale(p) PROVE TypeOK'
  <2>1. attempt' \in [Procs -> 1..MaxAttempts]
    BY <1>6 DEF UnlinkStale
  <2>2. pc' \in [Procs -> Labels]
    BY <1>6 DEF UnlinkStale
  <2>3. stolen' \in BOOLEAN
    BY <1>6 DEF UnlinkStale, Holding
  <2> QED BY <1>6, <2>1, <2>2, <2>3 DEF UnlinkStale
<1>7. ASSUME NEW p \in Procs, BeginRelease(p) PROVE TypeOK'
  BY <1>7 DEF BeginRelease
<1>8. ASSUME NEW p \in Procs, FinishRelease(p) PROVE TypeOK'
  BY <1>8 DEF FinishRelease, Holding
<1>9. ASSUME NEW p \in Procs, Die(p) \/ Start(p) PROVE TypeOK'
  BY <1>9 DEF Die, Start
<1>10. CASE UNCHANGED vars
  BY <1>10 DEF vars
<1> QED
  BY <1>1, <1>2, <1>3, <1>4, <1>5, <1>6, <1>7, <1>8, <1>9, <1>10 DEF Next, Step

\* Until a file is stolen, the path names the holder's file: an exclusive
\* creation finds no file and so no holder, a holder writes and unlinks its own
\* file, and an unlink that hits a holder's file counts as a theft.
LEMMA LockNext == LockInv /\ [Next]_vars => HolderOwnsFile'
<1> SUFFICES ASSUME LockInv, [Next]_vars, ~stolen',
                    NEW h \in Procs, Holding(h)'
             PROVE  file' = [by |-> h, written |-> pc'[h] # "write"]
  BY DEF HolderOwnsFile, Holding
<1>1. TypeOK /\ HolderOwnsFile
  BY DEF LockInv
<1>2. ~stolen
  BY DEF Next, Step, vars, Acquire, Create, WriteOwner, WriteFails, ReadOwner, CheckOwner,
         UnlinkStale, BeginRelease, FinishRelease, Die, Start
<1>3. \A q \in Procs : Holding(q) => file = [by |-> q, written |-> pc[q] # "write"]
  BY <1>1, <1>2 DEF HolderOwnsFile
<1>4. Labels = {"out", "create", "write", "read", "check", "unlink", "in", "remove", "dead"}
  BY DEF Labels
<1> USE DEF TypeOK, Goto, Refuse, Holding
<1>5. ASSUME NEW p \in Procs, Acquire(p) \/ ReadOwner(p) \/ CheckOwner(p) \/ Die(p) \/ Start(p)
      PROVE  file' = [by |-> h, written |-> pc'[h] # "write"]
  BY <1>1, <1>3, <1>5 DEF Acquire, ReadOwner, CheckOwner, Die, Start
<1>6. ASSUME NEW p \in Procs, Create(p)
      PROVE  file' = [by |-> h, written |-> pc'[h] # "write"]
  <2>1. CASE file = NoFile
    <3>1. \A q \in Procs : ~Holding(q)
      BY <1>3, <2>1, LockFile
    <3>2. file' = [by |-> p, written |-> FALSE] /\ pc' = [pc EXCEPT ![p] = "write"]
      BY <1>6, <2>1 DEF Create
    <3>3. h = p
      BY <1>1, <3>1, <3>2
    <3> QED BY <1>1, <3>2, <3>3
  <2>2. CASE file # NoFile
    BY <1>1, <1>3, <1>6, <2>2 DEF Create
  <2> QED BY <2>1, <2>2
<1>7. ASSUME NEW p \in Procs, WriteOwner(p)
      PROVE  file' = [by |-> h, written |-> pc'[h] # "write"]
  <2>1. file = [by |-> p, written |-> FALSE]
    BY <1>1, <1>3, <1>7 DEF WriteOwner
  <2>2. file' = [by |-> p, written |-> TRUE] /\ pc' = [pc EXCEPT ![p] = "in"]
    BY <1>7, <2>1 DEF WriteOwner, Written
  <2>3. h = p
    BY <1>1, <1>3, <2>1, <2>2
  <2> QED BY <1>1, <2>2, <2>3
<1>8. ASSUME NEW p \in Procs, WriteFails(p)
      PROVE  file' = [by |-> h, written |-> pc'[h] # "write"]
  BY <1>1, <1>3, <1>8 DEF WriteFails
<1>9. ASSUME NEW p \in Procs, UnlinkStale(p)
      PROVE  file' = [by |-> h, written |-> pc'[h] # "write"]
  <2>1. Holding(h)
    BY <1>1, <1>9 DEF UnlinkStale
  <2>2. file = [by |-> h, written |-> pc[h] # "write"] /\ file # NoFile
    BY <1>1, <1>3, <2>1, LockFile
  <2>3. stolen'
    BY <1>9, <2>1, <2>2 DEF UnlinkStale
  <2> QED BY <2>3
<1>10. ASSUME NEW p \in Procs, BeginRelease(p)
      PROVE  file' = [by |-> h, written |-> pc'[h] # "write"]
  BY <1>1, <1>3, <1>10 DEF BeginRelease
<1>11. ASSUME NEW p \in Procs, FinishRelease(p)
      PROVE  file' = [by |-> h, written |-> pc'[h] # "write"]
  <2>1. Holding(p) /\ h # p /\ Holding(h)
    BY <1>1, <1>11 DEF FinishRelease
  <2>2. FALSE
    BY <1>3, <2>1
  <2> QED BY <2>2
<1>12. CASE UNCHANGED vars
  BY <1>3, <1>12 DEF vars
<1> QED
  BY <1>5, <1>6, <1>7, <1>8, <1>9, <1>10, <1>11, <1>12 DEF Next, Step

\* The lock file of a holder stays its own as long as no file is stolen.
LEMMA LockInvHolds == Spec => []LockInv
<1>1. LockInv /\ [Next]_vars => LockInv'
  BY LockType, LockNext DEF LockInv
<1> QED
  BY <1>1, LockInit, PTL DEF Spec

\* The types: acquire never starts a third attempt, and the path names a file of
\* a process or none.
THEOREM LockTypes == Spec => []TypeOK
<1>1. LockInv => TypeOK
  BY DEF LockInv
<1> QED
  BY <1>1, LockInvHolds, PTL

\* As long as no file is stolen, whoever is inside finds its own file at the path.
THEOREM HolderKeepsFile == Spec => []HolderOwnsFile
<1>1. LockInv => HolderOwnsFile
  BY DEF LockInv
<1> QED
  BY <1>1, LockInvHolds, PTL

\* Two processes are inside the session only after a file was unlinked under a
\* process that held the lock.
THEOREM Exclusion == Spec => []ExclusiveUnlessStolen
<1>1. LockInv => ExclusiveUnlessStolen
  BY DEF LockInv, HolderOwnsFile, ExclusiveUnlessStolen, MutualExclusion
<1> QED
  BY <1>1, LockInvHolds, PTL
===============================================================================
