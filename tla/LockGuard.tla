------------------------------ MODULE LockGuard ------------------------------
(***************************************************************************)
(* The lock files of task-mgr (tasks.db.lock, loop-{prefix}.lock): one path *)
(* that processes open, create, flock, unlock and unlink, with no lock held *)
(* between these system calls.  A lock belongs to the file that was opened, *)
(* which need not be the file at the path any more.                         *)
(***************************************************************************)
EXTENDS Naturals, FiniteSets

CONSTANTS
  Procs,     \* processes that use this lock file
  NoProc,    \* absence of a process
  MaxFiles   \* bound: files created at the path

ASSUME ConstantsAssumption == NoProc \notin Procs /\ MaxFiles \in Nat

\* Files in the order of their creation (inodes); 0 is the absence of one.
Files == 1 .. MaxFiles

VARIABLES
  created,   \* files created so far
  path,      \* the file at the path
  owner,     \* the process whose open file holds the flock of each file
  fd,        \* the file each process has open
  pc,        \* where each process is
  stolen     \* ghost: a guard was granted beside a drop (see Steals)

vars == <<created, path, owner, fd, pc, stolen>>

Init ==
  /\ created = 0 /\ path = 0
  /\ owner = [f \in Files |-> NoProc]
  /\ fd = [p \in Procs |-> 0]
  /\ pc = [p \in Procs |-> "idle"]
  /\ stolen = FALSE

Goto(p, l) == pc' = [pc EXCEPT ![p] = l]
Free(f) == owner[f] = NoProc

\* The path when p ends with nothing but an open file: it stays.
RemovedOnClose(p) == 0
PathAfterClose(p) == path

\* Closing a file, also by dying, gives up its lock.
Close(p) ==
  /\ fd' = [fd EXCEPT ![p] = 0]
  /\ owner' = [f \in Files |-> IF owner[f] = p THEN NoProc ELSE owner[f]]

-----------------------------------------------------------------------------
(* acquire_inner and Drop for LockGuard.                                   *)

\* open with create(true)
OpenLock(p) ==
  /\ pc[p] = "idle"
  /\ IF path = 0
     THEN /\ created < MaxFiles
          /\ created' = created + 1 /\ path' = created + 1
     ELSE UNCHANGED <<created, path>>
  /\ fd' = [fd EXCEPT ![p] = path']
  /\ Goto(p, "opened")
  /\ UNCHANGED <<owner, stolen>>

\* A guard granted on a file that has left the path, or while a dropped guard
\* has still to remove the file at the path.
Steals(p) == fd[p] # path \/ \E q \in Procs : pc[q] = "dropping"

\* try_lock_exclusive does not wait: a refused process gives up.
TryLock(p) ==
  /\ pc[p] = "opened"
  /\ IF Free(fd[p])
     THEN /\ owner' = [owner EXCEPT ![fd[p]] = p]
          /\ stolen' = (stolen \/ Steals(p))
          /\ Goto(p, "holding")
          /\ UNCHANGED <<path, fd>>
     ELSE /\ Close(p) /\ Goto(p, "idle")
          /\ path' = PathAfterClose(p)
          /\ UNCHANGED stolen
  /\ UNCHANGED created

\* Dropping a guard is two system calls: unlock, then remove_file.
Unlock(p) ==
  /\ pc[p] = "holding"
  /\ owner' = [owner EXCEPT ![fd[p]] = NoProc]
  /\ Goto(p, "dropping")
  /\ UNCHANGED <<created, path, fd, stolen>>

\* remove_file removes whatever file is at the path by then.
RemoveFile(p) ==
  /\ pc[p] = "dropping"
  /\ path' = 0
  /\ Close(p) /\ Goto(p, "idle")
  /\ UNCHANGED <<created, stolen>>

-----------------------------------------------------------------------------
(* is_named_lock_held: open without create, lock, unlock.                  *)

OpenProbe(p) ==
  /\ pc[p] = "idle" /\ path # 0
  /\ fd' = [fd EXCEPT ![p] = path]
  /\ Goto(p, "probing")
  /\ UNCHANGED <<created, path, owner, stolen>>

ProbeLock(p) ==
  /\ pc[p] = "probing"
  /\ IF Free(fd[p])
     THEN /\ owner' = [owner EXCEPT ![fd[p]] = p]
          /\ Goto(p, "probed") /\ UNCHANGED fd
     ELSE Close(p) /\ Goto(p, "idle")
  /\ UNCHANGED <<created, path, stolen>>

LeakedProbe(p) == fd' = [fd EXCEPT ![p] = 0] /\ UNCHANGED owner
ClosedProbe(p) == Close(p)

ProbeUnlock(p) ==
  /\ pc[p] = "probed"
  /\ ClosedProbe(p) /\ Goto(p, "idle")
  /\ UNCHANGED <<created, path, stolen>>

-----------------------------------------------------------------------------
\* A process dies anywhere: the kernel closes its file, the path stays.
RemovedOnDeath(p) == 0
PathAfterDeath(p) == path

Die(p) ==
  /\ pc[p] # "idle"
  /\ Close(p) /\ Goto(p, "idle")
  /\ path' = PathAfterDeath(p)
  /\ UNCHANGED <<created, stolen>>

Next ==
  \E p \in Procs :
    \/ OpenLock(p) \/ TryLock(p) \/ Unlock(p) \/ RemoveFile(p)
    \/ OpenProbe(p) \/ ProbeLock(p) \/ ProbeUnlock(p)
    \/ Die(p)

Spec == Init /\ [][Next]_vars

-----------------------------------------------------------------------------
(* Properties.                                                             *)

Guards == {p \in Procs : pc[p] = "holding"}
Locking == {p \in Procs : pc[p] \in {"holding", "probed"}}

\* Type invariant: a process has a file open exactly when it is at work, and a
\* file is locked by exactly the processes that hold or probe it.
TypeOK ==
  /\ created \in 0 .. MaxFiles /\ path \in 0 .. created
  /\ owner \in [Files -> Procs \cup {NoProc}]
  /\ fd \in [Procs -> 0 .. created]
  /\ pc \in [Procs -> {"idle", "opened", "holding", "dropping", "probing",
                       "probed"}]
  /\ stolen \in BOOLEAN
  /\ \A p \in Procs : fd[p] = 0 <=> pc[p] = "idle"
  /\ \A p \in Procs : \A f \in Files :
       owner[f] = p <=> (p \in Locking /\ fd[p] = f)

\* What the code documents: only one LockGuard exists at a time.
OneGuard == \A p, q \in Guards : p = q

\* Guards exclude each other as long as none was granted beside a drop: crashes,
\* the files they leave behind, and probes do not break exclusion.
ExclusiveUnlessStolen == stolen \/ OneGuard

\* Under the same proviso the file of the guard is the one at the path, so that
\* every other acquire, and the probe of init --force, meets its lock.
GuardVisible == stolen \/ \A p \in Guards : fd[p] = path
=============================================================================
