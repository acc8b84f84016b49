--------------------------- MODULE LockGuardProofs ---------------------------
(* Exclusion of the lock files' guards, for any number of processes and     *)
(* files: it fails only through a guard granted beside a drop.              *)
EXTENDS LockGuard, TLAPS

LEMMA FilesType ==
  ASSUME ConstantsAssumption
  PROVE  MaxFiles \in Nat /\ Files = 1 .. MaxFiles /\ NoProc \notin Procs
BY DEF ConstantsAssumption, Files

\* Closing a file leaves no lock of the process behind and no other changed.
LEMMA CloseFrees ==
  ASSUME ConstantsAssumption, TypeOK, NEW p \in Procs, Close(p)
  PROVE  /\ owner' \in [Files -> Procs \cup {NoProc}]
         /\ fd' \in [Procs -> 0 .. created] /\ fd'[p] = 0
         /\ \A q \in Procs \ {p} : fd'[q] = fd[q]
         /\ \A f \in Files : owner'[f] # p
         /\ \A q \in Procs \ {p} : \A f \in Files :
              owner'[f] = q <=> owner[f] = q
BY FilesType DEF Close, TypeOK

\* The type invariant: a file is locked by exactly the processes that hold or
\* probe it, whatever has been removed from the path since.
LEMMA TypeStep ==
  ASSUME ConstantsAssumption, TypeOK, [Next]_vars
  PROVE  TypeOK'
<1>. USE FilesType
<1>1. ASSUME NEW p \in Procs, OpenLock(p) PROVE TypeOK'
  <2>1. path' \in 0 .. created' /\ path' # 0 /\ created' \in created .. MaxFiles
    BY <1>1 DEF OpenLock, TypeOK
  <2>2. fd' \in [Procs -> 0 .. created']
    BY <1>1, <2>1 DEF OpenLock, TypeOK
  <2>3. \A f \in Files : owner[f] # p
    BY <1>1 DEF OpenLock, TypeOK, Locking
  <2>4. \A q \in Procs : fd'[q] = 0 <=> pc'[q] = "idle"
    BY <1>1, <2>1 DEF OpenLock, Goto, TypeOK
  <2>5. \A q \in Procs : \A f \in Files :
          owner'[f] = q <=> (q \in Locking' /\ fd'[q] = f)
    BY <1>1, <2>3 DEF OpenLock, Goto, TypeOK, Locking
  <2>. QED BY <1>1, <2>1, <2>2, <2>4, <2>5 DEF OpenLock, Goto, TypeOK
<1>2. ASSUME NEW p \in Procs, TryLock(p) PROVE TypeOK'
  <2>1. CASE Free(fd[p])
    <3>1. fd[p] \in Files BY <1>2 DEF TryLock, TypeOK
    <3>2. \A f \in Files : owner[f] # p
      BY <1>2 DEF TryLock, TypeOK, Locking
    <3>3. /\ owner' \in [Files -> Procs \cup {NoProc}] /\ UNCHANGED <<created, path, fd>>
          /\ \A q \in Procs : \A f \in Files :
               owner'[f] = q <=> IF q = p THEN f = fd[p] ELSE owner[f] = q
      BY <1>2, <2>1, <3>1, <3>2 DEF TryLock, Free, TypeOK
    <3>4. \A q \in Procs : /\ q \in Locking' <=> (q = p \/ q \in Locking)
                           /\ pc'[q] = "idle" <=> pc[q] = "idle"
      BY <1>2, <2>1 DEF TryLock, Goto, Locking, TypeOK
    <3>5. /\ pc' \in [Procs -> {"idle", "opened", "holding", "dropping", "probing",
                               "probed"}]
          /\ stolen' \in BOOLEAN
      BY <1>2, <2>1 DEF TryLock, Goto, TypeOK
    <3>6. \A q \in Procs : \A f \in Files :
            owner'[f] = q <=> (q \in Locking' /\ fd'[q] = f)
      <4>. TAKE q \in Procs
      <4>. TAKE f \in Files
      <4>1. owner[f] = q <=> (q \in Locking /\ fd[q] = f) BY DEF TypeOK
      <4>. QED BY <3>3, <3>4, <4>1
    <3>7. \A q \in Procs : fd'[q] = 0 <=> pc'[q] = "idle"
      BY <3>3, <3>4 DEF TypeOK
    <3>. QED BY <3>3, <3>5, <3>6, <3>7 DEF TypeOK
  <2>2. CASE ~Free(fd[p])
    <3>1. Close(p) BY <1>2, <2>2 DEF TryLock
    <3>2. \A q \in Procs : /\ q \in Locking' <=> (q # p /\ q \in Locking)
                           /\ pc'[q] = "idle" <=> (q = p \/ pc[q] = "idle")
      BY <1>2, <2>2 DEF TryLock, Goto, Locking, TypeOK
    <3>3. /\ pc' \in [Procs -> {"idle", "opened", "holding", "dropping", "probing",
                               "probed"}]
          /\ UNCHANGED <<created, path, stolen>>
      BY <1>2, <2>2 DEF TryLock, PathAfterClose, Goto, TypeOK
    <3>4. \A q \in Procs : \A f \in Files :
            owner'[f] = q <=> (q \in Locking' /\ fd'[q] = f)
      <4>. TAKE q \in Procs
      <4>. TAKE f \in Files
      <4>1. owner[f] = q <=> (q \in Locking /\ fd[q] = f) BY DEF TypeOK
      <4>. QED BY <3>1, <3>2, <4>1, CloseFrees
    <3>5. \A q \in Procs : fd'[q] = 0 <=> pc'[q] = "idle"
      BY <3>1, <3>2, CloseFrees DEF TypeOK
    <3>. QED BY <3>1, <3>3, <3>4, <3>5, CloseFrees DEF TypeOK
  <2>. QED BY <2>1, <2>2
<1>3. ASSUME NEW p \in Procs, Unlock(p) PROVE TypeOK'
  BY <1>3 DEF Unlock, Goto, TypeOK, Locking
<1>4. ASSUME NEW p \in Procs, RemoveFile(p) PROVE TypeOK'
  BY <1>4, CloseFrees DEF RemoveFile, Goto, TypeOK, Locking
<1>5. ASSUME NEW p \in Procs, OpenProbe(p) PROVE TypeOK'
  BY <1>5 DEF OpenProbe, Goto, TypeOK, Locking
<1>6. ASSUME NEW p \in Procs, ProbeLock(p) PROVE TypeOK'
  <2>1. CASE Free(fd[p])
    <3>1. fd[p] \in Files BY <1>6 DEF ProbeLock, TypeOK
    <3>2. \A f \in Files : owner[f] # p
      BY <1>6 DEF ProbeLock, TypeOK, Locking
    <3>3. /\ owner' \in [Files -> Procs \cup {NoProc}] /\ UNCHANGED <<created, path, fd>>
          /\ \A q \in Procs : \A f \in Files :
               owner'[f] = q <=> IF q = p THEN f = fd[p] ELSE owner[f] = q
      BY <1>6, <2>1, <3>1, <3>2 DEF ProbeLock, Free, TypeOK
    <3>4. \A q \in Procs : /\ q \in Locking' <=> (q = p \/ q \in Locking)
                           /\ pc'[q] = "idle" <=> pc[q] = "idle"
      BY <1>6, <2>1 DEF ProbeLock, Goto, Locking, TypeOK
    <3>5. /\ pc' \in [Procs -> {"idle", "opened", "holding", "dropping", "probing",
                               "probed"}]
          /\ stolen' \in BOOLEAN
      BY <1>6, <2>1 DEF ProbeLock, Goto, TypeOK
    <3>6. \A q \in Procs : \A f \in Files :
            owner'[f] = q <=> (q \in Locking' /\ fd'[q] = f)
      <4>. TAKE q \in Procs
      <4>. TAKE f \in Files
      <4>1. owner[f] = q <=> (q \in Locking /\ fd[q] = f) BY DEF TypeOK
      <4>. QED BY <3>3, <3>4, <4>1
    <3>7. \A q \in Procs : fd'[q] = 0 <=> pc'[q] = "idle"
      BY <3>3, <3>4 DEF TypeOK
    <3>. QED BY <3>3, <3>5, <3>6, <3>7 DEF TypeOK
  <2>2. CASE ~Free(fd[p])
    <3>1. Close(p) BY <1>6, <2>2 DEF ProbeLock
    <3>2. \A q \in Procs : /\ q \in Locking' <=> (q # p /\ q \in Locking)
                           /\ pc'[q] = "idle" <=> (q = p \/ pc[q] = "idle")
      BY <1>6, <2>2 DEF ProbeLock, Goto, Locking, TypeOK
    <3>3. /\ pc' \in [Procs -> {"idle", "opened", "holding", "dropping", "probing",
                               "probed"}]
          /\ UNCHANGED <<created, path, stolen>>
      BY <1>6, <2>2 DEF ProbeLock, Goto, TypeOK
    <3>4. \A q \in Procs : \A f \in Files :
            owner'[f] = q <=> (q \in Locking' /\ fd'[q] = f)
      <4>. TAKE q \in Procs
      <4>. TAKE f \in Files
      <4>1. owner[f] = q <=> (q \in Locking /\ fd[q] = f) BY DEF TypeOK
      <4>. QED BY <3>1, <3>2, <4>1, CloseFrees
    <3>5. \A q \in Procs : fd'[q] = 0 <=> pc'[q] = "idle"
      BY <3>1, <3>2, CloseFrees DEF TypeOK
    <3>. QED BY <3>1, <3>3, <3>4, <3>5, CloseFrees DEF TypeOK
  <2>. QED BY <2>1, <2>2
<1>7. ASSUME NEW p \in Procs, ProbeUnlock(p) PROVE TypeOK'
  BY <1>7, CloseFrees DEF ProbeUnlock, ClosedProbe, Goto, TypeOK, Locking
<1>8. ASSUME NEW p \in Procs, Die(p) PROVE TypeOK'
  BY <1>8, CloseFrees DEF Die, PathAfterDeath, Goto, TypeOK, Locking
<1>9. CASE UNCHANGED vars
  BY <1>9 DEF vars, TypeOK, Locking
<1>. QED
  BY <1>1, <1>2, <1>3, <1>4, <1>5, <1>6, <1>7, <1>8, <1>9 DEF Next

\* Type correctness, for every set of processes and every bound on files.
THEOREM TypeCorrect == Spec => []TypeOK
<1>1. ASSUME Init PROVE TypeOK
  <2>1. Locking = {} BY <1>1 DEF Init, Locking
  <2>2. \A p \in Procs : \A f \in Files : owner[f] # p
    BY <1>1, FilesType, ConstantsAssumption DEF Init
  <2>3. /\ created \in 0 .. MaxFiles /\ path \in 0 .. created
        /\ fd \in [Procs -> 0 .. created]
    BY <1>1, FilesType, ConstantsAssumption DEF Init
  <2>. QED BY <1>1, <2>1, <2>2, <2>3 DEF Init, TypeOK
<1>. QED BY <1>1, TypeStep, ConstantsAssumption, PTL DEF Spec

-----------------------------------------------------------------------------

\* While no guard was stolen, a guard's file is at the path and nobody is left
\* who would remove it: the only process that could is the guard's own, later.
GuardSafe ==
  stolen \/ \A p \in Guards : fd[p] = path /\ \A q \in Procs : pc[q] # "dropping"

LEMMA GuardStep ==
  ASSUME ConstantsAssumption, TypeOK, GuardSafe, [Next]_vars
  PROVE  GuardSafe'
<1>. SUFFICES ASSUME ~stolen', NEW p \in Guards'
              PROVE  fd'[p] = path' /\ \A q \in Procs : pc'[q] # "dropping"
  BY DEF GuardSafe
<1>. USE FilesType
<1>1. ~stolen
  BY DEF Next, vars, OpenLock, TryLock, Unlock, RemoveFile, OpenProbe,
         ProbeLock, ProbeUnlock, Die
<1>2. \A g \in Guards : fd[g] = path /\ \A q \in Procs : pc[q] # "dropping"
  BY <1>1 DEF GuardSafe
<1>3. \A g, h \in Guards : g = h
  BY <1>2 DEF TypeOK, Guards, Locking
<1>4. ASSUME NEW q \in Procs, OpenLock(q)
      PROVE  fd'[p] = path' /\ \A r \in Procs : pc'[r] # "dropping"
  <2>1. p \in Guards /\ p # q BY <1>4 DEF OpenLock, Goto, Guards, TypeOK
  <2>2. path # 0 BY <1>2, <2>1 DEF Guards, TypeOK
  <2>. QED BY <1>2, <1>4, <2>1, <2>2 DEF OpenLock, Goto, Guards, TypeOK
<1>5. ASSUME NEW q \in Procs, TryLock(q)
      PROVE  fd'[p] = path' /\ \A r \in Procs : pc'[r] # "dropping"
  <2>1. CASE Free(fd[q])
    <3>1. ~Steals(q) BY <1>5, <2>1 DEF TryLock
    <3>2. fd[q] = path /\ \A r \in Procs : pc[r] # "dropping"
      BY <3>1 DEF Steals
    <3>3. p = q \/ p \in Guards BY <1>5, <2>1 DEF TryLock, Goto, Guards, TypeOK
    <3>. QED BY <1>2, <1>5, <2>1, <3>2, <3>3 DEF TryLock, Goto, Guards, TypeOK
  <2>2. CASE ~Free(fd[q])
    <3>1. p \in Guards /\ p # q
      BY <1>5, <2>2 DEF TryLock, Goto, Guards, TypeOK
    <3>. QED
      BY <1>2, <1>5, <2>2, <3>1, CloseFrees
         DEF TryLock, PathAfterClose, Goto, Guards, TypeOK
  <2>. QED BY <2>1, <2>2
<1>6. ASSUME NEW q \in Procs, Unlock(q) PROVE FALSE
  <2>1. p \in Guards /\ p # q /\ q \in Guards
    BY <1>6 DEF Unlock, Goto, Guards, TypeOK
  <2>. QED BY <1>3, <2>1
<1>7. ASSUME NEW q \in Procs, RemoveFile(q) PROVE FALSE
  <2>1. p \in Guards BY <1>7 DEF RemoveFile, Goto, Guards, TypeOK
  <2>. QED BY <1>2, <1>7, <2>1 DEF RemoveFile
<1>8. ASSUME NEW q \in Procs,
             OpenProbe(q) \/ ProbeLock(q) \/ ProbeUnlock(q) \/ Die(q)
      PROVE  fd'[p] = path' /\ \A r \in Procs : pc'[r] # "dropping"
  <2>1. p \in Guards /\ p # q /\ path' = path
    BY <1>8 DEF OpenProbe, ProbeLock, ProbeUnlock, Die, PathAfterDeath, Goto,
                Guards, TypeOK
  <2>2. fd'[p] = fd[p]
    BY <1>8, <2>1, CloseFrees
       DEF OpenProbe, ProbeLock, ProbeUnlock, ClosedProbe, Die, Guards, TypeOK
  <2>3. \A r \in Procs : pc'[r] = "dropping" => pc[r] = "dropping"
    BY <1>8 DEF OpenProbe, ProbeLock, ProbeUnlock, Die, Goto, TypeOK
  <2>. QED BY <1>2, <2>1, <2>2, <2>3
<1>9. CASE UNCHANGED vars
  BY <1>2, <1>9 DEF vars, Guards
<1>. QED BY <1>4, <1>5, <1>6, <1>7, <1>8, <1>9 DEF Next

LEMMA GuardInvariant == Spec => [](TypeOK /\ GuardSafe)
<1>1. ASSUME Init PROVE GuardSafe BY <1>1 DEF Init, GuardSafe, Guards
<1>. QED BY <1>1, TypeCorrect, GuardStep, ConstantsAssumption, PTL DEF Spec

\* Two guards never exist at once unless one was granted beside a drop, however
\* many processes acquire, probe and die.
THEOREM ExclusionHolds == Spec => []ExclusiveUnlessStolen
<1>1. ASSUME TypeOK, GuardSafe PROVE ExclusiveUnlessStolen
  BY <1>1, FilesType, ConstantsAssumption
     DEF GuardSafe, ExclusiveUnlessStolen, OneGuard, TypeOK, Guards, Locking
<1>. QED BY <1>1, GuardInvariant, PTL

\* The file of a guard stays at the path, where probes and acquires look,
\* unless a guard was granted beside a drop.
THEOREM GuardStaysVisible == Spec => []GuardVisible
<1>1. ASSUME GuardSafe PROVE GuardVisible
  BY <1>1 DEF GuardSafe, GuardVisible
<1>. QED BY <1>1, GuardInvariant, PTL
=============================================================================
