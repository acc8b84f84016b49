--------------------------- MODULE MigrationsProofs ---------------------------
(* Migrations, for any number of processes and migrations: the composition    *)
(* uses the lock as LockGuard does, so its exclusion carries over, and with it *)
(* the schema's version stays true.                                           *)
EXTENDS Migrations, LockGuardProofs

\* The composed system takes only the lock's own steps.
LEMMA StepIsLockStep ==
  ASSUME [SchemaNext]_<<vars, schema>> PROVE [Next]_vars
<1>1. CASE UNCHANGED <<vars, schema>> BY <1>1
<1>2. ASSUME NEW p \in Procs, Lock(p) PROVE Next
  BY <1>2 DEF Lock, Next
<1>3. ASSUME NEW p \in Procs, DieWorking(p) PROVE [Next]_vars
  BY <1>3 DEF DieWorking, Next
<1>4. ASSUME NEW p \in Procs, NEW kind \in Kinds, Begin(p, kind)
      PROVE  UNCHANGED vars
  BY <1>4 DEF Begin
<1>5. ASSUME NEW p \in Procs, Apply(p) \/ Revert(p) \/ End(p)
      PROVE  UNCHANGED vars
  BY <1>5 DEF Apply, Revert, End
<1> QED BY <1>1, <1>2, <1>3, <1>4, <1>5 DEF SchemaNext

\* The composition implements the lock on its own.
THEOREM MigrationsUseTheLock == SchemaSpec => Spec
<1>1. SchemaInit => Init BY DEF SchemaInit
<1>2. [SchemaNext]_<<vars, schema>> => [Next]_vars BY StepIsLockStep
<1> QED BY <1>1, <1>2, PTL DEF SchemaSpec, Spec

\* A stolen guard is remembered, and a step leaves the other processes alone.
LEMMA LockSteps ==
  ASSUME TypeOK, NEW p \in Procs, Lock(p) \/ DieWorking(p)
  PROVE  /\ stolen => stolen'
         /\ \A q \in Procs \ {p} : pc'[q] = pc[q]
<1>t. stolen \in BOOLEAN /\ pc \in [Procs -> {"idle", "opened", "holding",
                                     "dropping", "probing", "probed"}]
  BY DEF TypeOK
<1>1. CASE Lock(p)
  BY <1>1, <1>t DEF Lock, OpenLock, TryLock, Unlock, RemoveFile, OpenProbe,
                    ProbeLock, ProbeUnlock, Goto
<1>2. CASE DieWorking(p)
  BY <1>2, <1>t DEF DieWorking, Die, Goto, vars
<1> QED BY <1>1, <1>2

-----------------------------------------------------------------------------
(* Types.                                                                  *)

\* What the type invariant says of a job that p takes up.
JobOK(p, j) ==
  \/ j = NoJob
  \/ /\ j \in [kind : Kinds, next : Nat]
     /\ pc[p] = IF j.kind \in Guarded THEN "holding" ELSE "idle"
     /\ j.kind = "down" \/ j.next > 0

\* The type invariant, job by job.
JobsOK ==
  /\ version \in Nat /\ present \in SUBSET Versions
  /\ job \in [Procs -> Jobs] /\ raced \in BOOLEAN /\ left \in BOOLEAN
  /\ \A p \in Procs : JobOK(p, job[p])

LEMMA JobTypes == SchemaTypeOK <=> JobsOK
<1>1. ASSUME NEW p \in Procs, NEW S, job[p] \in {NoJob} \cup S,
             NEW good
      PROVE  (Working(p) => good) <=> (job[p] = NoJob \/ (job[p] \in S /\ good))
  BY <1>1 DEF Working
<1>2. ASSUME job \in [Procs -> Jobs], NEW p \in Procs
      PROVE  JobOK(p, job[p]) <=>
               (Working(p) =>
                  /\ pc[p] = IF job[p].kind \in Guarded THEN "holding" ELSE "idle"
                  /\ job[p].kind = "down" \/ job[p].next > 0)
  <2> DEFINE S == [kind : Kinds, next : Nat]
             good == /\ pc[p] = IF job[p].kind \in Guarded THEN "holding"
                                ELSE "idle"
                     /\ job[p].kind = "down" \/ job[p].next > 0
  <2>1. job[p] \in {NoJob} \cup S BY <1>2 DEF Jobs
  <2>2. JobOK(p, job[p]) <=> (job[p] = NoJob \/ (job[p] \in S /\ good))
    BY DEF JobOK
  <2> HIDE DEF S, good
  <2>3. (Working(p) => good) <=> JobOK(p, job[p]) BY <2>1, <2>2, <1>1
  <2> QED BY <2>3 DEF good
<1> QED BY <1>2 DEF SchemaTypeOK, JobsOK

\* A step that changes the job of p only.
LEMMA JobStep ==
  ASSUME SchemaTypeOK, NEW p \in Procs, NEW j,
         job' = [job EXCEPT ![p] = j],
         \A q \in Procs \ {p} : pc'[q] = pc[q],
         j = NoJob \/ (JobOK(p, j) /\ pc'[p] = pc[p]),
         version' \in Nat, present' \in SUBSET Versions,
         raced' \in BOOLEAN, left' \in BOOLEAN
  PROVE  SchemaTypeOK'
<1>1. j \in Jobs BY DEF JobOK, Jobs
<1>2. job \in [Procs -> Jobs] /\ \A q \in Procs : JobOK(q, job[q])
  BY JobTypes DEF JobsOK
<1>3. job' \in [Procs -> Jobs] BY <1>1, <1>2
<1>4. job'[p] = j /\ \A q \in Procs \ {p} : job'[q] = job[q] BY <1>2
<1>5. ASSUME NEW q \in Procs PROVE JobOK(q, job[q])'
  <2>1. CASE q = p
    <3>1. (JobOK(p, j) /\ pc'[p] = pc[p]) \/ j = NoJob OBVIOUS
    <3>2. job'[q] = j BY <1>4, <2>1
    <3>3. CASE j = NoJob BY <3>2, <3>3 DEF JobOK
    <3>4. CASE JobOK(p, j) /\ pc'[p] = pc[p] BY <2>1, <3>2, <3>4 DEF JobOK
    <3> QED BY <3>1, <3>3, <3>4
  <2>2. CASE q # p
    <3>1. job'[q] = job[q] /\ pc'[q] = pc[q] /\ JobOK(q, job[q])
      BY <1>2, <1>4, <2>2
    <3> QED BY <3>1 DEF JobOK
  <2> QED BY <2>1, <2>2
<1>6. JobsOK' BY <1>3, <1>5 DEF JobsOK
<1> QED BY <1>6, JobTypes, PTL

LEMMA SchemaTypeStep ==
  ASSUME MigrationsAssumption, TypeOK, SchemaTypeOK,
         [SchemaNext]_<<vars, schema>>
  PROVE  SchemaTypeOK'
<1> USE DEF SetJob, Finish
<1>n. NumMigrations \in Nat BY DEF MigrationsAssumption
<1>t. /\ version \in Nat /\ present \in SUBSET Versions
      /\ job \in [Procs -> Jobs] /\ raced \in BOOLEAN /\ left \in BOOLEAN
      /\ \A p \in Procs : JobOK(p, job[p])
  BY JobTypes DEF JobsOK
<1>1. CASE UNCHANGED <<vars, schema>>
  BY <1>1 DEF vars, schema, SchemaTypeOK, Working
<1>2. ASSUME NEW p \in Procs, Lock(p) PROVE SchemaTypeOK'
  <2>1. UNCHANGED schema /\ ~Working(p) BY <1>2 DEF Lock
  <2>2. \A q \in Procs \ {p} : pc'[q] = pc[q] BY <1>2, LockSteps
  <2> QED BY <2>1, <2>2 DEF schema, SchemaTypeOK, Working
<1>3. ASSUME NEW p \in Procs, DieWorking(p) PROVE SchemaTypeOK'
  <2>1. job' = [job EXCEPT ![p] = NoJob] BY <1>3 DEF DieWorking
  <2>2. \A q \in Procs \ {p} : pc'[q] = pc[q] BY <1>3, LockSteps
  <2>3. UNCHANGED <<version, present, raced, left>> BY <1>3 DEF DieWorking
  <2>4. /\ version' \in Nat /\ present' \in SUBSET Versions
        /\ raced' \in BOOLEAN /\ left' \in BOOLEAN
    BY <1>t, <2>3
  <2> QED BY <2>1, <2>2, <2>4, JobStep
<1>4. ASSUME NEW p \in Procs, NEW kind \in Kinds, Begin(p, kind)
      PROVE  SchemaTypeOK'
  <2> DEFINE n == IF kind = "down" THEN version ELSE Following(version)
             j == [kind |-> kind, next |-> n]
  <2>1. job' = [job EXCEPT ![p] = j] BY <1>4 DEF Begin
  <2>2. pc' = pc /\ UNCHANGED <<version, present, raced, left>>
    BY <1>4 DEF Begin, vars
  <2>3. n \in Nat /\ (kind = "down" \/ n > 0) BY <1>t DEF Following
  <2>4. JobOK(p, j)
    <3>1. pc[p] = IF kind \in Guarded THEN "holding" ELSE "idle"
      BY <1>4 DEF Begin
    <3>2. /\ j \in [kind : Kinds, next : Nat] /\ j.kind = kind /\ j.next = n
      BY <2>3
    <3> HIDE DEF n, j
    <3> QED BY <2>3, <3>1, <3>2 DEF JobOK
  <2> HIDE DEF j
  <2> QED BY <1>t, <2>1, <2>2, <2>4, JobStep
<1>5. ASSUME NEW p \in Procs, Apply(p) PROVE SchemaTypeOK'
  <2> DEFINE m == job[p].next
             again == [job[p] EXCEPT !.next = m + 1]
  <2>1. job[p].kind \in Kinds \ {"down"} /\ m <= NumMigrations
    BY <1>5 DEF Apply
  <2>0. job[p] # NoJob BY <2>1 DEF NoJob, Kinds, Guarded
  <2>2. job[p] \in [kind : Kinds, next : Nat] /\ m \in Nat /\ m > 0
    <3>1. JobOK(p, job[p]) BY <1>t
    <3>2. /\ job[p] \in [kind : Kinds, next : Nat]
          /\ job[p].kind = "down" \/ m > 0
      BY <2>0, <3>1 DEF JobOK
    <3> QED BY <2>1, <3>2
  <2>3. pc' = pc /\ left' = left BY <1>5 DEF Apply, vars
  <2>4. JobOK(p, again)
    <3>1. /\ again \in [kind : Kinds, next : Nat]
          /\ again.kind = job[p].kind /\ again.next > 0
      BY <2>2
    <3>2. pc[p] = IF job[p].kind \in Guarded THEN "holding" ELSE "idle"
      <4>1. JobOK(p, job[p]) BY <1>t
      <4> QED BY <2>0, <4>1 DEF JobOK
    <3> HIDE DEF again
    <3> QED BY <3>1, <3>2 DEF JobOK
  <2>5. /\ version' \in {version, m} /\ present' \in {present, present \cup {m}}
        /\ raced' \in BOOLEAN
    BY <1>5, <1>t DEF Apply, Races
  <2>6. version' \in Nat /\ present' \in SUBSET Versions
    BY <1>n, <1>t, <2>1, <2>2, <2>5 DEF Versions
  <2>7. job' = [job EXCEPT ![p] = NoJob] \/ job' = [job EXCEPT ![p] = again]
    BY <1>5 DEF Apply
  <2> HIDE DEF m, again
  <2> QED BY <1>t, <2>3, <2>4, <2>5, <2>6, <2>7, JobStep
<1>6. ASSUME NEW p \in Procs, Revert(p) PROVE SchemaTypeOK'
  <2> DEFINE m == job[p].next
  <2>1. job' = [job EXCEPT ![p] = NoJob] /\ pc' = pc
    BY <1>6 DEF Revert, vars
  <2>2. /\ version' \in {version, m - 1}
        /\ present' \subseteq present /\ raced' \in BOOLEAN /\ left' \in BOOLEAN
    BY <1>6, <1>t DEF Revert, RevertedTo, Races
  <2>3. m \in Nat /\ m > 0
    <3>1. JobOK(p, job[p]) /\ job[p] # NoJob /\ m > 0
      BY <1>6, <1>t DEF Revert, NoJob
    <3> QED BY <3>1 DEF JobOK
  <2>4. version' \in Nat BY <1>t, <2>2, <2>3
  <2> QED BY <1>t, <2>1, <2>2, <2>4, JobStep
<1>7. ASSUME NEW p \in Procs, End(p) PROVE SchemaTypeOK'
  <2>1. job' = [job EXCEPT ![p] = NoJob] /\ pc' = pc
        /\ UNCHANGED <<version, present, raced, left>>
    BY <1>7 DEF End, vars
  <2> QED BY <1>t, <2>1, JobStep
<1> QED BY <1>1, <1>2, <1>3, <1>4, <1>5, <1>6, <1>7 DEF SchemaNext

LEMMA SchemaTypes == SchemaSpec => [](TypeOK /\ SchemaTypeOK)
<1>1. SchemaInit => SchemaTypeOK
  <2> SUFFICES ASSUME SchemaInit PROVE SchemaTypeOK OBVIOUS
  <2>1. NumMigrations \in Nat
    BY MigrationsAssumption DEF MigrationsAssumption
  <2>2. version \in Nat /\ present \in SUBSET Versions
    BY <2>1 DEF SchemaInit, Versions
  <2>3. job \in [Procs -> Jobs] /\ \A p \in Procs : ~Working(p)
    BY DEF SchemaInit, Jobs, Working
  <2> QED BY <2>2, <2>3 DEF SchemaInit, SchemaTypeOK
<1>2. TypeOK /\ SchemaTypeOK /\ [SchemaNext]_<<vars, schema>> => SchemaTypeOK'
  BY SchemaTypeStep, MigrationsAssumption
<1>3. SchemaSpec => []TypeOK BY MigrationsUseTheLock, TypeCorrect, PTL
<1> QED BY <1>1, <1>2, <1>3, PTL DEF SchemaSpec

\* Versions, tables and the migrators' jobs stay within their types, however the lock
\* is taken, stolen or missed: in particular no migrator leaves the known versions.
THEOREM SchemaTypeCorrect == SchemaSpec => []SchemaTypeOK
BY SchemaTypes, PTL

-----------------------------------------------------------------------------
(* The version.                                                            *)

\* Unless the database was upset, its tables hold the migrations up to the
\* version, and what a migrator is about to run is what it read off it.
SchemaSound ==
  Upset \/ /\ present = 1 .. version
           /\ \A p \in Procs : Working(p) =>
                job[p].next = IF job[p].kind = "down" THEN version
                              ELSE version + 1

\* A migrator that runs a transaction without racing works alone: another
\* guarded one would hold the same guard.
LEMMA AloneUnlessRacing ==
  ASSUME SchemaTypeOK, ExclusiveUnlessStolen, ~stolen,
         NEW p \in Procs, Working(p), ~Races(p), NEW q \in Procs, Working(q)
  PROVE  q = p
<1>1. job[p].kind \in Kinds /\ job[q].kind \in Kinds
  BY DEF SchemaTypeOK, Jobs, Working
<1>2. ASSUME q # p PROVE FALSE
  <2>1. job[p].kind \in Guarded /\ job[q].kind \in Guarded
    BY <1>1, <1>2 DEF Races, Kinds
  <2>2. pc[p] = "holding" /\ pc[q] = "holding" BY <2>1 DEF SchemaTypeOK
  <2> QED BY <1>2, <2>2 DEF ExclusiveUnlessStolen, OneGuard, Guards
<1> QED BY <1>2

LEMMA UpsetStays ==
  ASSUME TypeOK, SchemaTypeOK, [SchemaNext]_<<vars, schema>>, Upset
  PROVE  Upset'
<1> USE DEF Upset
<1>1. CASE UNCHANGED <<vars, schema>> BY <1>1 DEF vars, schema
<1>2. ASSUME NEW p \in Procs, Lock(p) \/ DieWorking(p) PROVE Upset'
  <2>1. raced' = raced /\ left' = left
    BY <1>2 DEF Lock, DieWorking, schema
  <2> QED BY <1>2, <2>1, LockSteps
<1>t. raced \in BOOLEAN /\ left \in BOOLEAN BY DEF SchemaTypeOK
<1>3. ASSUME NEW p \in Procs, NEW kind \in Kinds, Begin(p, kind)
      PROVE  Upset'
  BY <1>3 DEF Begin, vars
<1>4. ASSUME NEW p \in Procs, Apply(p) \/ Revert(p) \/ End(p)
      PROVE  Upset'
  BY <1>4, <1>t DEF Apply, Revert, End, vars
<1> QED BY <1>1, <1>2, <1>3, <1>4 DEF SchemaNext

LEMMA SchemaStep ==
  ASSUME MigrationsAssumption, TypeOK, SchemaTypeOK, ExclusiveUnlessStolen,
         SchemaSound, [SchemaNext]_<<vars, schema>>
  PROVE  SchemaSound'
<1> SUFFICES ASSUME ~Upset'
             PROVE  /\ present' = 1 .. version'
                    /\ \A p \in Procs : Working(p)' =>
                         job'[p].next = IF job'[p].kind = "down" THEN version'
                                        ELSE version' + 1
  BY DEF SchemaSound
<1>u. ~Upset BY UpsetStays
<1>s. /\ present = 1 .. version
      /\ \A p \in Procs : Working(p) =>
           job[p].next = IF job[p].kind = "down" THEN version ELSE version + 1
  BY <1>u DEF SchemaSound
<1>t. /\ version \in Nat /\ job \in [Procs -> Jobs]
      /\ NumMigrations \in Nat
  BY DEF SchemaTypeOK, MigrationsAssumption
<1> USE DEF Working, SetJob, Finish
<1>n. ~(NoJob # NoJob) OBVIOUS
<1>1. CASE UNCHANGED <<vars, schema>> BY <1>1, <1>s DEF schema
<1>2. ASSUME NEW p \in Procs, Lock(p)
      PROVE  UNCHANGED schema
  BY <1>2 DEF Lock
<1>3. ASSUME NEW p \in Procs, DieWorking(p) \/ End(p)
      PROVE  /\ UNCHANGED <<version, present>>
             /\ job' = [job EXCEPT ![p] = NoJob]
  BY <1>3 DEF DieWorking, End
<1>4. ASSUME NEW p \in Procs, NEW kind \in Kinds, Begin(p, kind)
      PROVE  /\ UNCHANGED <<version, present>>
             /\ job' = [job EXCEPT ![p] =
                  [kind |-> kind, next |-> IF kind = "down" THEN version
                                           ELSE version + 1]]
  BY <1>4 DEF Begin, Following
<1>5. ASSUME NEW p \in Procs, Apply(p)
      PROVE  /\ present' = 1 .. version'
             /\ \A q \in Procs : Working(q)' =>
                  job'[q].next = IF job'[q].kind = "down" THEN version'
                                 ELSE version' + 1
  <2> DEFINE m == job[p].next
  <2>1. Working(p) /\ m = version + 1
    BY <1>5, <1>s DEF Apply, Kinds, NoJob, Guarded
  <2>2. CASE ~CanApply(m)
    <3>1. UNCHANGED <<version, present>> /\ job' = [job EXCEPT ![p] = NoJob]
      BY <1>5, <2>2 DEF Apply
    <3> QED BY <1>s, <1>t, <3>1
  <2>3. CASE CanApply(m)
    <3>1. /\ version' = m /\ present' = present \cup {m}
          /\ ~Races(p)
          /\ \/ job' = [job EXCEPT ![p] = NoJob]
             \/ job' = [job EXCEPT ![p] = [job[p] EXCEPT !.next = m + 1]]
      BY <1>5, <2>3 DEF Apply, Upset
    <3>2. present' = 1 .. version' BY <1>s, <1>t, <2>1, <3>1
    <3>3. \A q \in Procs \ {p} : ~Working(q)
      BY <1>u, <2>1, <3>1, AloneUnlessRacing DEF Upset
    <3>4. job[p].kind # "down" /\ job[p] \in Jobs BY <1>5, <1>t DEF Apply
    <3>5. /\ [job[p] EXCEPT !.next = m + 1].next = m + 1
          /\ [job[p] EXCEPT !.next = m + 1].kind = job[p].kind
      BY <3>4 DEF Jobs
    <3> HIDE DEF m
    <3> QED BY <1>t, <3>1, <3>2, <3>3, <3>4, <3>5
  <2> QED BY <2>2, <2>3
<1>6. ASSUME NEW p \in Procs, Revert(p)
      PROVE  /\ present' = 1 .. version'
             /\ \A q \in Procs : Working(q)' =>
                  job'[q].next = IF job'[q].kind = "down" THEN version'
                                 ELSE version' + 1
  <2> DEFINE m == job[p].next
  <2>1. Working(p) /\ m = version /\ m > 0
    BY <1>6, <1>s DEF Revert, NoJob
  <2>2. m \in present BY <1>s, <1>t, <2>1
  <2>3. /\ version' = m - 1 /\ ~Races(p)
        /\ present' = IF m \in Kept THEN present ELSE present \ {m}
        /\ m \notin Kept /\ job' = [job EXCEPT ![p] = NoJob]
    BY <1>6, <2>2 DEF Revert, RevertedTo, Upset
  <2>4. present' = 1 .. version' BY <1>s, <1>t, <2>1, <2>3
  <2>5. \A q \in Procs \ {p} : ~Working(q)
    BY <1>u, <2>1, <2>3, AloneUnlessRacing DEF Upset
  <2> HIDE DEF m
  <2> QED BY <1>t, <2>3, <2>4, <2>5
<1>7. ASSUME UNCHANGED <<version, present>>, NEW p \in Procs, NEW j,
             job' = [job EXCEPT ![p] = j],
             j = NoJob \/ j.next = IF j.kind = "down" THEN version
                                  ELSE version + 1
      PROVE  /\ present' = 1 .. version'
             /\ \A q \in Procs : Working(q)' =>
                  job'[q].next = IF job'[q].kind = "down" THEN version'
                                 ELSE version' + 1
  BY <1>7, <1>s, <1>t
<1>8. ASSUME NEW p \in Procs, NEW kind \in Kinds, Begin(p, kind)
      PROVE  /\ present' = 1 .. version'
             /\ \A q \in Procs : Working(q)' =>
                  job'[q].next = IF job'[q].kind = "down" THEN version'
                                 ELSE version' + 1
  <2> DEFINE j == [kind |-> kind, next |-> IF kind = "down" THEN version
                                           ELSE version + 1]
  <2>1. j.next = IF j.kind = "down" THEN version ELSE version + 1 OBVIOUS
  <2>2. job' = [job EXCEPT ![p] = j] /\ UNCHANGED <<version, present>>
    BY <1>4, <1>8
  <2> HIDE DEF j
  <2> QED BY <1>7, <2>1, <2>2
<1>9. ASSUME NEW p \in Procs, DieWorking(p) \/ End(p)
      PROVE  /\ present' = 1 .. version'
             /\ \A q \in Procs : Working(q)' =>
                  job'[q].next = IF job'[q].kind = "down" THEN version'
                                 ELSE version' + 1
  BY <1>3, <1>7, <1>9
<1>10. ASSUME UNCHANGED schema
       PROVE  /\ present' = 1 .. version'
              /\ \A q \in Procs : Working(q)' =>
                   job'[q].next = IF job'[q].kind = "down" THEN version'
                                  ELSE version' + 1
  BY <1>10, <1>s DEF schema
<1> QED BY <1>1, <1>2, <1>5, <1>6, <1>8, <1>9, <1>10 DEF SchemaNext

LEMMA SchemaInvariant == SchemaSpec => [](SchemaTypeOK /\ SchemaSound)
<1>1. SchemaInit => SchemaSound
  BY DEF SchemaInit, SchemaSound, Working
<1>2. MigrationsAssumption BY MigrationsAssumption
<1>3. SchemaSpec => []ExclusiveUnlessStolen
  BY MigrationsUseTheLock, ExclusionHolds, PTL
<1> QED BY <1>1, <1>2, <1>3, SchemaTypes, SchemaStep, PTL DEF SchemaSpec

\* However many migrators start, die and take or miss the lock, the version
\* names exactly the migrations that the tables have seen, unless a guard was
\* stolen, a migrator without guard ran beside another, or a down kept columns.
THEOREM VersionStaysTrue == SchemaSpec => []VersionTellsSchema
<1>1. SchemaSound => VersionTellsSchema
  BY DEF SchemaSound, VersionTellsSchema
<1> QED BY <1>1, SchemaInvariant, PTL

\* Under the same proviso no migrator ever meets a migration it cannot run.
THEOREM MigrationsNeverStick == SchemaSpec => []MigrationsApply
<1>1. SchemaTypeOK /\ SchemaSound => MigrationsApply
  <2> SUFFICES ASSUME SchemaTypeOK, SchemaSound, ~Upset, NEW p \in Procs,
                      job[p].kind \in Kinds
               PROVE  /\ job[p].kind # "down" => job[p].next \notin present
                      /\ (job[p].kind = "down" /\ job[p].next > 0) =>
                           job[p].next \in present
    BY DEF MigrationsApply, Kinds, Guarded
  <2>1. Working(p) BY DEF Working, NoJob, Kinds, Guarded
  <2>2. version \in Nat /\ present = 1 .. version
    BY DEF SchemaTypeOK, SchemaSound
  <2>3. job[p].next = IF job[p].kind = "down" THEN version ELSE version + 1
    BY <2>1 DEF SchemaSound
  <2> QED BY <2>2, <2>3
<1> QED BY <1>1, SchemaInvariant, PTL
=============================================================================
