--------------------------- MODULE WaveLoopProofs ---------------------------
(* Safety of WaveLoop for every number of tasks, slots, waves and crashes: no *)
(* claim outlives a run, prd_complete is honest, no commit is dropped before  *)
(* the end of a run, terminal statuses survive the loop's sweeps, retries     *)
(* end, dependents see the work they depend on, and done tasks of a wave have *)
(* theirs on the loop branch.                                                 *)
EXTENDS WaveLoopTypes

-----------------------------------------------------------------------------
(* Claims.                                                                 *)

\* Where an in_progress task is accounted for: in the tracker, with a slot
\* whose output is still to be processed, or nowhere, after a crash.
ClaimTracked(t) ==
  \/ pc = "down" /\ report = NoReport
  \/ pc \notin {"down", "stale", "cleanup"} /\ t \in pending
  \/ /\ pc = "run"
     /\ \E s \in Slots : slot[s].task = t /\ slot[s].state \in {"running", "finished"}
  \/ /\ pc = "process"
     /\ \E s \in Slots : slot[s].task = t /\ slot[s].state = "finished" /\ s >= cursor

ClaimsTracked ==
  \A t \in Tasks : status[t] = "in_progress" => ClaimTracked(t)

\* Only claiming a slate puts a task in_progress.
LEMMA OnlyClaimsClaim ==
  ASSUME ConstantsAssumption, TypeInv, Next, ~ClaimSlate,
         NEW t \in Tasks, status'[t] = "in_progress"
  PROVE  status[t] = "in_progress"
<1>a. status \in [Tasks -> Statuses] BY DEF TypeInv, TypeOK, DbTypeOK
<1>1. \A S, from : /\ Reopen(status, S, from)[t] \in {"todo", status[t]}
                   /\ Reclaim(status, S)[t] \in {"todo", status[t]}
                   /\ SetDone(status, S)[t] \in {"done", status[t]}
  BY DEF Reopen, Reclaim, SetDone
<1>2. CASE StartLoop
  <2>1. status'[t] \in {"done", "todo", status[t]}
    BY <1>2 DEF StartLoop, SetDone, Reclaim, Reopen
  <2> QED BY <2>1
<1>3. CASE BeginIteration BY <1>1, <1>3 DEF BeginIteration
<1>4. CASE NoEligibleTasks
  <2>1. \/ status' = status
        \/ status' = Reclaim(SetDone(status, Synced(status)), Tasks)
    BY <1>4 DEF NoEligibleTasks
  <2>2. Reclaim(SetDone(status, Synced(status)), Tasks)[t]
          \in {"done", "todo", status[t]}
    BY DEF Reclaim, Reopen, SetDone
  <2> QED BY <2>1, <2>2
<1>q. CASE QuotaEmpty BY <1>1, <1>q DEF QuotaEmpty
<1>5. CASE ReactToRateLimit BY <1>1, <1>5 DEF ReactToRateLimit
<1>6. CASE ReactToTransient BY <1>1, <1>6 DEF ReactToTransient
<1>7. CASE TrackFailures BY <1>7, <1>a DEF TrackFailures
<1>8. CASE PostMergeReconcile BY <1>1, <1>8 DEF PostMergeReconcile
<1>9. CASE Settle
  <2>1. \/ status' = status
        \/ \E S, from : status' = Reopen(status, S, from)
    BY <1>9 DEF Settle, ReopenedByMergeFailure
  <2> QED BY <1>1, <2>1
<1>10. CASE ExitReclaim BY <1>1, <1>10 DEF ExitReclaim
<1>11. ASSUME NEW u \in Tasks, OperatorCommand(u) PROVE status[t] = "in_progress"
  BY <1>11, <1>a DEF OperatorCommand, OperatorTargets
<1>12. ASSUME NEW s \in Slots, ProcessSlot(s) PROVE status[t] = "in_progress"
  <2> DEFINE v == slot[s].task
             r == slot[s].result
             u == IF r.peer = NoTask THEN v ELSE r.peer
  <2>1. v \in Tasks /\ u \in Tasks
    <3>1. slot[s].state # "idle" BY <1>12 DEF ProcessSlot, Finished
    <3> QED BY <3>1, ProcessedSlotTypes
  <2>2. PICK st \in OverflowApplied(v, r, status) :
          status' = IF TagTargets(r.tag, u, st) = {} THEN st
                    ELSE [st EXCEPT ![u] = CHOOSE x \in TagTargets(r.tag, u, st) :
                                             TRUE]
    BY <1>12 DEF ProcessSlot
  <2>3. TagTargets(r.tag, u, st) \subseteq Statuses \ {"in_progress"}
    BY TagTargetsType
  <2>4. /\ st \in [Tasks -> Statuses]
        /\ st[t] = "in_progress" => status[t] = "in_progress"
    BY <1>a, <2>1, OverflowType
  <2>5. st[t] = "in_progress"
    <3> DEFINE targets == TagTargets(r.tag, u, st)
    <3>1. CASE targets = {} BY <2>2, <3>1
    <3>2. CASE targets # {}
      <4>1. (CHOOSE x \in targets : TRUE) # "in_progress" BY <2>3, <3>2
      <4> QED BY <2>2, <2>4, <3>2, <4>1
    <3> QED BY <3>1, <3>2
  <2> QED BY <2>4, <2>5
<1>13. ASSUME NEW s \in Slots, AgentFinishes(s) \/ SkipSlot(s) \/ MergeSlot(s)
       PROVE  status' = status
  BY <1>13 DEF AgentFinishes, SkipSlot, MergeSlot, db
<1>14. CASE \/ ReconcileStaleSlots \/ LimitReached \/ DeadlineReached
            \/ BeginWave \/ QuotaGateStops \/ SelectSlate \/ EphemeralDeadlock
            \/ JoinWave
  BY <1>14 DEF ReconcileStaleSlots, LimitReached, DeadlineReached, BeginWave,
               QuotaGateStops, SelectSlate, EphemeralDeadlock, JoinWave, db
<1>15. CASE \/ ProcessingDone \/ FastForward \/ EndWave \/ ExitClassify
            \/ ExitCleanup \/ Kill \/ DropStopFile \/ Signal
  BY <1>15 DEF ProcessingDone, FastForward, EndWave, ExitClassify, ExitCleanup,
               Kill, DropStopFile, Signal, db
<1> QED
  BY <1>q, <1>2, <1>3, <1>4, <1>5, <1>6, <1>7, <1>8, <1>9, <1>10, <1>11, <1>12,
     <1>13, <1>14, <1>15 DEF Next, Coordinator, Agents

LEMMA ClaimsStep ==
  ASSUME ConstantsAssumption, ~CodexWaves, TypeInv, ClaimsTracked, Next
  PROVE  ClaimsTracked'
<1> SUFFICES ASSUME NEW t \in Tasks, status'[t] = "in_progress"
             PROVE  ClaimTracked(t)'
  BY DEF ClaimsTracked
<1>a. slot \in [Slots -> SlotRecords] /\ status \in [Tasks -> Statuses]
      /\ cursor \in Nat /\ NumSlots \in Nat
  BY SlotsType DEF TypeInv, TypeOK, WaveTypeOK, DbTypeOK
<1>b. ~ClaimSlate => ClaimTracked(t)
  BY OnlyClaimsClaim DEF ClaimsTracked
<1>1. CASE StartLoop
  <2>1. status'[t] # "in_progress"
    BY <1>1, <1>a DEF StartLoop, SetDone, Reclaim, Reopen
  <2> QED BY <2>1
<1>2. CASE ReconcileStaleSlots
  <2>1. pc = "stale" BY <1>2 DEF ReconcileStaleSlots
  <2>2. ~ClaimSlate BY <2>1 DEF ClaimSlate
  <2> QED BY <2>1, <2>2, <1>b DEF ClaimTracked
<1>3. CASE \/ LimitReached \/ DeadlineReached \/ BeginIteration \/ BeginWave
           \/ QuotaGateStops \/ SelectSlate \/ EphemeralDeadlock
           \/ NoEligibleTasks \/ QuotaEmpty
  <2>1. /\ pc \in {"top", "preflight", "select"}
        /\ pc' \in {"classify", "preflight", "settle", "select", "claim"}
        /\ pending' = pending
    BY <1>3 DEF LimitReached, DeadlineReached, BeginIteration, BeginWave,
                QuotaGateStops, SelectSlate, EphemeralDeadlock,
                NoEligibleTasks, QuotaEmpty, Leave, Return, run
  <2>2. ~ClaimSlate BY <2>1 DEF ClaimSlate
  <2> QED BY <2>1, <2>2, <1>b DEF ClaimTracked
<1>4. CASE ClaimSlate
  <2>1. pc = "claim" /\ pc' = "run" /\ pending' = pending
    BY <1>4 DEF ClaimSlate, run
  <2>2. CASE status[t] = "in_progress"
    <3>1. t \in pending BY <2>1, <2>2 DEF ClaimsTracked, ClaimTracked
    <3> QED BY <2>1, <3>1 DEF ClaimTracked
  <2>3. CASE status[t] # "in_progress"
    <3>1. PICK s \in Selected : slot[s].task = t /\ status[slot[s].task] \in Open
      BY <1>4, <2>3 DEF ClaimSlate
    <3>2. s \in Slots BY DEF Selected
    <3>3. slot'[s] = [slot[s] EXCEPT !.state = "running"]
      BY <1>4, <3>1, <3>2 DEF ClaimSlate
    <3>4. slot'[s].task = t /\ slot'[s].state = "running"
      BY <1>a, <3>1, <3>2, <3>3 DEF SlotRecords
    <3> QED BY <2>1, <3>2, <3>4 DEF ClaimTracked
  <2> QED BY <2>2, <2>3
<1>5. ASSUME NEW s \in Slots, AgentFinishes(s) PROVE ClaimTracked(t)'
  <2>1. pc = "run" /\ pc' = "run" /\ pending' = pending
    BY <1>5 DEF AgentFinishes, run
  <2>2. PICK r : slot' = [slot EXCEPT ![s].state = "finished",
                                     ![s].result = r, ![s].live = r.outcome]
    BY <1>5 DEF AgentFinishes
  <2>3. \A e \in Slots : /\ slot'[e].task = slot[e].task
                         /\ \/ slot'[e].state = slot[e].state
                            \/ slot'[e].state = "finished"
    BY <1>a, <2>2 DEF SlotRecords
  <2>4. ~ClaimSlate BY <2>1 DEF ClaimSlate
  <2> QED BY <1>b, <2>1, <2>3, <2>4 DEF ClaimTracked
<1>6. CASE JoinWave
  <2>1. /\ pc = "run" /\ pc' = "process" /\ cursor' = 0
        /\ pending' = pending /\ slot' = slot
        /\ \A s \in Slots : slot[s].state # "running"
    BY <1>6 DEF JoinWave, Running, run
  <2>2. \A s \in Slots : s >= 0 BY DEF Slots
  <2>3. ~ClaimSlate BY <2>1 DEF ClaimSlate
  <2> QED BY <1>b, <2>1, <2>2, <2>3 DEF ClaimTracked
<1>7. ASSUME NEW s \in Slots, SkipSlot(s) PROVE ClaimTracked(t)'
  <2>1. /\ pc = "process" /\ pc' = "process" /\ cursor = s /\ cursor' = cursor + 1
        /\ pending' = pending /\ slot' = slot /\ slot[s].state # "finished"
    BY <1>7 DEF SkipSlot, Finished, run
  <2>2. ~ClaimSlate BY <2>1 DEF ClaimSlate
  <2>3. \A e \in Slots : e \in Nat /\ (e >= s => e = s \/ e >= s + 1)
    BY <1>a DEF Slots
  <2> QED BY <1>b, <2>1, <2>2, <2>3 DEF ClaimTracked
<1>8. ASSUME NEW s \in Slots, ProcessSlot(s) PROVE ClaimTracked(t)'
  <2> DEFINE v == slot[s].task
             r == slot[s].result
             u == IF r.peer = NoTask THEN v ELSE r.peer
  <2>1. /\ pc = "process" /\ pc' = "process" /\ cursor = s /\ cursor' = cursor + 1
        /\ slot[s].state = "finished"
    BY <1>8 DEF ProcessSlot, Finished
  <2>2. ~ClaimSlate BY <2>1 DEF ClaimSlate
  <2>3. v \in Tasks BY <2>1, ProcessedSlotTypes
  <2>4. PICK live : slot' = [slot EXCEPT ![s].state = "processed",
                                        ![s].live = live]
    BY <1>8 DEF ProcessSlot
  <2>5. \A e \in Slots : e # s => slot'[e] = slot[e] BY <1>a, <2>4
  <2>6. \A e \in Slots : e \in Nat /\ (e >= s => e = s \/ e >= s + 1)
    BY <1>a DEF Slots
  <2>7. PICK st \in OverflowApplied(v, r, status) :
          LET target == TagTargets(r.tag, u, st)
              closes == target = {"done"}
          IN /\ status' = IF target = {} THEN st
                          ELSE [st EXCEPT ![u] = CHOOSE x \in target : TRUE]
             /\ pending' = Tracked(v, u, closes)
    BY <1>8 DEF ProcessSlot
  <2> DEFINE target == TagTargets(r.tag, u, st)
  <2>8. CASE target = {"done"} /\ u = v
    <3>1. st \in [Tasks -> Statuses] BY <1>a, <2>3, <2>7, OverflowType
    <3>2. status'[v] = "done" BY <2>3, <2>7, <2>8, <3>1
    <3>3. t # v BY <3>2
    <3>4. pending' = pending \ {v} BY <2>7, <2>8 DEF Tracked
    <3> QED BY <1>b, <2>1, <2>2, <2>5, <2>6, <3>3, <3>4 DEF ClaimTracked
  <2>9. CASE ~(target = {"done"} /\ u = v)
    <3>1. pending' = pending \cup {v} BY <2>7, <2>9 DEF Tracked
    <3> QED BY <1>b, <2>1, <2>2, <2>5, <2>6, <3>1 DEF ClaimTracked
  <2> QED BY <2>8, <2>9
<1>9. CASE ProcessingDone
  <2>1. /\ pc = "process" /\ pc' = "account" /\ cursor = NumSlots
        /\ pending' = pending
    BY <1>9 DEF ProcessingDone, run
  <2>2. ~ClaimSlate BY <2>1 DEF ClaimSlate
  <2>3. \A e \in Slots : ~(e >= NumSlots) BY <1>a DEF Slots
  <2> QED BY <1>b, <2>1, <2>2, <2>3 DEF ClaimTracked
<1>10. CASE \/ ReactToRateLimit \/ ReactToTransient \/ TrackFailures
            \/ FastForward \/ EndWave \/ ExitClassify
  <2>1. /\ pc \in {"account", "transient", "track", "merge", "terminal", "classify"}
        /\ pc' \in {"transient", "track", "settle", "merge", "reconcile", "reclaim"}
        /\ pending' = pending
    BY <1>10 DEF ReactToRateLimit, ReactToTransient, TrackFailures,
                 FastForward, EndWave, ExitClassify, Return, run
  <2>2. ~ClaimSlate BY <2>1 DEF ClaimSlate
  <2> QED BY <1>b, <2>1, <2>2 DEF ClaimTracked
<1>11. ASSUME NEW s \in Slots, MergeSlot(s) PROVE ClaimTracked(t)'
  <2>1. pc = "merge" /\ pc' = pc /\ pending' = pending BY <1>11 DEF MergeSlot, run
  <2>2. ~ClaimSlate BY <2>1 DEF ClaimSlate
  <2> QED BY <1>b, <2>1, <2>2 DEF ClaimTracked
<1>12. CASE PostMergeReconcile
  <2>1. pc = "reconcile" /\ pc' = "terminal" BY <1>12 DEF PostMergeReconcile
  <2>2. PICK R : status' = SetDone(status, R) /\ pending' = pending \ R
    BY <1>12 DEF PostMergeReconcile
  <2>3. t \notin R BY <2>2 DEF SetDone
  <2>4. ~ClaimSlate BY <2>1 DEF ClaimSlate
  <2> QED BY <1>b, <2>1, <2>2, <2>3, <2>4 DEF ClaimTracked
<1>13. CASE Settle
  <2> DEFINE failed == {x.task : x \in outcome.failed}
  <2>1. pc = "settle" /\ pc' \in {"top", "classify"} BY <1>13 DEF Settle, Leave
  <2>2. \/ pending' = pending
        \/ /\ pending' = pending \ failed
           /\ status' = Reopen(status, failed, {"in_progress", "done"})
    BY <1>13 DEF Settle, ReopenedByMergeFailure
  <2>3. ~ClaimSlate BY <2>1 DEF ClaimSlate
  <2>4. t \in pending BY <1>b, <2>1, <2>3 DEF ClaimTracked
  <2>5. status[t] = "in_progress" BY <2>3, OnlyClaimsClaim
  <2>6. t \in pending'
    <3>1. CASE pending' = pending BY <2>4, <3>1
    <3>2. CASE /\ pending' = pending \ failed
               /\ status' = Reopen(status, failed, {"in_progress", "done"})
      <4>1. t \notin failed BY <2>5, <3>2 DEF Reopen
      <4> QED BY <2>4, <3>2, <4>1
    <3> QED BY <2>2, <3>1, <3>2
  <2> QED BY <2>1, <2>6 DEF ClaimTracked
<1>14. CASE ExitReclaim
  <2>1. pc = "reclaim" /\ status' = Reclaim(status, pending)
    BY <1>14 DEF ExitReclaim
  <2>2. ~ClaimSlate BY <2>1 DEF ClaimSlate
  <2>3. t \in pending BY <1>b, <2>1, <2>2 DEF ClaimTracked
  <2>4. status[t] = "in_progress" BY <2>2, OnlyClaimsClaim
  <2>5. status'[t] = "todo" BY <2>1, <2>3, <2>4 DEF Reclaim, Reopen
  <2> QED BY <2>5
<1>15. CASE ExitCleanup
  <2>1. pc = "cleanup" BY <1>15 DEF ExitCleanup
  <2>2. ~ClaimSlate BY <2>1 DEF ClaimSlate
  <2> QED BY <1>b, <2>1, <2>2 DEF ClaimTracked
<1>16. CASE Kill BY <1>16 DEF Kill, Forget, ClaimTracked
<1>17. CASE \/ DropStopFile \/ Signal \/ \E u \in Tasks : OperatorCommand(u)
  <2>1. UNCHANGED <<pc, pending, report, slot, cursor>>
    BY <1>17 DEF DropStopFile, Signal, OperatorCommand, run, wave
  <2>2. ~ClaimSlate
    <3> SUFFICES ASSUME ClaimSlate PROVE FALSE OBVIOUS
    <3>1. pc = "claim" /\ pc' = "run" BY DEF ClaimSlate
    <3> QED BY <2>1, <3>1
  <2> QED BY <1>b, <2>1, <2>2 DEF ClaimTracked
<1> QED
  BY <1>1, <1>2, <1>3, <1>4, <1>5, <1>6, <1>7, <1>8, <1>9, <1>10, <1>11,
     <1>12, <1>13, <1>14, <1>15, <1>16, <1>17 DEF Next, Coordinator, Agents

LEMMA ClaimsInvariant ==
  ASSUME ~CodexWaves PROVE Spec => []ClaimsTracked
<1>1. Init => ClaimsTracked BY DEF Init, ClaimsTracked
<1>2. TypeInv /\ ClaimsTracked /\ [Next]_vars => ClaimsTracked'
  <2>1. CASE Next BY <2>1, ClaimsStep, ConstantsAssumption
  <2>2. CASE UNCHANGED vars
    BY <2>2 DEF vars, db, run, wave, ClaimsTracked, ClaimTracked
  <2> QED BY <2>1, <2>2
<1> QED BY <1>1, <1>2, TypeInvariant, PTL DEF Spec

\* Unless a Codex wave aborts on a corrupted database, a run that ends by
\* itself leaves no task in_progress: every claim was closed, handed back, or
\* was in the tracker step 17.6 empties.
THEOREM NoClaimOutlivesRun ==
  ASSUME ~CodexWaves PROVE Spec => []NoOrphanClaims
<1>1. ClaimsTracked /\ TypeInv => NoOrphanClaims
  BY DEF ClaimsTracked, ClaimTracked, NoOrphanClaims, InStatus
<1>2. Spec => []ClaimsTracked BY ClaimsInvariant
<1> QED BY <1>1, <1>2, TypeInvariant, PTL

-----------------------------------------------------------------------------
(* prd_complete.                                                           *)

\* From the snapshot of step 17.5 on, a run that reports its PRD complete has
\* no open task, as long as no operator writes the table: the reclaim of step
\* 17.6 then finds no row to hand back.
PrdHonest ==
  (pc \in {"reclaim", "cleanup", "down"} /\ report.prdComplete /\ ops = 0) =>
    Drained(status)

LEMMA PrdStep ==
  ASSUME ConstantsAssumption, TypeInv, PrdHonest, Next PROVE PrdHonest'
<1>a. report \in ReportRecords /\ ops \in Nat
  BY DEF TypeInv, TypeOK, EnvTypeOK
<1>1. CASE ReconcileStaleSlots
  <2>1. pc' = "top" \/ report'.prdComplete = FALSE
    BY <1>1 DEF ReconcileStaleSlots, NoReport
  <2> QED BY <2>1 DEF PrdHonest
<1>2. CASE ExitClassify
  <2>1. report'.prdComplete = Drained(status) /\ status' = status
    BY <1>2, <1>a DEF ExitClassify, PrdComplete, ReportRecords, db
  <2> QED BY <2>1 DEF PrdHonest, Drained, InStatus
<1>3. CASE ExitReclaim
  <2>1. pc = "reclaim" /\ report' = report /\ ops' = ops
    BY <1>3 DEF ExitReclaim, env
  <2>2. Drained(status) => status' = [t \in Tasks |-> status[t]]
    BY <1>3 DEF ExitReclaim, Reclaim, Reopen, Drained, InStatus, Open
  <2>3. Drained(status) => Drained(status)'
    BY <2>2 DEF Drained, InStatus
  <2> QED BY <2>1, <2>3 DEF PrdHonest
<1>4. CASE ExitCleanup
  <2>1. pc = "cleanup" /\ report' = report /\ ops' = ops /\ status' = status
    BY <1>4 DEF ExitCleanup, db
  <2> QED BY <2>1 DEF PrdHonest, Drained, InStatus
<1>5. CASE Kill BY <1>5 DEF Kill, NoReport, PrdHonest
<1>6. CASE DropStopFile \/ Signal
  BY <1>6 DEF DropStopFile, Signal, db, PrdHonest, Drained, InStatus
<1>7. ASSUME NEW t \in Tasks, OperatorCommand(t) PROVE PrdHonest'
  <2>1. ops' # 0 BY <1>7, <1>a DEF OperatorCommand
  <2> QED BY <2>1 DEF PrdHonest
<1>8. ASSUME NEW s \in Slots,
             AgentFinishes(s) \/ ProcessSlot(s) \/ SkipSlot(s) \/ MergeSlot(s)
      PROVE  PrdHonest'
  <2>1. pc' = pc /\ pc \in {"run", "process", "merge"}
    BY <1>8 DEF AgentFinishes, ProcessSlot, SkipSlot, MergeSlot
  <2> QED BY <2>1 DEF PrdHonest
<1>9. CASE \/ StartLoop \/ LimitReached \/ DeadlineReached \/ BeginIteration
           \/ BeginWave \/ QuotaGateStops \/ SelectSlate \/ EphemeralDeadlock
           \/ NoEligibleTasks \/ QuotaEmpty \/ ClaimSlate \/ JoinWave
  <2>1. pc' \in {"stale", "classify", "preflight", "settle", "select", "claim",
                 "run", "process"}
    BY <1>9 DEF StartLoop, LimitReached, DeadlineReached, BeginIteration,
                BeginWave, QuotaGateStops, SelectSlate, EphemeralDeadlock,
                NoEligibleTasks, QuotaEmpty, ClaimSlate, JoinWave, Leave, Return
  <2> QED BY <2>1 DEF PrdHonest
<1>10. CASE \/ ProcessingDone \/ ReactToRateLimit \/ ReactToTransient
            \/ TrackFailures \/ FastForward \/ PostMergeReconcile \/ EndWave
            \/ Settle
  <2>1. pc' \in {"account", "settle", "transient", "track", "merge",
                 "reconcile", "terminal", "top", "classify"}
    BY <1>10 DEF ProcessingDone, ReactToRateLimit, ReactToTransient,
                 TrackFailures, FastForward, PostMergeReconcile, EndWave,
                 Settle, Leave, Return
  <2> QED BY <2>1 DEF PrdHonest
<1> QED
  BY <1>1, <1>2, <1>3, <1>4, <1>5, <1>6, <1>7, <1>8, <1>9, <1>10
  DEF Next, Coordinator, Agents

\* A run that reports its PRD complete leaves no task open, also after merge
\* failures reopened tasks an earlier wave had counted as complete.
THEOREM PrdCompletionIsHonest == Spec => []PrdCompleteHonest
<1>1. Init => PrdHonest BY DEF Init, PrdHonest, NoReport
<1>2. TypeInv /\ PrdHonest /\ [Next]_vars => PrdHonest'
  <2>1. CASE Next BY <2>1, PrdStep, ConstantsAssumption
  <2>2. CASE UNCHANGED vars
    BY <2>2 DEF vars, db, env, PrdHonest, Drained, InStatus
  <2> QED BY <2>1, <2>2
<1>3. PrdHonest => PrdCompleteHonest
  BY DEF PrdHonest, PrdCompleteHonest, Drained
<1> QED BY <1>1, <1>2, <1>3, TypeInvariant, PTL DEF Spec

-----------------------------------------------------------------------------
(* Commits.                                                                *)

\* The only steps that change the loop branch or a slot branch.
LEMMA OnlyGitActions ==
  ASSUME Next, ~ReconcileStaleSlots, ~FastForward, ~ExitCleanup,
         \A s \in Slots : ~AgentFinishes(s) /\ ~MergeSlot(s)
  PROVE  main' = main /\ branch' = branch
<1>1. CASE \/ StartLoop \/ LimitReached \/ DeadlineReached \/ BeginIteration
           \/ BeginWave \/ QuotaGateStops \/ SelectSlate \/ EphemeralDeadlock
           \/ NoEligibleTasks \/ QuotaEmpty \/ ClaimSlate \/ JoinWave
  BY <1>1 DEF StartLoop, LimitReached, DeadlineReached, BeginIteration,
              BeginWave, QuotaGateStops, SelectSlate, EphemeralDeadlock,
              NoEligibleTasks, QuotaEmpty, ClaimSlate, JoinWave, git
<1>2. CASE \/ ProcessingDone \/ ReactToRateLimit \/ ReactToTransient
           \/ TrackFailures \/ PostMergeReconcile \/ EndWave \/ Settle
  BY <1>2 DEF ProcessingDone, ReactToRateLimit, ReactToTransient,
              TrackFailures, PostMergeReconcile, EndWave, Settle, git
<1>3. CASE \/ ExitClassify \/ ExitReclaim \/ Kill \/ DropStopFile \/ Signal
           \/ \E t \in Tasks : OperatorCommand(t)
  BY <1>3 DEF ExitClassify, ExitReclaim, Kill, DropStopFile, Signal,
              OperatorCommand, git
<1>4. ASSUME NEW s \in Slots, ProcessSlot(s) \/ SkipSlot(s)
      PROVE  main' = main /\ branch' = branch
  BY <1>4 DEF ProcessSlot, SkipSlot, git
<1> QED BY <1>1, <1>2, <1>3, <1>4 DEF Next, Coordinator, Agents

LEMMA MainGrows ==
  ASSUME Next PROVE main \subseteq main'
<1>1. CASE ReconcileStaleSlots
  BY <1>1 DEF ReconcileStaleSlots
<1>2. CASE FastForward \/ ExitCleanup BY <1>2 DEF FastForward, ExitCleanup
<1>3. ASSUME NEW s \in Slots, AgentFinishes(s) PROVE main \subseteq main'
  BY <1>3 DEF AgentFinishes
<1>4. ASSUME NEW s \in Slots, MergeSlot(s) PROVE main \subseteq main'
  BY <1>4 DEF MergeSlot, MergeOk, AttemptHead
<1> QED BY <1>1, <1>2, <1>3, <1>4, OnlyGitActions

\* No merge attempt, reset, fast-forward or recovery takes a commit off the
\* loop branch.
THEOREM LoopBranchOnlyGrows == Spec => LoopBranchGrows
<1>1. [Next]_vars => [main \subseteq main']_vars BY MainGrows
<1> QED BY <1>1, PTL DEF Spec, LoopBranchGrows

LEMMA CommitsKept ==
  ASSUME ConstantsAssumption, TypeInv, Next, pc # "cleanup"
  PROVE  AllCommits \subseteq AllCommits'
<1> SUFFICES ASSUME NEW x \in AllCommits PROVE x \in AllCommits'
  OBVIOUS
<1>a. branch \in [Ephemeral -> SUBSET Commits]
  BY DEF TypeInv, TypeOK, GitTypeOK
<1>b. main \subseteq main' BY MainGrows
<1>c. SUFFICES ASSUME NEW s \in Ephemeral, x \in branch[s]
               PROVE  x \in main' \/ x \in branch'[s]
  BY <1>b DEF AllCommits
<1>1. CASE ReconcileStaleSlots
  <2>1. CASE s \notin StaleWork
    BY <1>b, <1>c, <2>1 DEF StaleWork, Unmerged
  <2>2. CASE s \in StaleWork
    <3>1. CASE dirty # {} BY <1>1, <1>c, <2>2, <3>1 DEF ReconcileStaleSlots
    <3>2. CASE dirty = {}
      <4>1. PICK R \in SUBSET StaleWork :
              /\ main' = main \cup UNION {branch[e] : e \in R}
              /\ \/ branch' = [e \in Ephemeral |->
                                 IF e \in StaleWork \ R THEN branch[e] ELSE {}]
                 \/ branch' = [e \in Ephemeral |->
                                 IF e \in StaleWork \ R THEN branch[e] ELSE main']
        BY <1>1, <3>2 DEF ReconcileStaleSlots
      <4>2. CASE s \in R BY <1>c, <4>1, <4>2
      <4>3. CASE s \notin R BY <1>c, <2>2, <4>1, <4>3
      <4> QED BY <4>2, <4>3
    <3> QED BY <3>1, <3>2
  <2> QED BY <2>1, <2>2
<1>2. CASE FastForward
  <2>1. PICK S : /\ branch' = [e \in Ephemeral |-> Advanced(e, S)]
                 /\ \A e \in S : branch[e] \subseteq main
    BY <1>2 DEF FastForward
  <2> QED BY <1>b, <1>c, <2>1 DEF Advanced
<1>3. CASE ExitCleanup BY <1>3 DEF ExitCleanup
<1>4. ASSUME NEW e \in Slots, AgentFinishes(e)
      PROVE  x \in main' \/ x \in branch'[s]
  <2>1. PICK r \in AgentResults \cup {Interrupted} :
          LET t == slot[e].task
              new == IF r.commit = "none" THEN {}
                     ELSE {[task |-> t, n |-> work[t] + 1,
                            marked |-> r.commit = "marked"]}
          IN branch' = [i \in Ephemeral |->
                          IF i = e THEN branch[i] \cup new ELSE branch[i]]
    BY <1>4 DEF AgentFinishes
  <2> QED BY <1>c, <2>1
<1>5. ASSUME NEW e \in Slots, MergeSlot(e)
      PROVE  x \in main' \/ x \in branch'[s]
  BY <1>c, <1>5 DEF MergeSlot
<1> QED BY <1>c, <1>1, <1>2, <1>3, <1>4, <1>5, OnlyGitActions

\* Only the cleanup at the end of a run drops commits: no merge, fast-forward,
\* crash or startup recovery does.
THEOREM OnlyCleanupDropsWork == Spec => WorkOnlyLostAtCleanup
<1>1. TypeInv /\ [Next]_vars =>
        [pc # "cleanup" => AllCommits \subseteq AllCommits']_vars
  BY CommitsKept, ConstantsAssumption
<1> QED BY <1>1, TypeInvariant, PTL DEF Spec, WorkOnlyLostAtCleanup

-----------------------------------------------------------------------------
(* Decisions.                                                              *)

Decided(t) == status[t] \in Terminal \ {"done"}

LEMMA DecisionsKept ==
  ASSUME ConstantsAssumption, TypeInv, Next, ops' = ops, pc # "process",
         NEW t \in Tasks, Decided(t)
  PROVE  \/ status'[t] = status[t]
         \/ pc \in {"down", "top"} /\ t \in passes /\ status'[t] = "done"
<1>a. status \in [Tasks -> Statuses] /\ ops \in Nat
  BY DEF TypeInv, TypeOK, DbTypeOK, EnvTypeOK
<1>b. status[t] \notin {"todo", "in_progress", "done"}
  BY DEF Decided, Terminal, Open
<1>c. \A S : Reclaim(status, S)[t] = status[t]
  BY <1>b DEF Reclaim, Reopen
<1>1. CASE StartLoop
  <2>1. pc = "down" /\ status' = SetDone(Reclaim(status, Tasks), passes)
    BY <1>1 DEF StartLoop
  <2> QED BY <1>c, <2>1 DEF SetDone
<1>2. CASE BeginIteration BY <1>2 DEF BeginIteration, SetDone
<1>3. CASE NoEligibleTasks
  <2>1. \/ status' = status
        \/ status' = Reclaim(SetDone(status, Synced(status)), Tasks)
    BY <1>3 DEF NoEligibleTasks
  <2>2. t \notin Synced(status) BY <1>b DEF Synced, InStatus, Open
  <2> QED BY <1>b, <2>1, <2>2 DEF Reclaim, Reopen, SetDone
<1>q. CASE QuotaEmpty BY <1>c, <1>q DEF QuotaEmpty
<1>4. CASE ClaimSlate
  <2>1. \A s \in Selected : slot[s].task = t => status[slot[s].task] \notin Open
    BY <1>b DEF Open
  <2> QED BY <1>4, <2>1 DEF ClaimSlate
<1>5. CASE \/ ReactToRateLimit \/ ReactToTransient \/ ExitReclaim
  BY <1>c, <1>5 DEF ReactToRateLimit, ReactToTransient, ExitReclaim
<1>6. CASE TrackFailures BY <1>b, <1>6 DEF TrackFailures
<1>7. CASE PostMergeReconcile
  <2>1. PICK R : /\ status' = SetDone(status, R)
                 /\ \A u \in R : status[u] = "in_progress"
    BY <1>7 DEF PostMergeReconcile
  <2> QED BY <1>b, <2>1 DEF SetDone
<1>8. CASE Settle
  <2>1. \/ status' = status
        \/ \E S : status' = Reopen(status, S, {"in_progress", "done"})
    BY <1>8 DEF Settle, ReopenedByMergeFailure
  <2> QED BY <1>b, <2>1 DEF Reopen
<1>9. ASSUME NEW u \in Tasks, OperatorCommand(u) PROVE FALSE
  BY <1>9, <1>a DEF OperatorCommand
<1>10. ASSUME NEW s \in Slots, ProcessSlot(s) PROVE FALSE
  BY <1>10 DEF ProcessSlot
<1>11. ASSUME NEW s \in Slots, AgentFinishes(s) \/ SkipSlot(s) \/ MergeSlot(s)
       PROVE  status' = status
  BY <1>11 DEF AgentFinishes, SkipSlot, MergeSlot, db
<1>12. CASE \/ ReconcileStaleSlots \/ LimitReached \/ DeadlineReached
            \/ BeginWave \/ QuotaGateStops \/ SelectSlate \/ EphemeralDeadlock
            \/ JoinWave
  BY <1>12 DEF ReconcileStaleSlots, LimitReached, DeadlineReached, BeginWave,
               QuotaGateStops, SelectSlate, EphemeralDeadlock, JoinWave, db
<1>13. CASE \/ ProcessingDone \/ FastForward \/ EndWave \/ ExitClassify
            \/ ExitCleanup \/ Kill \/ DropStopFile \/ Signal
  BY <1>13 DEF ProcessingDone, FastForward, EndWave, ExitClassify, ExitCleanup,
               Kill, DropStopFile, Signal, db
<1> QED
  BY <1>q, <1>1, <1>2, <1>3, <1>4, <1>5, <1>6, <1>7, <1>8, <1>9, <1>10, <1>11,
     <1>12, <1>13 DEF Next, Coordinator, Agents

\* None of the loop's resets, sweeps and syncs changes a blocked, skipped or
\* irrelevant task, except that importing the PRD closes one whose story
\* passes.
THEOREM DecisionsOutliveSweeps == Spec => HonestTerminalsKept
<1> DEFINE A ==
  (ops' = ops /\ pc # "process") =>
     \A t \in Tasks : status[t] \in Terminal \ {"done"} =>
       \/ status'[t] = status[t]
       \/ pc \in {"down", "top"} /\ t \in passes /\ status'[t] = "done"
<1>1. TypeInv /\ [Next]_vars => [A]_vars
  BY DecisionsKept, ConstantsAssumption DEF Decided
<1> QED BY <1>1, TypeInvariant, PTL DEF Spec, HonestTerminalsKept

-----------------------------------------------------------------------------
(* The account's limit.                                                    *)

LEMMA LimitedStep ==
  ASSUME LimitedWavesEnd, Next
  PROVE  LimitedWavesEnd'
<1> DEFINE late == {"transient", "track", "merge", "reconcile"}
<1>1. ASSUME pc \in late, pc' = pc \/ pc' \in late, slot' = slot
      PROVE  LimitedWavesEnd'
  BY <1>1 DEF LimitedWavesEnd, Processed
<1>2. ASSUME pc' \notin late PROVE LimitedWavesEnd'
  BY <1>2 DEF LimitedWavesEnd
<1>3. ASSUME pc' = pc, slot' = slot PROVE LimitedWavesEnd'
  BY <1>3 DEF LimitedWavesEnd, Processed
<1>4. CASE ReactToRateLimit
  <2>1. CASE Limited BY <1>2, <1>4, <2>1 DEF ReactToRateLimit, Return
  <2>2. CASE ~Limited
    BY <1>4, <2>2 DEF ReactToRateLimit, LimitedWavesEnd, Limited, Processed
  <2> QED BY <2>1, <2>2
<1>5. CASE ReactToTransient
  <2>1. /\ pc \in late /\ slot' = slot
        /\ pc' \in late \/ pc' = "settle"
    BY <1>5 DEF ReactToTransient, Return
  <2> QED BY <2>1, <1>1, <1>2
<1>6. CASE TrackFailures \/ FastForward
  BY <1>1, <1>6 DEF TrackFailures, FastForward
<1>7. ASSUME NEW s \in Slots, MergeSlot(s) PROVE LimitedWavesEnd'
  BY <1>3, <1>7 DEF MergeSlot
<1>8. CASE \/ PostMergeReconcile \/ EndWave \/ Settle \/ ExitClassify
           \/ ExitReclaim \/ ExitCleanup \/ Kill
  BY <1>2, <1>8 DEF PostMergeReconcile, EndWave, Settle, ExitClassify,
       ExitReclaim, ExitCleanup, Kill, Forget, Leave, Return
<1>9. CASE \/ StartLoop \/ ReconcileStaleSlots \/ LimitReached \/ DeadlineReached
           \/ BeginIteration \/ BeginWave \/ QuotaGateStops \/ SelectSlate
           \/ EphemeralDeadlock \/ NoEligibleTasks \/ QuotaEmpty \/ ClaimSlate \/ JoinWave
           \/ ProcessingDone
  BY <1>2, <1>9 DEF StartLoop, ReconcileStaleSlots, LimitReached, DeadlineReached,
       BeginIteration, BeginWave, QuotaGateStops, SelectSlate, EphemeralDeadlock,
       NoEligibleTasks, QuotaEmpty, ClaimSlate, JoinWave, ProcessingDone, Leave, Return
<1>10. ASSUME NEW s \in Slots, AgentFinishes(s) \/ ProcessSlot(s) \/ SkipSlot(s)
       PROVE  LimitedWavesEnd'
  BY <1>2, <1>10 DEF AgentFinishes, ProcessSlot, SkipSlot
<1>11. CASE DropStopFile \/ Signal
  BY <1>3, <1>11 DEF DropStopFile, Signal, wave
<1>12. ASSUME NEW t \in Tasks, OperatorCommand(t) PROVE LimitedWavesEnd'
  BY <1>3, <1>12 DEF OperatorCommand, wave
<1> QED
  BY <1>4, <1>5, <1>6, <1>7, <1>8, <1>9, <1>10, <1>11, <1>12
     DEF Next, Coordinator, Agents

\* A wave that met the account's limit never reaches failure counting or its
\* merge phase, whatever its agents completed.
THEOREM LimitsEndWaves == Spec => []LimitedWavesEnd
<1>1. Init => LimitedWavesEnd BY DEF Init, LimitedWavesEnd
<1>2. LimitedWavesEnd /\ [Next]_vars => LimitedWavesEnd'
  <2>1. CASE Next BY <2>1, LimitedStep
  <2>2. CASE UNCHANGED vars
    BY <2>2 DEF vars, wave, LimitedWavesEnd, Processed
  <2> QED BY <2>1, <2>2
<1> QED BY <1>1, <1>2, PTL DEF Spec

-----------------------------------------------------------------------------
(* The slots of a wave, for the properties of a wave's tasks below.        *)

Taken(s) == slot[s].state # "idle"

\* Everywhere but in a wave's phases the slots are idle.
Outside == {"down", "stale", "top", "preflight", "select", "classify",
            "reclaim", "cleanup"}

\* A slot's result is one that agents may produce, and the pipeline only turns it
\* into a completion; no two slots have the same task; agents run in one phase only.
SlotsFit ==
  /\ pc \in Outside => \A s \in Slots : ~Taken(s)
  /\ \A s \in Slots : /\ slot[s].result \in AgentResults \cup {Interrupted}
                      /\ slot[s].live \in {slot[s].result.outcome, "completed"}
                      /\ Taken(s) \/ slot[s].task = NoTask
  /\ \A s, e \in Slots :
       Taken(s) /\ Taken(e) /\ s # e => slot[s].task # slot[e].task
  /\ pc = "claim" => \A s \in Slots : slot[s].state \in {"idle", "selected"}
  /\ pc # "run" => \A s \in Slots : slot[s].state # "running"

\* What happens to the slots in one step, by the action that does it.
LEMMA SelectsFree ==
  ASSUME ConstantsAssumption, SelectSlate
  PROVE  /\ \A s \in Slots : /\ slot'[s].result = Interrupted
                             /\ slot'[s].live = "empty"
                             /\ slot'[s].state \in {"idle", "selected"}
                             /\ IF slot'[s].state = "idle" THEN slot'[s].task = NoTask
                                ELSE slot'[s].task \in Free
         /\ \A s, e \in Slots :
              slot'[s].state # "idle" /\ slot'[e].state # "idle" /\ s # e
                => slot'[s].task # slot'[e].task
<1>1. PICK g \in Slates : \E f \in Assignments(g) :
        slot' = [s \in Slots |->
                   IF s \in DOMAIN f
                   THEN [IdleSlot EXCEPT !.task = f[s], !.state = "selected"]
                   ELSE IdleSlot]
  BY DEF SelectSlate
<1>2. PICK f \in Assignments(g) :
        slot' = [s \in Slots |->
                   IF s \in DOMAIN f
                   THEN [IdleSlot EXCEPT !.task = f[s], !.state = "selected"]
                   ELSE IdleSlot]
  BY <1>1
<1> DEFINE chosen(t) == [IdleSlot EXCEPT !.task = t, !.state = "selected"]
<1>3. \A t : /\ chosen(t).task = t /\ chosen(t).state = "selected"
            /\ chosen(t).result = Interrupted /\ chosen(t).live = "empty"
  BY DEF IdleSlot
<1>i. /\ IdleSlot.state = "idle" /\ IdleSlot.result = Interrupted
      /\ IdleSlot.live = "empty" /\ IdleSlot.task = NoTask
  BY DEF IdleSlot
<1>4. /\ \A i \in DOMAIN f : f[i] \in Free
      /\ \A i, j \in DOMAIN f : i # j => f[i] # f[j]
  BY <1>1 DEF Assignments, Slates
<1>5. \A s \in Slots : slot'[s] = IF s \in DOMAIN f THEN chosen(f[s]) ELSE IdleSlot
  BY <1>2
<1>6. \A s \in Slots : /\ slot'[s].result = Interrupted /\ slot'[s].live = "empty"
                       /\ slot'[s].state \in {"idle", "selected"}
                       /\ \/ slot'[s].state = "idle" /\ slot'[s].task = NoTask
                          \/ /\ slot'[s].state # "idle"
                             /\ s \in DOMAIN f /\ slot'[s].task = f[s]
  <2> HIDE DEF chosen
  <2> QED BY <1>3, <1>i, <1>5
<1> QED BY <1>4, <1>6

LEMMA ClaimsSlots ==
  ASSUME TypeInv, ClaimSlate, NEW s \in Slots
  PROVE  /\ slot'[s].task = slot[s].task /\ slot'[s].result = slot[s].result
         /\ slot'[s].live = slot[s].live
         /\ slot'[s].state = IF slot[s].state # "selected" THEN slot[s].state
                             ELSE IF status[slot[s].task] \in Open
                             THEN "running" ELSE "refused"
<1>1. slot \in [Slots -> SlotRecords] BY DEF TypeInv, TypeOK, WaveTypeOK
<1>2. slot'[s] = IF slot[s].state # "selected" THEN slot[s]
                 ELSE IF status[slot[s].task] \in Open
                 THEN [slot[s] EXCEPT !.state = "running"]
                 ELSE [slot[s] EXCEPT !.state = "refused"]
  BY DEF ClaimSlate, Selected
<1> QED BY <1>1, <1>2 DEF SlotRecords

LEMMA AgentFinishesSlot ==
  ASSUME TypeInv, NEW s \in Slots, AgentFinishes(s)
  PROVE  /\ slot[s].state = "running" /\ slot'[s].state = "finished"
         /\ slot'[s].task = slot[s].task
         /\ slot'[s].result \in AgentResults \cup {Interrupted}
         /\ slot'[s].live = slot'[s].result.outcome
         /\ \A e \in Slots : e # s => slot'[e] = slot[e]
<1>1. slot \in [Slots -> SlotRecords] BY DEF TypeInv, TypeOK, WaveTypeOK
<1>2. PICK r \in AgentResults \cup {Interrupted} :
        slot' = [slot EXCEPT ![s].state = "finished", ![s].result = r,
                             ![s].live = r.outcome]
  BY DEF AgentFinishes
<1> QED BY <1>1, <1>2 DEF SlotRecords, AgentFinishes, Running

\* One slot's output is folded into the table, with st for the table after the
\* overflow ladder and u for the task that its tag is about.
About(s) == IF slot[s].result.peer = NoTask THEN slot[s].task ELSE slot[s].result.peer

LEMMA ProcessesSlot ==
  ASSUME TypeInv, NEW s \in Slots, ProcessSlot(s)
  PROVE  /\ slot[s].state = "finished" /\ slot'[s].state = "processed"
         /\ slot'[s].task = slot[s].task /\ slot'[s].result = slot[s].result
         /\ slot'[s].live \in {slot[s].result.outcome, "completed"}
         /\ \A e \in Slots : e # s => slot'[e] = slot[e]
<1>1. slot \in [Slots -> SlotRecords] BY DEF TypeInv, TypeOK, WaveTypeOK
<1>2. PICK live \in {slot[s].result.outcome, "completed"} :
        slot' = [slot EXCEPT ![s].state = "processed", ![s].live = live]
  BY DEF ProcessSlot
<1> QED BY <1>1, <1>2 DEF SlotRecords, ProcessSlot, Finished

LEMMA ProcessesRows ==
  ASSUME NEW s \in Slots, ProcessSlot(s)
  PROVE  \E st \in OverflowApplied(slot[s].task, slot[s].result, status) :
           LET target == TagTargets(slot[s].result.tag, About(s), st)
           IN  /\ status' = IF target = {} THEN st
                            ELSE [st EXCEPT ![About(s)] = CHOOSE x \in target : TRUE]
               /\ fails' = ClearFails(st, IF target = {"done"} THEN {About(s)} ELSE {})
BY DEF ProcessSlot, About

\* The slots change in no other step, except that the wave's end frees them.
LEMMA OnlySlotActions ==
  ASSUME Next, ~SelectSlate, ~ClaimSlate,
         \A s \in Slots : ~AgentFinishes(s) /\ ~ProcessSlot(s)
  PROVE  \/ slot' = slot
         \/ slot' = IdleSlots /\ pc' \in {"top", "classify", "down"}
<1>1. CASE \/ StartLoop \/ LimitReached \/ DeadlineReached \/ BeginIteration
           \/ BeginWave \/ QuotaGateStops \/ EphemeralDeadlock
           \/ NoEligibleTasks \/ QuotaEmpty \/ JoinWave \/ ReconcileStaleSlots
  BY <1>1 DEF StartLoop, LimitReached, DeadlineReached, BeginIteration, BeginWave,
       QuotaGateStops, EphemeralDeadlock, NoEligibleTasks, QuotaEmpty, JoinWave,
       ReconcileStaleSlots, wave
<1>2. CASE \/ ProcessingDone \/ ReactToRateLimit \/ ReactToTransient \/ TrackFailures
           \/ FastForward \/ PostMergeReconcile \/ EndWave \/ ExitClassify
           \/ ExitReclaim \/ DropStopFile \/ Signal
           \/ \E t \in Tasks : OperatorCommand(t)
  BY <1>2 DEF ProcessingDone, ReactToRateLimit, ReactToTransient, TrackFailures,
       FastForward, PostMergeReconcile, EndWave, ExitClassify, ExitReclaim,
       DropStopFile, Signal, OperatorCommand, wave
<1>3. CASE Settle \/ ExitCleanup \/ Kill
  BY <1>3 DEF Settle, ExitCleanup, Kill, Forget, Leave
<1>4. ASSUME NEW s \in Slots, SkipSlot(s) \/ MergeSlot(s) PROVE slot' = slot
  BY <1>4 DEF SkipSlot, MergeSlot
<1> QED BY <1>1, <1>2, <1>3, <1>4 DEF Next, Coordinator, Agents

LEMMA IdleSlotsIdle ==
  ASSUME NEW s \in Slots
  PROVE  /\ IdleSlots[s].state = "idle" /\ IdleSlots[s].result = Interrupted
         /\ IdleSlots[s].live = Interrupted.outcome /\ IdleSlots[s].task = NoTask
BY DEF IdleSlots, IdleSlot, Interrupted

\* The phases that a wave leaves behind end it.
LEMMA SlotsLeave ==
  ASSUME Next, pc \notin Outside, pc' \in Outside PROVE slot' = IdleSlots
<1>1. CASE Settle \/ Kill BY <1>1 DEF Settle, Kill, Forget
<1>2. CASE \/ StartLoop \/ LimitReached \/ DeadlineReached \/ BeginIteration
           \/ BeginWave \/ QuotaGateStops \/ EphemeralDeadlock \/ SelectSlate
           \/ NoEligibleTasks \/ QuotaEmpty \/ ReconcileStaleSlots \/ ExitClassify \/ ExitReclaim
           \/ ExitCleanup
  BY <1>2 DEF StartLoop, LimitReached, DeadlineReached, BeginIteration, BeginWave,
       QuotaGateStops, EphemeralDeadlock, SelectSlate, NoEligibleTasks, QuotaEmpty,
       ReconcileStaleSlots, ExitClassify, ExitReclaim, ExitCleanup, Outside
<1>3. CASE \/ ClaimSlate \/ JoinWave \/ ProcessingDone \/ ReactToRateLimit
           \/ ReactToTransient \/ TrackFailures \/ FastForward \/ PostMergeReconcile
           \/ EndWave \/ DropStopFile \/ Signal \/ \E t \in Tasks : OperatorCommand(t)
  BY <1>3 DEF ClaimSlate, JoinWave, ProcessingDone, ReactToRateLimit, ReactToTransient,
       TrackFailures, FastForward, PostMergeReconcile, EndWave, DropStopFile, Signal,
       OperatorCommand, Return, Outside
<1>4. ASSUME NEW s \in Slots,
             AgentFinishes(s) \/ ProcessSlot(s) \/ SkipSlot(s) \/ MergeSlot(s)
      PROVE  pc' = pc
  BY <1>4 DEF AgentFinishes, ProcessSlot, SkipSlot, MergeSlot
<1> QED BY <1>1, <1>2, <1>3, <1>4 DEF Next, Coordinator, Agents

LEMMA ClaimFollowsSelection ==
  ASSUME Next, ~SelectSlate, pc' = "claim" PROVE pc = "claim" /\ slot' = slot
<1>1. CASE DropStopFile \/ Signal \/ \E t \in Tasks : OperatorCommand(t)
  BY <1>1 DEF DropStopFile, Signal, OperatorCommand, wave
<1>2. CASE \/ StartLoop \/ LimitReached \/ DeadlineReached \/ BeginIteration
           \/ BeginWave \/ QuotaGateStops \/ EphemeralDeadlock
           \/ NoEligibleTasks \/ QuotaEmpty \/ ReconcileStaleSlots \/ ClaimSlate \/ JoinWave
           \/ ProcessingDone
  BY <1>2 DEF StartLoop, LimitReached, DeadlineReached, BeginIteration, BeginWave,
       QuotaGateStops, EphemeralDeadlock, NoEligibleTasks, QuotaEmpty,
       ReconcileStaleSlots, ClaimSlate, JoinWave, ProcessingDone, Leave, Return
<1>3. CASE \/ ReactToRateLimit \/ ReactToTransient \/ TrackFailures \/ FastForward
           \/ PostMergeReconcile \/ EndWave \/ Settle \/ ExitClassify \/ ExitReclaim
           \/ ExitCleanup \/ Kill
  BY <1>3 DEF ReactToRateLimit, ReactToTransient, TrackFailures, FastForward,
       PostMergeReconcile, EndWave, Settle, ExitClassify, ExitReclaim, ExitCleanup,
       Kill, Forget, Leave, Return
<1>4. ASSUME NEW s \in Slots,
             AgentFinishes(s) \/ ProcessSlot(s) \/ SkipSlot(s) \/ MergeSlot(s)
      PROVE  FALSE
  BY <1>4 DEF AgentFinishes, ProcessSlot, SkipSlot, MergeSlot
<1> QED BY <1>1, <1>2, <1>3, <1>4 DEF Next, Coordinator, Agents

LEMMA RunFollowsClaim ==
  ASSUME Next, ~ClaimSlate, pc' = "run", \A s \in Slots : ~AgentFinishes(s)
  PROVE  pc = "run" /\ slot' = slot /\ main' = main /\ branch' = branch
<1>1. CASE DropStopFile \/ Signal \/ \E t \in Tasks : OperatorCommand(t)
  BY <1>1 DEF DropStopFile, Signal, OperatorCommand, wave, git
<1>2. CASE \/ StartLoop \/ LimitReached \/ DeadlineReached \/ BeginIteration
           \/ BeginWave \/ QuotaGateStops \/ SelectSlate \/ EphemeralDeadlock
           \/ NoEligibleTasks \/ QuotaEmpty \/ ReconcileStaleSlots \/ JoinWave \/ ProcessingDone
  BY <1>2 DEF StartLoop, LimitReached, DeadlineReached, BeginIteration, BeginWave,
       QuotaGateStops, SelectSlate, EphemeralDeadlock, NoEligibleTasks, QuotaEmpty,
       ReconcileStaleSlots, JoinWave, ProcessingDone, Leave, Return
<1>3. CASE \/ ReactToRateLimit \/ ReactToTransient \/ TrackFailures \/ FastForward
           \/ PostMergeReconcile \/ EndWave \/ Settle \/ ExitClassify \/ ExitReclaim
           \/ ExitCleanup \/ Kill
  BY <1>3 DEF ReactToRateLimit, ReactToTransient, TrackFailures, FastForward,
       PostMergeReconcile, EndWave, Settle, ExitClassify, ExitReclaim, ExitCleanup,
       Kill, Forget, Leave, Return
<1>4. ASSUME NEW s \in Slots, ProcessSlot(s) \/ SkipSlot(s) \/ MergeSlot(s) PROVE FALSE
  BY <1>4 DEF ProcessSlot, SkipSlot, MergeSlot
<1> QED BY <1>1, <1>2, <1>3, <1>4 DEF Next, Coordinator, Agents

LEMMA MergeFollowsTracking ==
  ASSUME Next, ~TrackFailures, pc' = "merge", \A s \in Slots : ~MergeSlot(s)
  PROVE  pc = "merge" /\ merge' = merge /\ cursor' = cursor
<1>1. CASE DropStopFile \/ Signal \/ \E t \in Tasks : OperatorCommand(t)
  BY <1>1 DEF DropStopFile, Signal, OperatorCommand, wave
<1>2. CASE \/ StartLoop \/ LimitReached \/ DeadlineReached \/ BeginIteration
           \/ BeginWave \/ QuotaGateStops \/ SelectSlate \/ EphemeralDeadlock
           \/ NoEligibleTasks \/ QuotaEmpty \/ ReconcileStaleSlots \/ ClaimSlate \/ JoinWave
           \/ ProcessingDone
  BY <1>2 DEF StartLoop, LimitReached, DeadlineReached, BeginIteration, BeginWave,
       QuotaGateStops, SelectSlate, EphemeralDeadlock, NoEligibleTasks, QuotaEmpty,
       ReconcileStaleSlots, ClaimSlate, JoinWave, ProcessingDone, Leave, Return
<1>3. CASE \/ ReactToRateLimit \/ ReactToTransient \/ FastForward
           \/ PostMergeReconcile \/ EndWave \/ Settle \/ ExitClassify \/ ExitReclaim
           \/ ExitCleanup \/ Kill
  BY <1>3 DEF ReactToRateLimit, ReactToTransient, FastForward,
       PostMergeReconcile, EndWave, Settle, ExitClassify, ExitReclaim, ExitCleanup,
       Kill, Forget, Leave, Return
<1>4. ASSUME NEW s \in Slots, AgentFinishes(s) \/ ProcessSlot(s) \/ SkipSlot(s) PROVE FALSE
  BY <1>4 DEF AgentFinishes, ProcessSlot, SkipSlot
<1> QED BY <1>1, <1>2, <1>3, <1>4 DEF Next, Coordinator, Agents

LEMMA RunEnds ==
  ASSUME Next, pc = "run", pc' # "run"
  PROVE  slot' = IdleSlots \/ (slot' = slot /\ Running = {})
<1>1. CASE JoinWave BY <1>1 DEF JoinWave
<1>2. CASE Kill BY <1>2 DEF Kill, Forget
<1>3. CASE DropStopFile \/ Signal \/ \E t \in Tasks : OperatorCommand(t)
  BY <1>3 DEF DropStopFile, Signal, OperatorCommand
<1>4. CASE \/ StartLoop \/ LimitReached \/ DeadlineReached \/ BeginIteration
           \/ BeginWave \/ QuotaGateStops \/ SelectSlate \/ EphemeralDeadlock
           \/ NoEligibleTasks \/ QuotaEmpty \/ ReconcileStaleSlots \/ ClaimSlate
           \/ ProcessingDone
  BY <1>4 DEF StartLoop, LimitReached, DeadlineReached, BeginIteration, BeginWave,
       QuotaGateStops, SelectSlate, EphemeralDeadlock, NoEligibleTasks, QuotaEmpty,
       ReconcileStaleSlots, ClaimSlate, ProcessingDone
<1>5. CASE \/ ReactToRateLimit \/ ReactToTransient \/ TrackFailures \/ FastForward
           \/ PostMergeReconcile \/ EndWave \/ Settle \/ ExitClassify \/ ExitReclaim
           \/ ExitCleanup
  BY <1>5 DEF ReactToRateLimit, ReactToTransient, TrackFailures, FastForward,
       PostMergeReconcile, EndWave, Settle, ExitClassify, ExitReclaim, ExitCleanup
<1>6. ASSUME NEW s \in Slots,
             AgentFinishes(s) \/ ProcessSlot(s) \/ SkipSlot(s) \/ MergeSlot(s)
      PROVE  FALSE
  BY <1>6 DEF AgentFinishes, ProcessSlot, SkipSlot, MergeSlot
<1> QED BY <1>1, <1>2, <1>3, <1>4, <1>5, <1>6 DEF Next, Coordinator, Agents

LEMMA SlotsFitStep ==
  ASSUME ConstantsAssumption, TypeInv, SlotsFit, Next PROVE SlotsFit'
<1>1. ASSUME SelectSlate PROVE SlotsFit'
  <2>1. pc' = "claim" BY <1>1 DEF SelectSlate
  <2> QED BY <1>1, <2>1, SelectsFree DEF SlotsFit, Taken, Outside, Interrupted
<1>2. ASSUME ClaimSlate PROVE SlotsFit'
  <2>1. pc' = "run" BY <1>2 DEF ClaimSlate
  <2>2. \A s \in Slots : /\ slot'[s].task = slot[s].task
                         /\ slot'[s].result = slot[s].result
                         /\ slot'[s].live = slot[s].live
                         /\ slot'[s].state = "idle" <=> slot[s].state = "idle"
    BY <1>2, ClaimsSlots
  <2> QED BY <2>1, <2>2 DEF SlotsFit, Taken, Outside
<1>3. ASSUME NEW s \in Slots, AgentFinishes(s) \/ ProcessSlot(s) PROVE SlotsFit'
  <2>1. pc' = pc /\ pc \in {"run", "process"} BY <1>3 DEF AgentFinishes, ProcessSlot
  <2>2. /\ slot[s].state # "idle" /\ slot'[s].state \notin {"idle", "running"}
        /\ slot'[s].task = slot[s].task
        /\ \A e \in Slots : e # s => slot'[e] = slot[e]
    BY <1>3, AgentFinishesSlot, ProcessesSlot
  <2>3. /\ slot'[s].result \in AgentResults \cup {Interrupted}
        /\ slot'[s].live \in {slot'[s].result.outcome, "completed"}
    BY <1>3, AgentFinishesSlot, ProcessesSlot DEF SlotsFit
  <2> QED BY <2>1, <2>2, <2>3 DEF SlotsFit, Taken, Outside
<1>4. ASSUME ~SelectSlate, ~ClaimSlate,
             \A s \in Slots : ~AgentFinishes(s) /\ ~ProcessSlot(s)
      PROVE  SlotsFit'
  <2>1. slot' = slot \/ slot' = IdleSlots BY <1>4, OnlySlotActions
  <2>2. pc' \in Outside => slot' = IdleSlots \/ (slot' = slot /\ pc \in Outside)
    BY <1>4, <2>1, SlotsLeave
  <2>3. pc' = "claim" => pc = "claim" /\ slot' = slot
    BY <1>4, ClaimFollowsSelection
  <2>4. CASE slot' = IdleSlots
    BY <2>4, IdleSlotsIdle DEF SlotsFit, Taken
  <2>5. slot' = slot /\ pc' # "run" => \A s \in Slots : slot'[s].state # "running"
    BY RunEnds, IdleSlotsIdle DEF SlotsFit, Running
  <2>6. CASE slot' = slot /\ (pc' \in Outside => pc \in Outside)
    BY <2>3, <2>5, <2>6 DEF SlotsFit, Taken
  <2> QED BY <2>1, <2>2, <2>4, <2>6
<1> QED BY <1>1, <1>2, <1>3, <1>4

LEMMA SlotsFitInvariant == Spec => []SlotsFit
<1>1. Init => SlotsFit BY IdleSlotsIdle DEF Init, SlotsFit, Taken, Outside
<1>2. TypeInv /\ SlotsFit /\ [Next]_vars => SlotsFit'
  <2>1. CASE Next BY <2>1, SlotsFitStep, ConstantsAssumption
  <2>2. CASE UNCHANGED vars BY <2>2 DEF vars, wave, SlotsFit, Taken
  <2> QED BY <2>1, <2>2
<1> QED BY <1>1, <1>2, TypeInvariant, PTL DEF Spec

-----------------------------------------------------------------------------
(* Retries.                                                                *)

WithinBudget(t) == MaxRetries > 0 => fails[t] < MaxRetries

\* An open row has retries left, and so has a row of the wave that is done, since
\* completing it cleared its count: a failed merge may open that one again.  The
\* failures of a wave are counted on rows that are in_progress, which is what lets
\* auto-block park them: a row of the wave is not put back to todo before.
BudgetSound ==
  /\ \A t \in Tasks : status[t] \in Open => WithinBudget(t)
  /\ pc = "claim" => \A s \in Slots : Taken(s) => status[slot[s].task] = "todo"
  /\ pc \in {"run", "process", "account", "transient", "track"} =>
       \A s \in Slots : Taken(s) => status[slot[s].task] # "todo"
  /\ pc \in {"run", "process", "account", "transient", "track", "merge",
             "reconcile", "terminal"} =>
       \A s \in Slots : Taken(s) /\ status[slot[s].task] = "done"
                          => WithinBudget(slot[s].task)
  /\ pc = "settle" =>
       \A m \in outcome.failed : m.task \in Tasks /\ status[m.task] = "done"
                                   => WithinBudget(m.task)

\* Nobody reopens a row: no operator, no tag of an agent, and no overflow, which
\* hands its row back before the failure is counted.
NobodyReopens ==
  /\ MaxOps = 0
  /\ \A r \in AgentResults : r.outcome # "overflow" /\ r.tag \notin {"unblock", "reset"}

\* A step that leaves the failure counts alone keeps the budget if it opens only
\* rows within it.
LEMMA BudgetOutside ==
  ASSUME BudgetSound, fails' = fails, pc' \in Outside,
         \A t \in Tasks : status'[t] \in Open => status[t] \in Open \/ WithinBudget(t)
  PROVE  BudgetSound'
BY DEF BudgetSound, WithinBudget, Outside

\* Its counterpart for a step inside a wave that keeps the slots' tasks.
LEMMA BudgetInside ==
  ASSUME BudgetSound, fails' = fails, status' = status, pc \notin Outside,
         pc # "claim", pc # "settle", pc' # "claim", pc' # "settle",
         pc \in {"merge", "reconcile", "terminal"}
           => pc' \in {"merge", "reconcile", "terminal"},
         pc \in PCs,
         \A s \in Slots : Taken(s)' => Taken(s) /\ slot'[s].task = slot[s].task
  PROVE  BudgetSound'
BY DEF BudgetSound, WithinBudget, Outside, PCs

\* The table in the steps of the coordinator that close rows or hand claims back.
LEMMA ClosedOrHandedBack ==
  ASSUME NEW st \in [Tasks -> Statuses], NEW S, NEW t \in Tasks
  PROVE  /\ Reclaim(st, S)[t] \in Open => st[t] \in Open
         /\ SetDone(st, S)[t] \in Open => st[t] \in Open
         /\ SetDone(st, S)[t] = IF t \in S THEN "done" ELSE st[t]
BY DEF Reclaim, Reopen, SetDone, Open

\* A tag that agents may give leaves an open row open or closes it.
LEMMA TagsClose ==
  ASSUME NEW r, r.tag \notin {"unblock", "reset"}, NEW u, NEW st
  PROVE  TagTargets(r.tag, u, st) \cap Open = {}
BY DEF TagTargets, Open

LEMMA DoneAlone ==
  ASSUME NEW tag, NEW u, NEW st, "done" \in TagTargets(tag, u, st)
  PROVE  TagTargets(tag, u, st) = {"done"}
BY DEF TagTargets

LEMMA BudgetProcess ==
  ASSUME ConstantsAssumption, TypeInv, SlotsFit, BudgetSound, NobodyReopens,
         NEW s \in Slots, ProcessSlot(s)
  PROVE  BudgetSound'
<1> DEFINE v == slot[s].task
           r == slot[s].result
           u == About(s)
           target == TagTargets(r.tag, u, status)
<1>1. pc = "process" /\ pc' = "process" BY DEF ProcessSlot
<1>2. /\ status \in [Tasks -> Statuses] /\ fails \in [Tasks -> Nat]
      /\ v \in Tasks /\ u \in Tasks
  <2>1. slot[s].state # "idle" BY ProcessesSlot
  <2> QED BY <2>1, ProcessedSlotTypes DEF About, TypeInv, TypeOK, DbTypeOK
<1>3. r.outcome # "overflow" /\ r.tag \notin {"unblock", "reset"}
  BY DEF SlotsFit, NobodyReopens, Interrupted
<1>4. OverflowApplied(v, r, status) = {status}
  BY <1>3 DEF OverflowApplied
<1>5. /\ status' = IF target = {} THEN status
                   ELSE [status EXCEPT ![u] = CHOOSE x \in target : TRUE]
      /\ fails' = ClearFails(status, IF target = {"done"} THEN {u} ELSE {})
  BY <1>4, ProcessesRows
<1>6. target \cap Open = {} /\ target \subseteq Statuses
  BY <1>3, TagsClose, TagTargetsType
<1>7. \A t \in Tasks :
        /\ status'[t] = status[t] \/ status'[t] \notin Open
        /\ fails'[t] \in {fails[t], 0}
        /\ status'[t] = "done" /\ status[t] # "done" => fails'[t] = 0
  <2> HIDE DEF u
  <2> TAKE t \in Tasks
  <2>1. fails'[t] = IF t \in (IF target = {"done"} THEN {u} ELSE {}) /\ status[t] # "done"
                    THEN 0 ELSE fails[t]
    BY <1>5 DEF ClearFails
  <2>2. CASE target = {} BY <1>5, <2>1, <2>2
  <2>3. CASE target # {}
    <3> DEFINE x == CHOOSE y \in target : TRUE
    <3>1. x \in target BY <2>3
    <3>2. status' = [status EXCEPT ![u] = x] BY <1>5, <2>3
    <3>3. x \notin Open BY <1>6, <3>1
    <3>4. x = "done" => target = {"done"}
      BY <3>1, DoneAlone
    <3> HIDE DEF x, target
    <3> QED BY <1>2, <2>1, <3>2, <3>3, <3>4
  <2> QED BY <2>2, <2>3
<1>8. \A e \in Slots : /\ slot'[e].task = slot[e].task
                       /\ Taken(e)' <=> Taken(e)
  BY ProcessesSlot DEF Taken
<1>9. \A e \in Slots : Taken(e) => slot[e].task \in Tasks
  BY DEF TypeInv, WaveShape, Taken
<1>10. \A t \in Tasks : WithinBudget(t) => WithinBudget(t)'
  <2> SUFFICES ASSUME NEW t \in Tasks, MaxRetries > 0, fails[t] < MaxRetries
               PROVE  fails'[t] < MaxRetries
    BY DEF WithinBudget
  <2> QED BY <1>2, <1>7 DEF ConstantsAssumption
<1>11. \A t \in Tasks : fails'[t] = 0 => WithinBudget(t)'
  BY DEF WithinBudget, ConstantsAssumption
<1>12. \A t \in Tasks : status'[t] \in Open => WithinBudget(t)'
  BY <1>7, <1>10 DEF BudgetSound
<1>13. \A e \in Slots : Taken(e)' => status'[slot'[e].task] # "todo"
  BY <1>1, <1>7, <1>8, <1>9 DEF BudgetSound, Open
<1>14. ASSUME NEW e \in Slots, NEW t \in Tasks, Taken(e), t = slot[e].task,
              status'[t] = "done"
       PROVE  WithinBudget(t)'
  <2>1. CASE status[t] = "done" BY <1>1, <1>14, <1>10, <2>1 DEF BudgetSound
  <2>2. CASE status[t] # "done" BY <1>7, <1>14, <1>11, <2>2
  <2> QED BY <2>1, <2>2
<1>15. \A e \in Slots : Taken(e)' /\ status'[slot'[e].task] = "done"
          => (MaxRetries > 0 => fails'[slot'[e].task] < MaxRetries)
  BY <1>8, <1>9, <1>14 DEF WithinBudget
<1> QED BY <1>1, <1>12, <1>13, <1>15 DEF BudgetSound, WithinBudget

\* A step to the end of a wave opens rows within the budget only, those of failed
\* merges included.
LEMMA BudgetToSettle ==
  ASSUME BudgetSound, fails' = fails, pc' = "settle",
         \A t \in Tasks : status'[t] \in Open => status[t] \in Open,
         \A m \in outcome'.failed :
           m.task \in Tasks /\ status'[m.task] = "done" => WithinBudget(m.task)
  PROVE  BudgetSound'
BY DEF BudgetSound, WithinBudget

LEMMA BudgetTrack ==
  ASSUME ConstantsAssumption, TypeInv, BudgetSound, TrackFailures PROVE BudgetSound'
<1>1. pc = "track" /\ pc' = "merge" /\ slot' = slot BY DEF TrackFailures
<1>2. status \in [Tasks -> Statuses] /\ fails \in [Tasks -> Nat] /\ MaxRetries \in Nat
  BY DEF TypeInv, TypeOK, DbTypeOK, ConstantsAssumption
<1>3. PICK failing :
        /\ \A t \in failing : \E s \in Slots : Taken(s) /\ slot[s].task = t
                                              /\ status[t] \in Open
        /\ fails' = [t \in Tasks |-> IF t \in failing THEN fails[t] + 1 ELSE fails[t]]
        /\ status' = [t \in Tasks |->
                        IF /\ t \in failing /\ ShouldAutoBlock(fails[t] + 1)
                           /\ status[t] = "in_progress"
                        THEN "blocked" ELSE status[t]]
  <2> DEFINE S == {p \in Processed :
                     /\ slot[p].live \notin
                          {"completed", "empty", "rate_limit", "auth_failure"}
                     /\ status[slot[p].task] \in Open}
             failing == {slot[s].task : s \in S}
  <2>1. \A t \in failing : \E s \in Slots : Taken(s) /\ slot[s].task = t
                                            /\ status[t] \in Open
    BY DEF Processed, Taken
  <2> QED BY <2>1 DEF TrackFailures
<1>4. \A t \in Tasks : status'[t] \in Open => WithinBudget(t)'
  <2> SUFFICES ASSUME NEW t \in Tasks, status'[t] \in Open, MaxRetries > 0
               PROVE  fails'[t] < MaxRetries
    BY DEF WithinBudget
  <2>1. CASE t \notin failing BY <1>2, <1>3, <2>1 DEF BudgetSound, WithinBudget
  <2>2. CASE t \in failing
    <3>1. status[t] = "in_progress" BY <1>1, <1>3, <2>2 DEF BudgetSound, Open
    <3>2. ~ShouldAutoBlock(fails[t] + 1) BY <1>3, <2>2, <3>1 DEF Open
    <3> QED BY <1>2, <1>3, <2>2, <3>2 DEF ShouldAutoBlock
  <2> QED BY <2>1, <2>2
<1>5. \A s \in Slots : Taken(s) /\ status'[slot[s].task] = "done"
         => (MaxRetries > 0 => fails'[slot[s].task] < MaxRetries)
  <2> SUFFICES ASSUME NEW s \in Slots, Taken(s), NEW t \in Tasks, t = slot[s].task,
                      status'[t] = "done", MaxRetries > 0
               PROVE  fails'[t] < MaxRetries
    BY DEF TypeInv, WaveShape, Taken
  <2>1. status[t] = "done" BY <1>3
  <2>2. t \notin failing BY <1>3, <2>1 DEF Open
  <2> QED BY <1>1, <1>3, <2>1, <2>2 DEF BudgetSound, WithinBudget
<1> QED BY <1>1, <1>4, <1>5 DEF BudgetSound, WithinBudget, Taken

LEMMA BudgetReconcile ==
  ASSUME ConstantsAssumption, TypeInv, BudgetSound, PostMergeReconcile PROVE BudgetSound'
<1>1. pc = "reconcile" /\ pc' = "terminal" /\ slot' = slot BY DEF PostMergeReconcile
<1>2. status \in [Tasks -> Statuses] /\ fails \in [Tasks -> Nat]
  BY DEF TypeInv, TypeOK, DbTypeOK
<1>3. PICK R : status' = SetDone(status, R) /\ fails' = ClearFails(status, R)
  BY DEF PostMergeReconcile
<1>4. \A t \in Tasks : /\ status'[t] = IF t \in R THEN "done" ELSE status[t]
                       /\ fails'[t] = IF t \in R /\ status[t] # "done" THEN 0 ELSE fails[t]
  BY <1>3 DEF SetDone, ClearFails
<1>5. \A t \in Tasks : status'[t] \in Open => WithinBudget(t)'
  BY <1>4 DEF BudgetSound, WithinBudget, Open
<1>6. ASSUME NEW s \in Slots, Taken(s), NEW t \in Tasks, t = slot[s].task,
             status'[t] = "done", MaxRetries > 0
      PROVE  fails'[t] < MaxRetries
  BY <1>1, <1>4, <1>6 DEF BudgetSound, WithinBudget, ConstantsAssumption
<1>7. \A s \in Slots : Taken(s) => slot[s].task \in Tasks
  BY DEF TypeInv, WaveShape, Taken
<1> QED BY <1>1, <1>5, <1>6, <1>7 DEF BudgetSound, WithinBudget, Taken

LEMMA BudgetStep ==
  ASSUME ConstantsAssumption, NobodyReopens, TypeInv, SlotsFit, BudgetSound, Next
  PROVE  BudgetSound'
<1>a. status \in [Tasks -> Statuses] /\ ops \in Nat /\ pc \in PCs
  BY DEF TypeInv, TypeOK, DbTypeOK, EnvTypeOK, RunTypeOK
<1>b. \A s \in Slots : Taken(s) => slot[s].task \in Tasks
  BY DEF TypeInv, WaveShape, Taken
<1>1. CASE \/ StartLoop \/ BeginIteration
  <2>1. fails' = fails /\ pc' \in Outside BY <1>1 DEF StartLoop, BeginIteration, Outside
  <2>2. \A t \in Tasks : Reclaim(status, Tasks)[t] \in Open => status[t] \in Open
    BY <1>a, ClosedOrHandedBack
  <2>3. Reclaim(status, Tasks) \in [Tasks -> Statuses] BY <1>a, UpdatesType
  <2>4. \A t \in Tasks : status'[t] \in Open => status[t] \in Open
    BY <1>1, <1>a, <2>2, <2>3, ClosedOrHandedBack DEF StartLoop, BeginIteration
  <2> QED BY <2>1, <2>4, BudgetOutside
<1>2. CASE ReconcileStaleSlots \/ LimitReached \/ DeadlineReached
  <2>1. fails' = fails /\ status' = status /\ pc' \in Outside
    BY <1>2 DEF ReconcileStaleSlots, LimitReached, DeadlineReached, Leave, db, Outside
  <2> QED BY <2>1, BudgetOutside
<1>3. CASE BeginWave \/ QuotaGateStops
  <2>1. fails' = fails /\ status' = status
    BY <1>3 DEF BeginWave, QuotaGateStops, db
  <2>2. pc' = "select" \/ (pc' = "settle" /\ outcome'.failed = {})
    BY <1>3 DEF BeginWave, QuotaGateStops, Return, SignalEnds, Outcome
  <2> QED BY <2>1, <2>2, BudgetOutside, BudgetToSettle DEF Outside
<1>4. CASE SelectSlate
  <2>1. /\ fails' = fails /\ status' = status /\ pc' = "claim"
    BY <1>4 DEF SelectSlate, db
  <2>2. \A s \in Slots : slot'[s].state # "idle" => status[slot'[s].task] = "todo"
    BY <1>4, SelectsFree DEF Free, Eligible
  <2> QED BY <2>1, <2>2 DEF BudgetSound, WithinBudget, Taken
<1>5. CASE EphemeralDeadlock
  <2>1. fails' = fails /\ status' = status /\ pc' = "settle"
    BY <1>5 DEF EphemeralDeadlock, Return, db
  <2>2. \A m \in outcome'.failed : m.task = NoTask
    BY <1>5 DEF EphemeralDeadlock, Return, Outcome
  <2> QED BY <2>1, <2>2, BudgetToSettle DEF ConstantsAssumption
<1>6. CASE NoEligibleTasks
  <2>1. fails' = fails /\ pc' = "settle" /\ outcome'.failed = {}
    BY <1>6 DEF NoEligibleTasks, Return, NoOutcome, Outcome
  <2>2. \/ status' = status
        \/ status' = Reclaim(SetDone(status, Synced(status)), Tasks)
    BY <1>6 DEF NoEligibleTasks
  <2>3. SetDone(status, Synced(status)) \in [Tasks -> Statuses] BY <1>a, UpdatesType
  <2>4. \A t \in Tasks : status'[t] \in Open => status[t] \in Open
    BY <1>a, <2>2, <2>3, ClosedOrHandedBack
  <2> QED BY <2>1, <2>4, BudgetToSettle
<1>q. CASE QuotaEmpty
  <2>1. /\ fails' = fails /\ pc' = "settle"
        /\ \E o1, o2, o3 \in BOOLEAN, o4 \in {NoTerminal, Stop(0, "quota"),
                                           Stop(130, "stop during wait")} :
             outcome' = Outcome(o1, o2, o3, o4, {})
    BY <1>q DEF QuotaEmpty, Return, Retry
  <2>3. \A o1, o2, o3, o4 : Outcome(o1, o2, o3, o4, {}).failed = {} BY DEF Outcome
  <2>4. outcome'.failed = {} BY <2>1, <2>3
  <2>2. \A t \in Tasks : status'[t] \in Open => status[t] \in Open
    BY <1>a, <1>q, ClosedOrHandedBack DEF QuotaEmpty
  <2> QED BY <2>1, <2>2, <2>4, BudgetToSettle
<1>7. CASE ClaimSlate
  <2>1. fails' = fails /\ pc = "claim" /\ pc' = "run" BY <1>7 DEF ClaimSlate
  <2>2. \A t \in Tasks : /\ status'[t] \in {status[t], "in_progress"}
                         /\ status'[t] \in Open => status[t] \in Open
                         /\ (\E s \in Slots : Taken(s) /\ slot[s].task = t)
                              => status'[t] = "in_progress"
    <3> TAKE t \in Tasks
    <3> DEFINE won == {s \in Selected : status[slot[s].task] \in Open}
    <3>1. status'[t] = IF \E s \in won : slot[s].task = t THEN "in_progress" ELSE status[t]
      BY <1>7 DEF ClaimSlate
    <3>2. \A s \in Slots : Taken(s) => s \in won
      BY <2>1 DEF BudgetSound, SlotsFit, Taken, Selected, Open
    <3> QED BY <3>1, <3>2
  <2>3. \A s \in Slots : /\ slot'[s].task = slot[s].task
                         /\ slot'[s].state # "idle" => slot[s].state # "idle"
    BY <1>7, ClaimsSlots
  <2>4. \A s \in Slots : slot'[s].state # "idle" =>
          Taken(s) /\ slot[s].task \in Tasks
          /\ status'[slot'[s].task] = "in_progress"
    BY <1>b, <2>2, <2>3 DEF Taken
  <2> QED BY <2>1, <2>2, <2>4 DEF BudgetSound, WithinBudget, Taken
<1>8. ASSUME NEW s \in Slots, AgentFinishes(s) PROVE BudgetSound'
  <2>1. fails' = fails /\ status' = status /\ pc = "run" /\ pc' = "run"
    BY <1>8 DEF AgentFinishes
  <2>2. \A e \in Slots : Taken(e)' => Taken(e) /\ slot'[e].task = slot[e].task
    BY <1>8, AgentFinishesSlot DEF Taken
  <2> QED BY <2>1, <2>2, BudgetInside, <1>a DEF Outside
<1>9. CASE JoinWave
  <2>1. fails' = fails /\ status' = status /\ slot' = slot /\ pc = "run"
    BY <1>9 DEF JoinWave, db
  <2>2. CASE pc' = "process"
    BY <1>a, <2>1, <2>2, BudgetInside DEF Outside, Taken
  <2>3. CASE pc' # "process"
    <3>1. pc' = "settle" /\ \A m \in outcome'.failed : m.task = NoTask
      BY <1>9, <2>3 DEF JoinWave, Return, Outcome
    <3> QED BY <2>1, <3>1, BudgetToSettle DEF ConstantsAssumption
  <2> QED BY <2>2, <2>3
<1>10. ASSUME NEW s \in Slots, ProcessSlot(s) PROVE BudgetSound'
  BY <1>10, BudgetProcess
<1>11. ASSUME NEW s \in Slots, SkipSlot(s) \/ MergeSlot(s) PROVE BudgetSound'
  <2>1. /\ fails' = fails /\ status' = status /\ slot' = slot /\ pc' = pc
        /\ pc \in {"process", "merge"}
    BY <1>11 DEF SkipSlot, MergeSlot, db
  <2> QED BY <1>a, <2>1, BudgetInside DEF Outside, Taken
<1>12. CASE ProcessingDone \/ FastForward
  <2>1. /\ fails' = fails /\ status' = status /\ slot' = slot
        /\ \/ pc = "process" /\ pc' = "account"
           \/ pc = "merge" /\ pc' = "reconcile"
    BY <1>12 DEF ProcessingDone, FastForward, db, wave
  <2> QED BY <1>a, <2>1, BudgetInside DEF Outside, Taken
<1>13. CASE ReactToRateLimit \/ ReactToTransient
  <2>1. /\ fails' = fails /\ slot' = slot /\ pc \in {"account", "transient"}
        /\ \/ pc' \in {"transient", "track"} /\ status' = status
           \/ /\ pc' = "settle" /\ outcome'.failed = {}
              /\ status' = Reclaim(status, Tasks)
    <3>1. \A a, b, c, d : Outcome(a, b, c, d, {}).failed = {} BY DEF Outcome
    <3>2. CASE ReactToRateLimit
      BY <3>1, <3>2 DEF ReactToRateLimit, Return, Retry
    <3>3. CASE ReactToTransient
      BY <3>1, <3>3 DEF ReactToTransient, Return, Retry
    <3> QED BY <1>13, <3>2, <3>3
  <2>2. CASE pc' \in {"transient", "track"} /\ status' = status
    BY <1>a, <2>1, <2>2, BudgetInside DEF Outside, Taken
  <2>3. CASE pc' = "settle" /\ outcome'.failed = {} /\ status' = Reclaim(status, Tasks)
    <3>1. \A t \in Tasks : status'[t] \in Open => status[t] \in Open
      BY <1>a, <2>3, ClosedOrHandedBack
    <3> QED BY <2>1, <2>3, <3>1, BudgetToSettle
  <2> QED BY <2>1, <2>2, <2>3
<1>14. CASE TrackFailures BY <1>14, BudgetTrack
<1>15. CASE PostMergeReconcile BY <1>15, BudgetReconcile
<1>16. CASE EndWave
  <2>1. fails' = fails /\ status' = status /\ pc = "terminal" /\ pc' = "settle"
    BY <1>16 DEF EndWave, Return, db
  <2>2. outcome'.failed = {[slot |-> s, task |-> slot[s].task] : s \in merge.failed}
    BY <1>16 DEF EndWave, Return, Outcome
  <2>3. merge.failed \subseteq Slots
    BY SlotsType DEF TypeInv, TypeOK, WaveTypeOK, MergeRecords
  <2>4. \A s \in Slots : slot[s].task \in Tasks /\ status[slot[s].task] = "done"
                           => WithinBudget(slot[s].task)
    BY <2>1 DEF BudgetSound, SlotsFit, ConstantsAssumption
  <2>5. ASSUME NEW m \in outcome'.failed, m.task \in Tasks, status'[m.task] = "done"
        PROVE  WithinBudget(m.task)
    <3>1. PICK s \in Slots : m.task = slot[s].task BY <2>2, <2>3, <2>5
    <3> QED BY <2>1, <2>4, <2>5, <3>1
  <2> QED BY <2>1, <2>5, BudgetToSettle
<1>17. CASE Settle
  <2>1. fails' = fails /\ pc = "settle" /\ pc' \in Outside
    BY <1>17 DEF Settle, Leave, Outside
  <2>2. \/ status' = status
        \/ status' = Reopen(status, {x.task : x \in outcome.failed},
                            {"in_progress", "done"})
    BY <1>17 DEF Settle, ReopenedByMergeFailure
  <2>3. \A t \in Tasks : status'[t] \in Open => status[t] \in Open \/ WithinBudget(t)
    <3> SUFFICES ASSUME NEW t \in Tasks, status'[t] \in Open, status[t] \notin Open
                 PROVE  WithinBudget(t)
      OBVIOUS
    <3>1. status[t] = "done" /\ \E m \in outcome.failed : m.task = t
      BY <2>2 DEF Reopen, Open
    <3> QED BY <2>1, <3>1 DEF BudgetSound
  <2> QED BY <2>1, <2>3, BudgetOutside
<1>18. CASE ExitClassify \/ ExitReclaim \/ ExitCleanup \/ Kill
  <2>1. /\ fails' = fails /\ pc' \in Outside
        /\ status' = status \/ status' = Reclaim(status, pending)
    BY <1>18 DEF ExitClassify, ExitReclaim, ExitCleanup, Kill, Forget, db, Outside
  <2>2. \A t \in Tasks : status'[t] \in Open => status[t] \in Open
    BY <1>a, <2>1, ClosedOrHandedBack
  <2> QED BY <2>1, <2>2, BudgetOutside
<1>19. CASE DropStopFile \/ Signal
  BY <1>19 DEF DropStopFile, Signal, db, wave, BudgetSound, WithinBudget, Taken
<1>20. ASSUME NEW t \in Tasks, OperatorCommand(t) PROVE FALSE
  BY <1>20, <1>a DEF OperatorCommand, NobodyReopens
<1> QED
  BY <1>q, <1>1, <1>2, <1>3, <1>4, <1>5, <1>6, <1>7, <1>8, <1>9, <1>10, <1>11, <1>12, <1>13,
     <1>14, <1>15, <1>16, <1>17, <1>18, <1>19, <1>20 DEF Next, Coordinator, Agents

\* Unless somebody reopens a row, or an overflow hands it back before its failure is
\* counted, no task is offered to another agent once it has failed max_retries times
\* in a row, however often the loop is killed and whichever merges fail.
THEOREM RetriesEnd ==
  ASSUME NobodyReopens PROVE Spec => []RetryBudgetKept
<1>1. Init => BudgetSound
  BY DEF Init, BudgetSound, WithinBudget, ConstantsAssumption
<1>2. TypeInv /\ SlotsFit /\ BudgetSound /\ [Next]_vars => BudgetSound'
  <2>1. CASE Next BY <2>1, BudgetStep, ConstantsAssumption
  <2>2. CASE UNCHANGED vars
    BY <2>2 DEF vars, db, wave, BudgetSound, WithinBudget, Taken
  <2> QED BY <2>1, <2>2
<1>3. BudgetSound => RetryBudgetKept
  BY DEF BudgetSound, WithinBudget, RetryBudgetKept, InStatus
<1> QED BY <1>1, <1>2, <1>3, TypeInvariant, SlotsFitInvariant, PTL DEF Spec

-----------------------------------------------------------------------------
(* Dependencies.                                                           *)

LEMMA WorkKept ==
  ASSUME Next, \A s \in Slots : ~AgentFinishes(s) PROVE work' = work
<1>1. CASE \/ StartLoop \/ ReconcileStaleSlots \/ LimitReached
           \/ DeadlineReached \/ BeginIteration \/ BeginWave \/ QuotaGateStops
           \/ SelectSlate \/ EphemeralDeadlock \/ NoEligibleTasks \/ QuotaEmpty
           \/ ClaimSlate \/ JoinWave
  BY <1>1 DEF StartLoop, ReconcileStaleSlots, LimitReached, DeadlineReached,
              BeginIteration, BeginWave, QuotaGateStops, SelectSlate,
              EphemeralDeadlock, NoEligibleTasks, QuotaEmpty, ClaimSlate, JoinWave, git
<1>2. CASE \/ ProcessingDone \/ ReactToRateLimit \/ ReactToTransient
           \/ TrackFailures \/ FastForward \/ PostMergeReconcile \/ EndWave
           \/ Settle
  BY <1>2 DEF ProcessingDone, ReactToRateLimit, ReactToTransient,
              TrackFailures, FastForward, PostMergeReconcile, EndWave, Settle,
              git
<1>3. CASE \/ ExitClassify \/ ExitReclaim \/ ExitCleanup \/ Kill
           \/ DropStopFile \/ Signal \/ \E t \in Tasks : OperatorCommand(t)
  BY <1>3 DEF ExitClassify, ExitReclaim, ExitCleanup, Kill, DropStopFile,
              Signal, OperatorCommand, git
<1>4. ASSUME NEW s \in Slots, ProcessSlot(s) \/ SkipSlot(s) \/ MergeSlot(s)
      PROVE  work' = work
  BY <1>4 DEF ProcessSlot, SkipSlot, MergeSlot, git
<1> QED BY <1>1, <1>2, <1>3, <1>4 DEF Next, Coordinator, Agents

\* What an agent's commit changes: its own task's number, and the tree it works in.
LEMMA AgentWork ==
  ASSUME ConstantsAssumption, TypeInv, NEW s \in Slots, AgentFinishes(s)
  PROVE  /\ \A t \in Tasks : t # slot[s].task => work'[t] = work[t]
         /\ slot'[s].result.commit = "none" => work' = work
         /\ slot'[s].result.commit # "none" =>
              \E c \in Base(s)' : c.task = slot[s].task /\ c.n = work'[slot[s].task]
         /\ main \subseteq main'
         /\ \A e \in Slots : Base(e) \subseteq Base(e)'
<1>1. /\ work \in [Tasks -> Nat] /\ slot[s] \in SlotRecords
      /\ slot \in [Slots -> SlotRecords] /\ slot[s].task \in Tasks
  BY ProcessedSlotTypes DEF TypeInv, TypeOK, GitTypeOK, WaveTypeOK, AgentFinishes, Running
<1>2. PICK r \in AgentResults \cup {Interrupted} :
        LET t == slot[s].task
            new == IF r.commit = "none" THEN {}
                   ELSE {[task |-> t, n |-> work[t] + 1, marked |-> r.commit = "marked"]}
        IN  /\ slot' = [slot EXCEPT ![s].state = "finished", ![s].result = r,
                                    ![s].live = r.outcome]
            /\ work' = [work EXCEPT ![t] = IF r.commit = "none" THEN @ ELSE @ + 1]
            /\ main' = IF s = 0 THEN main \cup new ELSE main
            /\ branch' = [e \in Ephemeral |->
                            IF e = s THEN branch[e] \cup new ELSE branch[e]]
  BY DEF AgentFinishes
<1> DEFINE t == slot[s].task
           x == [task |-> t, n |-> work[t] + 1, marked |-> r.commit = "marked"]
<1>3. slot'[s].result = r BY <1>1, <1>2 DEF SlotRecords
<1>4. \A u \in Tasks : work'[u] = IF u = t /\ r.commit # "none" THEN work[u] + 1 ELSE work[u]
  BY <1>1, <1>2
<1>5. \A e \in Slots : e # 0 => e \in Ephemeral BY DEF Ephemeral
<1>6. main \subseteq main' /\ \A e \in Slots : Base(e) \subseteq Base(e)'
  BY <1>2, <1>5 DEF Base
<1>7. r.commit = "none" => work' = work
  BY <1>1, <1>2
<1>8. ASSUME r.commit # "none"
      PROVE  \E c \in Base(s)' : c.task = t /\ c.n = work'[t]
  <2>1. work'[t] = work[t] + 1 BY <1>1, <1>4, <1>8
  <2>2. x \in Base(s)'
    <3> HIDE DEF x
    <3> QED BY <1>2, <1>5, <1>8 DEF Base, x
  <2>3. x.task = t /\ x.n = work[t] + 1 OBVIOUS
  <2> QED BY <2>1, <2>2, <2>3
<1> QED BY <1>3, <1>4, <1>6, <1>7, <1>8

\* No step of git fails and no account limits, so every wave merges all its slots;
\* a wave that found the database corrupted does not, but then no other run follows.
WavesMerge ==
  /\ Faults \subseteq {"prd", "pop"}
  /\ \A r \in AgentResults : r.outcome \notin Throttled
  /\ CodexWaves => MaxStarts <= 1

\* The run may have ended on a corrupted database.
Corrupted ==
  /\ CodexWaves
  /\ \/ pc \in {"classify", "reclaim", "cleanup"}
     \/ pc = "down" /\ starts > 0
     \/ pc = "settle" /\ outcome.terminal.reason = "corruption" /\ ~outcome.retry

\* Every slot's branch is the loop branch, but in a wave, after a crash and before a
\* run.
Level ==
  pc \notin {"down", "stale", "run", "process", "account", "transient", "track",
             "merge"} => \A e \in Ephemeral : branch[e] = main

\* No commit that is the latest of its task is lost.
LatestKept == \A t \in Tasks : work[t] > 0 => HasLatest(t, AllCommits)

\* No task of a wave depends on another one.
Apart ==
  pc \in {"claim", "run"} =>
    \A s, e \in Slots : Taken(s) /\ Taken(e) =>
      slot[e].task \notin DependsOn[slot[s].task]

\* While agents work, every slot's tree has the latest of every task that is not
\* worked on.
OthersVisible ==
  pc = "run" =>
    \A t \in Tasks : work[t] > 0 /\ (\A e \in Slots : Taken(e) => slot[e].task # t)
      => \A s \in Slots : HasLatest(t, Base(s))

\* The merge phase has merged the slots before its cursor.
Merging ==
  pc = "merge" => /\ ~merge.poisoned
                  /\ \A e \in Ephemeral : e < cursor => e \in merge.merged

InSync == dirty = {} /\ Level /\ LatestKept /\ Apart /\ OthersVisible /\ Merging
Synchronised == (pc # "down" => starts > 0) /\ (Corrupted \/ InSync)

LEMMA StartsCounted ==
  ASSUME TypeInv, Next, pc # "down" => starts > 0 PROVE pc' # "down" => starts' > 0
<1>a. starts \in Nat BY DEF TypeInv, TypeOK, EnvTypeOK
<1>1. CASE StartLoop BY <1>1, <1>a DEF StartLoop
<1>2. CASE \/ LimitReached \/ DeadlineReached \/ BeginIteration
           \/ BeginWave \/ QuotaGateStops \/ SelectSlate \/ EphemeralDeadlock
           \/ NoEligibleTasks \/ QuotaEmpty \/ ReconcileStaleSlots \/ ClaimSlate \/ JoinWave
           \/ ProcessingDone
  BY <1>2 DEF LimitReached, DeadlineReached, BeginIteration, BeginWave,
       QuotaGateStops, SelectSlate, EphemeralDeadlock, NoEligibleTasks, QuotaEmpty,
       ReconcileStaleSlots, ClaimSlate, JoinWave, ProcessingDone, env
<1>3. CASE \/ ReactToRateLimit \/ ReactToTransient \/ TrackFailures \/ FastForward
           \/ PostMergeReconcile \/ EndWave \/ Settle \/ ExitClassify \/ ExitReclaim
           \/ ExitCleanup \/ Kill
  BY <1>3 DEF ReactToRateLimit, ReactToTransient, TrackFailures, FastForward,
       PostMergeReconcile, EndWave, Settle, ExitClassify, ExitReclaim, ExitCleanup,
       Kill, Forget, env
<1>4. CASE DropStopFile \/ Signal \/ \E t \in Tasks : OperatorCommand(t)
  BY <1>4 DEF DropStopFile, Signal, OperatorCommand
<1>5. ASSUME NEW s \in Slots,
             AgentFinishes(s) \/ ProcessSlot(s) \/ SkipSlot(s) \/ MergeSlot(s)
      PROVE  pc' = pc /\ starts' = starts
  BY <1>5 DEF AgentFinishes, ProcessSlot, SkipSlot, MergeSlot, env
<1> QED BY <1>1, <1>2, <1>3, <1>4, <1>5 DEF Next, Coordinator, Agents

\* A run that ended on a corrupted database stays ended.
LEMMA CorruptedStep ==
  ASSUME ConstantsAssumption, WavesMerge, TypeInv, Next, Corrupted,
         pc # "down" => starts > 0
  PROVE  Corrupted'
<1>a. starts \in Nat /\ MaxStarts \in Nat /\ MaxStarts <= 1 /\ CodexWaves
  BY DEF TypeInv, TypeOK, EnvTypeOK, ConstantsAssumption, WavesMerge, Corrupted
<1>b. pc \in {"classify", "reclaim", "cleanup", "down", "settle"} BY DEF Corrupted
<1>1. CASE StartLoop BY <1>1, <1>a DEF StartLoop, Corrupted
<1>2. CASE Settle
  <2>0. NoTerminal.reason = "none" BY DEF NoTerminal
  <2>1. outcome.terminal # NoTerminal /\ ~outcome.retry
    BY <1>2, <2>0 DEF Settle, Corrupted
  <2> QED BY <1>2, <1>a, <2>1 DEF Settle, Leave, Corrupted
<1>3. CASE ExitClassify \/ ExitReclaim
  BY <1>3, <1>a DEF ExitClassify, ExitReclaim, Corrupted
<1>4. CASE ExitCleanup \/ Kill
  <2>1. pc' = "down" /\ starts' = starts BY <1>4 DEF ExitCleanup, Kill, Forget
  <2> QED BY <1>a, <1>b, <2>1 DEF Corrupted
<1>5. CASE DropStopFile \/ Signal \/ \E t \in Tasks : OperatorCommand(t)
  BY <1>5, <1>a DEF DropStopFile, Signal, OperatorCommand, Corrupted, wave
<1>6. \/ StartLoop \/ Settle \/ ExitClassify \/ ExitReclaim \/ ExitCleanup \/ Kill
      \/ DropStopFile \/ Signal \/ \E t \in Tasks : OperatorCommand(t)
  <2>1. /\ ~ReconcileStaleSlots /\ ~LimitReached /\ ~DeadlineReached /\ ~BeginIteration
        /\ ~BeginWave /\ ~QuotaGateStops /\ ~SelectSlate /\ ~EphemeralDeadlock
        /\ ~NoEligibleTasks /\ ~QuotaEmpty /\ ~ClaimSlate /\ ~JoinWave
    BY <1>b DEF ReconcileStaleSlots, LimitReached, DeadlineReached, BeginIteration,
         BeginWave, QuotaGateStops, SelectSlate, EphemeralDeadlock, NoEligibleTasks, QuotaEmpty,
         ClaimSlate, JoinWave
  <2>2. /\ ~ProcessingDone /\ ~ReactToRateLimit /\ ~ReactToTransient /\ ~TrackFailures
        /\ ~FastForward /\ ~PostMergeReconcile /\ ~EndWave
    BY <1>b DEF ProcessingDone, ReactToRateLimit, ReactToTransient, TrackFailures,
         FastForward, PostMergeReconcile, EndWave
  <2>3. \A s \in Slots : ~AgentFinishes(s) /\ ~ProcessSlot(s) /\ ~SkipSlot(s)
                         /\ ~MergeSlot(s)
    BY <1>b DEF AgentFinishes, ProcessSlot, SkipSlot, MergeSlot
  <2> QED BY <2>1, <2>2, <2>3 DEF Next, Coordinator, Agents
<1> QED BY <1>1, <1>2, <1>3, <1>4, <1>5, <1>6

\* Git changes in few steps: see OnlyGitActions; here with what becomes of pc.
LEMMA DirtyStep ==
  ASSUME Next, WavesMerge, dirty = {} PROVE dirty' = {}
<1>1. CASE \/ StartLoop \/ LimitReached \/ DeadlineReached \/ BeginIteration
           \/ BeginWave \/ QuotaGateStops \/ SelectSlate \/ EphemeralDeadlock
           \/ NoEligibleTasks \/ QuotaEmpty \/ ReconcileStaleSlots \/ ClaimSlate \/ JoinWave
           \/ ProcessingDone
  BY <1>1 DEF StartLoop, LimitReached, DeadlineReached, BeginIteration, BeginWave,
       QuotaGateStops, SelectSlate, EphemeralDeadlock, NoEligibleTasks, QuotaEmpty,
       ReconcileStaleSlots, ClaimSlate, JoinWave, ProcessingDone, git
<1>2. CASE \/ ReactToRateLimit \/ ReactToTransient \/ TrackFailures \/ FastForward
           \/ PostMergeReconcile \/ EndWave \/ Settle \/ ExitClassify \/ ExitReclaim
           \/ ExitCleanup
  BY <1>2 DEF ReactToRateLimit, ReactToTransient, TrackFailures, FastForward,
       PostMergeReconcile, EndWave, Settle, ExitClassify, ExitReclaim, ExitCleanup, git
<1>3. CASE DropStopFile \/ Signal \/ \E t \in Tasks : OperatorCommand(t)
  BY <1>3 DEF DropStopFile, Signal, OperatorCommand, git
<1>4. CASE Kill BY <1>4 DEF Kill, WavesMerge
<1>5. ASSUME NEW s \in Slots, AgentFinishes(s) PROVE dirty' = {}
  BY <1>5 DEF AgentFinishes, WavesMerge
<1>6. ASSUME NEW s \in Slots, ProcessSlot(s) \/ SkipSlot(s) \/ MergeSlot(s)
      PROVE  dirty' = {}
  BY <1>6 DEF ProcessSlot, SkipSlot, MergeSlot, git
<1> QED BY <1>1, <1>2, <1>3, <1>4, <1>5, <1>6 DEF Next, Coordinator, Agents

Unlevel == {"down", "stale", "run", "process", "account", "transient", "track", "merge"}

\* The steps that reach a phase in which the branches are level.
LEMMA LevelReached ==
  ASSUME WavesMerge, SlotsFit, Next, pc \in Unlevel, pc' \notin Unlevel
  PROVE  ReconcileStaleSlots \/ FastForward \/ Corrupted'
<1>1. CASE \/ StartLoop \/ LimitReached \/ DeadlineReached \/ BeginIteration
           \/ BeginWave \/ QuotaGateStops \/ SelectSlate \/ EphemeralDeadlock
           \/ NoEligibleTasks \/ QuotaEmpty \/ ClaimSlate \/ ProcessingDone
  BY <1>1 DEF StartLoop, LimitReached, DeadlineReached, BeginIteration, BeginWave,
       QuotaGateStops, SelectSlate, EphemeralDeadlock, NoEligibleTasks, QuotaEmpty,
       ClaimSlate, ProcessingDone, Unlevel
<1>2. CASE JoinWave
  <2>1. CodexWaves /\ pc' = "settle"
        /\ outcome' = Outcome(TRUE, FALSE, TRUE, Stop(1, "corruption"),
                              {[slot |-> SyntheticSlot, task |-> NoTask]})
    BY <1>2 DEF JoinWave, Return, Unlevel
  <2>2. outcome'.terminal = Stop(1, "corruption") /\ outcome'.retry = FALSE
    BY <2>1 DEF Outcome
  <2>3. Stop(1, "corruption").reason = "corruption" BY DEF Stop
  <2>4. outcome'.terminal.reason = "corruption" BY <2>2, <2>3
  <2> QED BY <2>1, <2>2, <2>4 DEF Corrupted
<1>3. CASE ReactToRateLimit
  <2>1. ~Limited
    BY DEF Limited, Processed, SlotsFit, WavesMerge, Throttled, Interrupted
  <2> QED BY <1>3, <2>1 DEF ReactToRateLimit, Unlevel
<1>4. CASE ReactToTransient
  <2>1. \A s \in Processed : slot[s].live # "transient"
    BY DEF Processed, SlotsFit, WavesMerge, Throttled, Interrupted
  <2> QED BY <1>4, <2>1 DEF ReactToTransient, Unlevel
<1>5. CASE \/ TrackFailures \/ PostMergeReconcile \/ EndWave \/ Settle \/ ExitClassify
           \/ ExitReclaim \/ ExitCleanup \/ Kill
  BY <1>5 DEF TrackFailures, PostMergeReconcile, EndWave, Settle, ExitClassify,
       ExitReclaim, ExitCleanup, Kill, Forget, Unlevel
<1>6. CASE DropStopFile \/ Signal \/ \E t \in Tasks : OperatorCommand(t)
  BY <1>6 DEF DropStopFile, Signal, OperatorCommand
<1>7. ASSUME NEW s \in Slots,
             AgentFinishes(s) \/ ProcessSlot(s) \/ SkipSlot(s) \/ MergeSlot(s)
      PROVE  FALSE
  BY <1>7 DEF AgentFinishes, ProcessSlot, SkipSlot, MergeSlot
<1> QED BY <1>1, <1>2, <1>3, <1>4, <1>5, <1>6, <1>7 DEF Next, Coordinator, Agents

LEMMA LevelStep ==
  ASSUME ConstantsAssumption, WavesMerge, TypeInv, SlotsFit, Next, InSync
  PROVE  Level' \/ Corrupted'
<1> SUFFICES ASSUME pc' \notin Unlevel, ~Corrupted'
             PROVE  \A e \in Ephemeral : branch'[e] = main'
  BY DEF Level, Unlevel
<1>1. CASE ReconcileStaleSlots
  <2>1. "conflict" \notin Faults BY DEF WavesMerge
  <2>2. pc' # "down" BY DEF Unlevel
  <2>3. PICK R \in SUBSET StaleWork :
          /\ R # StaleWork => "conflict" \in Faults
          /\ main' = main \cup UNION {branch[e] : e \in R}
          /\ branch' = [e \in Ephemeral |->
                          IF e \in StaleWork \ R THEN branch[e] ELSE main']
    BY <1>1, <2>2 DEF ReconcileStaleSlots, InSync
  <2> QED BY <2>1, <2>3
<1>2. CASE FastForward
  <2>1. dirty = {} /\ "ff" \notin Faults BY DEF InSync, WavesMerge
  <2>2. branch' = [e \in Ephemeral |-> Advanced(e, merge.merged)] /\ main' = main
    <3>1. PICK stuck \in SUBSET {e \in merge.merged : branch[e] # main} :
            /\ \A e \in stuck : e \in dirty \/ "ff" \in Faults
            /\ branch' = [e \in Ephemeral |-> Advanced(e, merge.merged \ stuck)]
      BY <1>2 DEF FastForward
    <3>2. stuck = {} BY <2>1, <3>1
    <3> QED BY <1>2, <3>1, <3>2 DEF FastForward
  <2>3. \A e \in Ephemeral : e < NumSlots
    BY SlotsType
  <2>4. \A e \in Ephemeral : e \in merge.merged
    BY <1>2, <2>3 DEF FastForward, InSync, Merging
  <2> QED BY <2>2, <2>4 DEF Advanced
<1>3. CASE ~ReconcileStaleSlots /\ ~FastForward
  <2>1. pc \notin Unlevel BY <1>3, LevelReached
  <2>2. \A e \in Ephemeral : branch[e] = main BY <2>1 DEF InSync, Level, Unlevel
  <2>3. \A s \in Slots : ~AgentFinishes(s) /\ ~MergeSlot(s)
    BY <2>1 DEF AgentFinishes, MergeSlot, Unlevel
  <2>4. ~ExitCleanup BY DEF ExitCleanup, Forget, Unlevel
  <2> QED BY <1>3, <2>2, <2>3, <2>4, OnlyGitActions
<1> QED BY <1>1, <1>2, <1>3

LEMMA LatestStep ==
  ASSUME ConstantsAssumption, WavesMerge, TypeInv, Next, ~Corrupted, InSync
  PROVE  LatestKept'
<1> SUFFICES ASSUME NEW t \in Tasks, work'[t] > 0
             PROVE  \E c \in AllCommits' : c.task = t /\ c.n = work'[t]
  BY DEF LatestKept, HasLatest
<1>a. work[t] > 0 => \E c \in AllCommits : c.task = t /\ c.n = work[t]
  BY DEF InSync, LatestKept, HasLatest
<1>1. ASSUME NEW s \in Slots, AgentFinishes(s)
      PROVE  \E c \in AllCommits' : c.task = t /\ c.n = work'[t]
  <2>1. \A e \in Slots : Base(e)' \subseteq AllCommits'
    BY DEF Base, AllCommits, Ephemeral
  <2>2. CASE work'[t] = work[t]
    <3>1. pc # "cleanup" BY <1>1 DEF AgentFinishes
    <3>2. Next BY <1>1 DEF Next, Agents
    <3> QED BY <1>a, <2>2, <3>1, CommitsKept
  <2>3. CASE work'[t] # work[t]
    <3>1. t = slot[s].task /\ slot'[s].result.commit # "none"
      BY <1>1, <2>3, AgentWork
    <3> QED BY <1>1, <2>1, <3>1, AgentWork
  <2> QED BY <2>2, <2>3
<1>2. ASSUME \A s \in Slots : ~AgentFinishes(s)
      PROVE  \E c \in AllCommits' : c.task = t /\ c.n = work'[t]
  <2>1. work' = work BY <1>2, WorkKept
  <2>2. AllCommits \subseteq AllCommits'
    <3>1. CASE pc # "cleanup" BY <3>1, CommitsKept
    <3>2. CASE pc = "cleanup"
      <4>1. \A e \in Ephemeral : branch[e] = main BY <3>2 DEF InSync, Level
      <4>2. main \subseteq main' BY MainGrows
      <4> QED BY <4>1, <4>2 DEF AllCommits
    <3> QED BY <3>1, <3>2
  <2> QED BY <1>a, <2>1, <2>2
<1> QED BY <1>1, <1>2

LEMMA ApartStep ==
  ASSUME ConstantsAssumption, TypeInv, SlotsFit, Next, Apart PROVE Apart'
<1>1. CASE SelectSlate
  <2>1. \A s, e \in Slots :
          slot'[s].state # "idle" /\ slot'[e].state # "idle" =>
            slot'[e].task \notin DependsOn[slot'[s].task]
    <3> SUFFICES ASSUME NEW s \in Slots, NEW e \in Slots, slot'[s].state # "idle",
                        slot'[e].state # "idle"
                 PROVE  slot'[e].task \notin DependsOn[slot'[s].task]
      OBVIOUS
    <3>1. slot'[s].task \in Eligible /\ slot'[e].task \in Eligible
      BY <1>1, SelectsFree DEF Free
    <3>2. status[slot'[e].task] = "todo" BY <3>1 DEF Eligible
    <3>3. \A d \in DependsOn[slot'[s].task] : status[d] # "todo"
      BY <3>1 DEF Eligible, DepsSatisfied
    <3> QED BY <3>2, <3>3
  <2> QED BY <2>1 DEF Apart, Taken
<1>2. CASE ClaimSlate
  <2>1. \A s \in Slots : slot'[s].task = slot[s].task
                         /\ (slot'[s].state # "idle" => slot[s].state # "idle")
    BY <1>2, ClaimsSlots
  <2>2. pc = "claim" BY <1>2 DEF ClaimSlate
  <2> QED BY <2>1, <2>2 DEF Apart, Taken
<1>3. ASSUME NEW s \in Slots, AgentFinishes(s) PROVE Apart'
  <2>1. pc = "run" BY <1>3 DEF AgentFinishes
  <2>2. \A e \in Slots : slot'[e].task = slot[e].task
                         /\ (slot'[e].state # "idle" => slot[e].state # "idle")
    BY <1>3, AgentFinishesSlot
  <2> QED BY <2>1, <2>2 DEF Apart, Taken
<1>4. ASSUME NEW s \in Slots, ProcessSlot(s) PROVE Apart'
  BY <1>4 DEF ProcessSlot, Apart
<1>5. ASSUME ~SelectSlate, ~ClaimSlate,
             \A s \in Slots : ~AgentFinishes(s) /\ ~ProcessSlot(s)
      PROVE  Apart'
  <2>1. pc' \in {"claim", "run"} => pc \in {"claim", "run"}
    BY <1>5, ClaimFollowsSelection, RunFollowsClaim
  <2>2. slot' = slot \/ slot' = IdleSlots BY <1>5, OnlySlotActions
  <2>3. CASE slot' = slot BY <2>1, <2>3 DEF Apart, Taken
  <2>4. CASE slot' = IdleSlots BY <2>4, IdleSlotsIdle DEF Apart, Taken
  <2> QED BY <2>2, <2>3, <2>4
<1> QED BY <1>1, <1>2, <1>3, <1>4, <1>5

LEMMA VisibleStep ==
  ASSUME ConstantsAssumption, TypeInv, Next, InSync PROVE OthersVisible'
<1> SUFFICES ASSUME pc' = "run", NEW t \in Tasks, work'[t] > 0,
                    \A e \in Slots : slot'[e].state # "idle" => slot'[e].task # t,
                    NEW s \in Slots
             PROVE  HasLatest(t, Base(s))'
  BY DEF OthersVisible, Taken
<1>1. CASE ClaimSlate
  <2>1. /\ work' = work /\ main' = main /\ branch' = branch /\ pc = "claim"
    BY <1>1 DEF ClaimSlate, git
  <2>2. \A e \in Ephemeral : branch[e] = main BY <2>1 DEF InSync, Level
  <2>3. AllCommits = main /\ Base(s) = main
    BY <2>2 DEF AllCommits, Base, Ephemeral
  <2>4. HasLatest(t, AllCommits) BY <2>1 DEF InSync, LatestKept
  <2>5. Base(s)' = main BY <2>1, <2>3 DEF Base
  <2> QED BY <2>1, <2>3, <2>4, <2>5 DEF HasLatest
<1>2. ASSUME NEW e \in Slots, AgentFinishes(e) PROVE HasLatest(t, Base(s))'
  <2>1. /\ pc = "run"
        /\ \A i \in Slots : slot'[i].task = slot[i].task
                            /\ (slot[i].state # "idle" => slot'[i].state # "idle")
    BY <1>2, AgentFinishesSlot DEF AgentFinishes
  <2>2. \A i \in Slots : Taken(i) => slot[i].task # t BY <2>1 DEF Taken
  <2>3. slot[e].task # t BY <1>2, <2>2, AgentFinishesSlot DEF Taken
  <2>4. work'[t] = work[t] /\ Base(s) \subseteq Base(s)' BY <1>2, <2>3, AgentWork
  <2>5. HasLatest(t, Base(s)) BY <2>1, <2>2, <2>4 DEF InSync, OthersVisible
  <2> QED BY <2>4, <2>5 DEF HasLatest
<1>3. ASSUME ~ClaimSlate, \A e \in Slots : ~AgentFinishes(e)
      PROVE  HasLatest(t, Base(s))'
  <2>1. pc = "run" /\ slot' = slot /\ main' = main /\ branch' = branch
    BY <1>3, RunFollowsClaim
  <2>2. work' = work BY <1>3, WorkKept
  <2>3. HasLatest(t, Base(s)) BY <2>1, <2>2 DEF InSync, OthersVisible, Taken
  <2>4. Base(s)' = Base(s) BY <2>1 DEF Base
  <2> QED BY <2>2, <2>3, <2>4 DEF HasLatest
<1> QED BY <1>1, <1>2, <1>3

LEMMA MergingStep ==
  ASSUME ConstantsAssumption, TypeInv, WavesMerge, Next, Merging PROVE Merging'
<1> SUFFICES ASSUME pc' = "merge"
             PROVE  /\ ~merge'.poisoned
                    /\ \A e \in Ephemeral : e < cursor' => e \in merge'.merged
  BY DEF Merging
<1>1. CASE TrackFailures
  <2>1. cursor' = 1 /\ merge'.poisoned = FALSE
    BY <1>1 DEF TrackFailures, NoMerge
  <2>2. \A e \in Ephemeral : ~(e < 1) BY SlotsType
  <2> QED BY <2>1, <2>2
<1>2. ASSUME NEW s \in Slots, MergeSlot(s)
      PROVE  /\ ~merge'.poisoned
             /\ \A e \in Ephemeral : e < cursor' => e \in merge'.merged
  <2>1. pc = "merge" /\ cursor = s /\ cursor' = cursor + 1 BY <1>2 DEF MergeSlot
  <2>2. ~merge.poisoned BY <2>1 DEF Merging
  <2>3. {"prepare", "stash", "conflict", "poison"} \cap Faults = {} BY DEF WavesMerge
  <2>4. MergeOk(s) BY <1>2, <2>2, <2>3 DEF MergeSlot
  <2>5. merge \in MergeRecords BY DEF TypeInv, TypeOK, WaveTypeOK
  <2>6. merge'.merged = merge.merged \cup {s} /\ merge'.poisoned = merge.poisoned
    BY <2>4, <2>5 DEF MergeOk, MergeRecords
  <2>7. \A e \in Ephemeral : e < s + 1 => e < s \/ e = s BY SlotsType
  <2> QED BY <2>1, <2>2, <2>6, <2>7 DEF Merging
<1>3. ASSUME ~TrackFailures, \A s \in Slots : ~MergeSlot(s)
      PROVE  /\ ~merge'.poisoned
             /\ \A e \in Ephemeral : e < cursor' => e \in merge'.merged
  <2>1. pc = "merge" /\ merge' = merge /\ cursor' = cursor
    BY <1>3, MergeFollowsTracking
  <2> QED BY <2>1 DEF Merging
<1> QED BY <1>1, <1>2, <1>3

LEMMA SynchronisedStep ==
  ASSUME ConstantsAssumption, WavesMerge, TypeInv, SlotsFit, Synchronised, Next
  PROVE  Synchronised'
<1>1. pc' # "down" => starts' > 0 BY StartsCounted DEF Synchronised
<1>2. CASE Corrupted BY <1>1, <1>2, CorruptedStep DEF Synchronised
<1>3. CASE ~Corrupted
  <2>1. InSync BY <1>3 DEF Synchronised
  <2>2. dirty' = {} BY <2>1, DirtyStep DEF InSync
  <2>3. Level' \/ Corrupted' BY <2>1, LevelStep
  <2>4. LatestKept' BY <1>3, <2>1, LatestStep
  <2>5. Apart' BY <2>1, ApartStep DEF InSync
  <2>6. OthersVisible' BY <2>1, VisibleStep
  <2>7. Merging' BY <2>1, MergingStep DEF InSync
  <2> QED BY <1>1, <2>2, <2>3, <2>4, <2>5, <2>6, <2>7 DEF Synchronised, InSync
<1> QED BY <1>2, <1>3

\* As long as waves merge, an agent starts from a tree that has the latest work of every
\* task that its own depends on, for any graph of tasks and number of slots, whatever
\* operators do to the rows and however often the loop is killed and started again.
THEOREM DependentsSeeWork ==
  ASSUME WavesMerge PROVE Spec => []DepsVisible
<1>1. Init => Synchronised
  <2> SUFFICES ASSUME Init PROVE Synchronised OBVIOUS
  <2>1. pc = "down" /\ dirty = {} /\ work = [t \in Tasks |-> 0] BY DEF Init
  <2> QED BY <2>1 DEF Synchronised, InSync, Level, LatestKept, Apart, OthersVisible, Merging
<1>2. TypeInv /\ SlotsFit /\ Synchronised /\ [Next]_vars => Synchronised'
  <2>1. CASE Next BY <2>1, SynchronisedStep, ConstantsAssumption
  <2>2. CASE UNCHANGED vars
    <3>1. /\ UNCHANGED <<pc, work, main, branch, dirty, starts, slot, cursor, merge,
                         outcome>>
      BY <2>2 DEF vars, git, wave, env
    <3> QED BY <3>1 DEF Synchronised, Corrupted, InSync, Level, LatestKept, Apart,
              OthersVisible, Merging, HasLatest, AllCommits, Base, Taken
  <2> QED BY <2>1, <2>2
<1>3. TypeInv /\ SlotsFit /\ Synchronised => DepsVisible
  <2> SUFFICES ASSUME TypeInv, SlotsFit, Synchronised,
                      NEW s \in Running, NEW d \in DependsOn[slot[s].task], work[d] > 0
               PROVE  HasLatest(d, Base(s))
    BY DEF DepsVisible
  <2>1. s \in Slots /\ pc = "run" /\ Taken(s) BY DEF Running, SlotsFit, Taken
  <2>2. InSync BY <2>1 DEF Synchronised, Corrupted
  <2>3. slot[s].task \in Tasks BY <2>1 DEF TypeInv, WaveShape, Taken
  <2>4. d \in Tasks BY <2>3, ConstantsAssumption DEF ConstantsAssumption
  <2>5. \A e \in Slots : Taken(e) => slot[e].task # d
    BY <2>1, <2>2 DEF InSync, Apart
  <2> QED BY <2>1, <2>2, <2>4, <2>5 DEF InSync, OthersVisible
<1> QED BY <1>1, <1>2, <1>3, TypeInvariant, SlotsFitInvariant, PTL DEF Spec

-----------------------------------------------------------------------------
(* Done tasks of a wave.                                                   *)

\* Rows are closed by their own slot's output only, and only when that agent has
\* committed.
ClosedByOwnWork ==
  /\ MaxOps = 0
  /\ \A r \in AgentResults : r.tag \in {"completed", "done"} =>
                               r.commit # "none" /\ r.peer = NoTask

\* The task's work is in S: its latest commit, or a marked one on the loop branch.
Backed(t, S) == HasLatest(t, S) \/ \E c \in main : c.task = t /\ c.marked

WaveDepth == {"run", "process", "account", "transient", "track", "merge", "reconcile",
              "terminal"}

\* A committed task has its latest work in the slot's tree; a done one has its work
\* there, or its marker on the loop branch.  The merge phase leaves every slot behind
\* its cursor failed, or with nothing that the loop branch does not have.
WorkInTree ==
  pc \in WaveDepth =>
    \A s \in Slots :
      /\ slot[s].state \in {"finished", "processed"} /\ slot[s].result.commit # "none"
           => HasLatest(slot[s].task, Base(s))
      /\ slot[s].state = "processed" /\ status[slot[s].task] = "done"
           => Backed(slot[s].task, Base(s))
NotDoneBefore ==
  /\ pc \in {"run", "process"} =>
       \A s \in Slots : slot[s].state \in {"running", "finished"}
                          => status[slot[s].task] # "done"
  /\ pc = "run" => Processed = {}
MergedOrFailed ==
  /\ pc = "merge" => /\ \A e \in Ephemeral : e < cursor => e \in merge.failed \cup merge.merged
                     /\ \A e \in merge.merged : branch[e] \subseteq main
  /\ pc \in {"reconcile", "terminal"} =>
       \A e \in Ephemeral : e \in merge.failed \/ branch[e] \subseteq main
Settled ==
  pc = "settle" /\ ~outcome.retry /\ outcome.terminal.reason \notin ThrottleStops =>
    \A s \in Processed : status[slot[s].task] = "done" =>
      (\E m \in outcome.failed : m.task = slot[s].task) \/ Backed(slot[s].task, main)

WorkBacked == WorkInTree /\ NotDoneBefore /\ MergedOrFailed /\ Settled

\* Only its own slot's output closes a row in post-processing.
LEMMA OwnOutputCloses ==
  ASSUME ConstantsAssumption, ClosedByOwnWork, TypeInv, SlotsFit,
         NEW s \in Slots, ProcessSlot(s), NEW t \in Tasks,
         status'[t] = "done", status[t] # "done"
  PROVE  t = slot[s].task /\ slot[s].result.commit # "none"
<1> DEFINE v == slot[s].task
           r == slot[s].result
           u == About(s)
<1>1. /\ status \in [Tasks -> Statuses] /\ v \in Tasks /\ u \in Tasks
  <2>1. slot[s].state # "idle" BY ProcessesSlot
  <2> QED BY <2>1, ProcessedSlotTypes DEF About, TypeInv, TypeOK, DbTypeOK
<1>2. PICK st \in OverflowApplied(v, r, status) :
        status' = IF TagTargets(r.tag, u, st) = {} THEN st
                  ELSE [st EXCEPT ![u] = CHOOSE x \in TagTargets(r.tag, u, st) : TRUE]
  BY ProcessesRows
<1> DEFINE target == TagTargets(r.tag, u, st)
           x == CHOOSE y \in target : TRUE
<1>3. st \in [Tasks -> Statuses] /\ st[t] # "done"
  <2>1. st[t] # "done"
    BY <1>1, <1>2 DEF OverflowApplied
  <2> QED BY <1>1, <1>2, <2>1, OverflowType
<1>4. target # {} /\ u = t /\ x = "done"
  <2>1. target # {} BY <1>2, <1>3
  <2>2. status' = [st EXCEPT ![u] = x] BY <1>2, <2>1
  <2> HIDE DEF x, target, u
  <2> QED BY <1>1, <1>3, <2>1, <2>2
<1>5. r.tag \in {"completed", "done"}
  <2>1. "done" \in target BY <1>4
  <2> QED BY <2>1 DEF TagTargets
<1>6. r \in AgentResults BY <1>5 DEF SlotsFit, Interrupted
<1>7. r.commit # "none" /\ r.peer = NoTask BY <1>5, <1>6 DEF ClosedByOwnWork
<1> QED BY <1>4, <1>7 DEF About

\* A step that keeps the slots, closes no row and only adds to the trees keeps what
\* is known of the wave's work.
LEMMA TreesGrow ==
  ASSUME WorkInTree, pc \in WaveDepth, slot' = slot, work' = work,
         main \subseteq main', \A s \in Slots : Base(s) \subseteq Base(s)',
         \A s \in Slots : Taken(s) =>
           (status'[slot[s].task] = "done" => status[slot[s].task] = "done"
              \/ \E c \in main : c.task = slot[s].task /\ c.marked)
  PROVE  WorkInTree'
<1> SUFFICES ASSUME NEW s \in Slots
             PROVE  /\ slot[s].state \in {"finished", "processed"}
                       /\ slot[s].result.commit # "none"
                         => \E c \in Base(s)' : c.task = slot[s].task
                                                /\ c.n = work[slot[s].task]
                    /\ slot[s].state = "processed" /\ status'[slot[s].task] = "done"
                         => \/ \E c \in Base(s)' : c.task = slot[s].task
                                                   /\ c.n = work[slot[s].task]
                            \/ \E c \in main' : c.task = slot[s].task /\ c.marked
  BY DEF WorkInTree, HasLatest, Backed
<1>1. slot[s].state \in {"finished", "processed"} => Taken(s) BY DEF Taken
<1> QED BY <1>1 DEF WorkInTree, HasLatest, Backed

LEMMA FastForwardGrows ==
  ASSUME TypeInv, FastForward, NEW s \in Slots PROVE Base(s) \subseteq Base(s)'
<1>1. PICK S : /\ branch' = [e \in Ephemeral |-> Advanced(e, S)]
               /\ \A e \in S : branch[e] \subseteq main
  BY DEF FastForward
<1>2. main' = main BY DEF FastForward
<1>3. s # 0 => s \in Ephemeral BY DEF Ephemeral
<1> QED BY <1>1, <1>2, <1>3 DEF Advanced, Base

\* The steps of a wave between claim and end other than an agent's and the processing
\* of its output.
LEMMA DepthStep ==
  ASSUME ConstantsAssumption, ClosedByOwnWork, TypeInv, Next, pc' \in WaveDepth,
         ~ClaimSlate, \A s \in Slots : ~AgentFinishes(s) /\ ~ProcessSlot(s)
  PROVE  /\ pc \in WaveDepth /\ slot' = slot /\ work' = work
         /\ main \subseteq main' /\ \A s \in Slots : Base(s) \subseteq Base(s)'
         /\ \A t \in Tasks : status'[t] = "done" =>
              status[t] = "done" \/ \E c \in main : c.task = t /\ c.marked
<1>a. status \in [Tasks -> Statuses] /\ ops \in Nat
  BY DEF TypeInv, TypeOK, DbTypeOK, EnvTypeOK
<1>g. main \subseteq main' /\ work' = work BY MainGrows, WorkKept
<1>1. CASE \/ StartLoop \/ LimitReached \/ DeadlineReached \/ BeginIteration
           \/ BeginWave \/ QuotaGateStops \/ SelectSlate \/ EphemeralDeadlock
           \/ NoEligibleTasks \/ QuotaEmpty \/ ReconcileStaleSlots \/ Settle \/ EndWave
           \/ ExitClassify \/ ExitReclaim \/ ExitCleanup \/ Kill
  BY <1>1 DEF StartLoop, LimitReached, DeadlineReached, BeginIteration, BeginWave,
       QuotaGateStops, SelectSlate, EphemeralDeadlock, NoEligibleTasks, QuotaEmpty,
       ReconcileStaleSlots, Settle, EndWave, ExitClassify, ExitReclaim, ExitCleanup,
       Kill, Forget, Leave, Return, WaveDepth
<1>2. CASE JoinWave \/ ProcessingDone \/ ReactToRateLimit \/ ReactToTransient
           \/ TrackFailures
  <2>1. slot' = slot /\ main' = main /\ branch' = branch /\ pc \in WaveDepth
    BY <1>2 DEF JoinWave, ProcessingDone, ReactToRateLimit, ReactToTransient,
         TrackFailures, git, wave, WaveDepth
  <2>2. \A t \in Tasks : status'[t] = "done" => status[t] = "done"
    <3>1. CASE JoinWave \/ ProcessingDone
      BY <3>1 DEF JoinWave, ProcessingDone, db
    <3>2. CASE ReactToRateLimit \/ ReactToTransient
      BY <3>2 DEF ReactToRateLimit, ReactToTransient, Reclaim, Reopen
    <3>3. CASE TrackFailures BY <3>3 DEF TrackFailures
    <3> QED BY <1>2, <3>1, <3>2, <3>3
  <2> QED BY <1>g, <2>1, <2>2 DEF Base
<1>3. CASE FastForward
  BY <1>3, <1>g, FastForwardGrows DEF FastForward, WaveDepth, db
<1>4. CASE PostMergeReconcile
  <2>1. slot' = slot /\ main' = main /\ branch' = branch /\ pc \in WaveDepth
    BY <1>4 DEF PostMergeReconcile, git, WaveDepth
  <2>2. PICK R \in SUBSET {t \in MarkedTasks : status[t] = "in_progress"} :
          status' = SetDone(status, R)
    BY <1>4 DEF PostMergeReconcile
  <2>3. \A t \in R : \E c \in main : c.task = t /\ c.marked BY DEF MarkedTasks
  <2> QED BY <1>g, <2>1, <2>2, <2>3 DEF Base, SetDone
<1>5. ASSUME NEW s \in Slots, SkipSlot(s) \/ MergeSlot(s)
      PROVE  /\ pc \in WaveDepth /\ slot' = slot /\ branch' = branch
             /\ status' = status
  BY <1>5 DEF SkipSlot, MergeSlot, db, git, WaveDepth
<1>6. CASE DropStopFile \/ Signal
  BY <1>6 DEF DropStopFile, Signal, db, git, wave, Base
<1>7. ASSUME NEW t \in Tasks, OperatorCommand(t) PROVE FALSE
  BY <1>7, <1>a DEF OperatorCommand, ClosedByOwnWork
<1> QED BY <1>1, <1>2, <1>3, <1>4, <1>5, <1>6, <1>7, <1>g DEF Next, Coordinator, Agents, Base

LEMMA TreeStep ==
  ASSUME ConstantsAssumption, ClosedByOwnWork, TypeInv, SlotsFit, WorkBacked, Next
  PROVE  WorkInTree'
<1> SUFFICES ASSUME pc' \in WaveDepth PROVE WorkInTree' BY DEF WorkInTree
<1>1. CASE ClaimSlate
  <2>1. pc = "claim" BY <1>1 DEF ClaimSlate
  <2>2. \A s \in Slots : slot'[s].state \notin {"finished", "processed"}
    BY <1>1, <2>1, ClaimsSlots DEF SlotsFit
  <2> QED BY <2>2 DEF WorkInTree
<1>2. ASSUME NEW s \in Slots, AgentFinishes(s) PROVE WorkInTree'
  <2>1. pc = "run" /\ status' = status BY <1>2 DEF AgentFinishes
  <2>2. ASSUME NEW e \in Slots, NEW t, t = slot'[e].task
        PROVE  /\ slot'[e].state \in {"finished", "processed"}
                  /\ slot'[e].result.commit # "none" => HasLatest(t, Base(e))'
               /\ slot'[e].state # "processed"
    <3>1. CASE e = s
      <4>1. t = slot[s].task /\ slot'[e].state = "finished"
        BY <1>2, <2>2, <3>1, AgentFinishesSlot
      <4>2. slot'[s].result.commit # "none" =>
              \E c \in Base(s)' : c.task = slot[s].task /\ c.n = work'[slot[s].task]
        BY <1>2, AgentWork
      <4> QED BY <3>1, <4>1, <4>2 DEF HasLatest
    <3>2. CASE e # s
      <4>1. slot'[e] = slot[e] /\ Taken(s) BY <1>2, <3>2, AgentFinishesSlot DEF Taken
      <4>2. slot[e].state # "processed"
        BY <2>1 DEF WorkBacked, NotDoneBefore, Processed
      <4>3. SUFFICES ASSUME slot[e].state = "finished", slot[e].result.commit # "none"
                     PROVE  HasLatest(t, Base(e))'
        BY <4>1, <4>2
      <4>4. HasLatest(t, Base(e))
        BY <2>1, <2>2, <4>1, <4>3 DEF WorkBacked, WorkInTree, WaveDepth
      <4>5. t \in Tasks /\ t # slot[s].task
        <5>1. Taken(e) BY <4>3 DEF Taken
        <5> QED BY <2>2, <3>2, <4>1, <5>1 DEF SlotsFit, TypeInv, WaveShape, Taken
      <4>6. work'[t] = work[t] /\ Base(e) \subseteq Base(e)' BY <1>2, <4>5, AgentWork
      <4> QED BY <4>4, <4>6 DEF HasLatest
    <3> QED BY <3>1, <3>2
  <2>3. \A e \in Slots :
          /\ slot'[e].state \in {"finished", "processed"}
             /\ slot'[e].result.commit # "none"
               => \E c \in Base(e)' : c.task = slot'[e].task /\ c.n = work'[slot'[e].task]
          /\ slot'[e].state # "processed"
    BY <2>2 DEF HasLatest
  <2> QED BY <2>3 DEF WorkInTree, HasLatest
<1>3. ASSUME NEW s \in Slots, ProcessSlot(s) PROVE WorkInTree'
  <2>1. /\ pc = "process" /\ work' = work /\ main' = main /\ branch' = branch
    BY <1>3 DEF ProcessSlot, git
  <2>2. /\ slot[s].state = "finished" /\ slot'[s].state = "processed"
        /\ slot'[s].task = slot[s].task /\ slot'[s].result = slot[s].result
        /\ \A e \in Slots : e # s => slot'[e] = slot[e]
    BY <1>3, ProcessesSlot
  <2>3. ASSUME NEW e \in Slots, NEW t, t = slot[e].task
        PROVE  /\ slot'[e].state \in {"finished", "processed"}
                  /\ slot'[e].result.commit # "none" => HasLatest(t, Base(e))
               /\ slot'[e].state = "processed" /\ status'[t] = "done"
                  => Backed(t, Base(e))
    <3>1. slot'[e].state \in {"finished", "processed"} /\ slot'[e].result.commit # "none"
            => HasLatest(t, Base(e))
      BY <2>1, <2>2, <2>3 DEF WorkBacked, WorkInTree, WaveDepth
    <3>2. ASSUME slot'[e].state = "processed", status'[t] = "done"
          PROVE  Backed(t, Base(e))
      <4>1. t \in Tasks
        BY <2>2, <2>3, <3>2 DEF TypeInv, WaveShape
      <4>2. CASE status[t] = "done"
        <5>1. e # s BY <2>1, <2>2, <2>3, <4>2 DEF WorkBacked, NotDoneBefore
        <5> QED BY <2>1, <2>2, <2>3, <3>2, <4>2, <5>1
                DEF WorkBacked, WorkInTree, WaveDepth
      <4>3. CASE status[t] # "done"
        <5>1. t = slot[s].task /\ slot[s].result.commit # "none"
          BY <1>3, <3>2, <4>1, <4>3, OwnOutputCloses
        <5>2. slot[e].state # "idle" /\ slot[s].state # "idle"
          <6>1. e = s \/ slot'[e] = slot[e] BY <2>2
          <6>2. CASE e = s BY <2>2, <6>2
          <6>3. CASE slot'[e] = slot[e] BY <2>2, <3>2, <6>3
          <6> QED BY <6>1, <6>2, <6>3
        <5>3. slot[e].task = slot[s].task BY <2>3, <5>1
        <5>4. e = s BY <5>2, <5>3 DEF SlotsFit, Taken
        <5> QED BY <2>2, <3>1, <5>1, <5>4 DEF Backed
      <4> QED BY <4>2, <4>3
    <3> QED BY <3>1, <3>2
  <2>4. \A e \in Slots : slot'[e].task = slot[e].task BY <2>2
  <2>5. \A e \in Slots : Base(e)' = Base(e) BY <2>1 DEF Base
  <2> QED BY <2>1, <2>3, <2>4, <2>5 DEF WorkInTree, HasLatest, Backed
<1>4. ASSUME ~ClaimSlate, \A s \in Slots : ~AgentFinishes(s) /\ ~ProcessSlot(s)
      PROVE  WorkInTree'
  <2>1. \A s \in Slots : Taken(s) => slot[s].task \in Tasks
    BY DEF TypeInv, WaveShape, Taken
  <2> QED BY <1>4, <2>1, DepthStep, TreesGrow DEF WorkBacked
<1> QED BY <1>1, <1>2, <1>3, <1>4

LEMMA ProcessFollowsRun ==
  ASSUME ConstantsAssumption, ClosedByOwnWork, TypeInv, Next,
         pc' \in {"run", "process"}, ~ClaimSlate,
         \A s \in Slots : ~AgentFinishes(s) /\ ~ProcessSlot(s)
  PROVE  /\ slot' = slot /\ status' = status /\ pc \in {"run", "process"}
         /\ pc' = "run" => pc = "run"
<1>1. CASE \/ StartLoop \/ LimitReached \/ DeadlineReached \/ BeginIteration
           \/ BeginWave \/ QuotaGateStops \/ SelectSlate \/ EphemeralDeadlock
           \/ NoEligibleTasks \/ QuotaEmpty \/ ReconcileStaleSlots \/ ProcessingDone
  BY <1>1 DEF StartLoop, LimitReached, DeadlineReached, BeginIteration, BeginWave,
       QuotaGateStops, SelectSlate, EphemeralDeadlock, NoEligibleTasks, QuotaEmpty,
       ReconcileStaleSlots, ProcessingDone, Leave, Return
<1>2. CASE \/ ReactToRateLimit \/ ReactToTransient \/ TrackFailures \/ FastForward
           \/ PostMergeReconcile \/ EndWave \/ Settle \/ ExitClassify \/ ExitReclaim
           \/ ExitCleanup \/ Kill
  BY <1>2 DEF ReactToRateLimit, ReactToTransient, TrackFailures, FastForward,
       PostMergeReconcile, EndWave, Settle, ExitClassify, ExitReclaim, ExitCleanup,
       Kill, Forget, Leave, Return
<1>3. CASE JoinWave \/ DropStopFile \/ Signal
  BY <1>3 DEF JoinWave, Return, DropStopFile, Signal, db, wave
<1>4. ASSUME NEW t \in Tasks, OperatorCommand(t) PROVE FALSE
  BY <1>4 DEF OperatorCommand, ClosedByOwnWork, TypeInv, TypeOK, EnvTypeOK
<1>5. ASSUME NEW s \in Slots, SkipSlot(s) \/ MergeSlot(s)
      PROVE  pc' = pc /\ slot' = slot /\ status' = status
  BY <1>5 DEF SkipSlot, MergeSlot, db
<1> QED BY <1>1, <1>2, <1>3, <1>4, <1>5 DEF Next, Coordinator, Agents

LEMMA MergePhaseRests ==
  ASSUME Next, ~TrackFailures, ~FastForward, ~PostMergeReconcile,
         \A s \in Slots : ~MergeSlot(s), pc' \in {"merge", "reconcile", "terminal"}
  PROVE  pc' = pc /\ merge' = merge /\ cursor' = cursor /\ main' = main /\ branch' = branch
<1>1. CASE \/ StartLoop \/ LimitReached \/ DeadlineReached \/ BeginIteration
           \/ BeginWave \/ QuotaGateStops \/ SelectSlate \/ EphemeralDeadlock
           \/ NoEligibleTasks \/ QuotaEmpty \/ ReconcileStaleSlots \/ ClaimSlate \/ JoinWave
           \/ ProcessingDone
  BY <1>1 DEF StartLoop, LimitReached, DeadlineReached, BeginIteration, BeginWave,
       QuotaGateStops, SelectSlate, EphemeralDeadlock, NoEligibleTasks, QuotaEmpty,
       ReconcileStaleSlots, ClaimSlate, JoinWave, ProcessingDone, Leave, Return
<1>2. CASE \/ ReactToRateLimit \/ ReactToTransient \/ EndWave \/ Settle
           \/ ExitClassify \/ ExitReclaim \/ ExitCleanup \/ Kill
  BY <1>2 DEF ReactToRateLimit, ReactToTransient, EndWave, Settle, ExitClassify,
       ExitReclaim, ExitCleanup, Kill, Forget, Leave, Return
<1>3. CASE DropStopFile \/ Signal \/ \E t \in Tasks : OperatorCommand(t)
  BY <1>3 DEF DropStopFile, Signal, OperatorCommand, git, wave
<1>4. ASSUME NEW s \in Slots, AgentFinishes(s) \/ ProcessSlot(s) \/ SkipSlot(s)
      PROVE  FALSE
  BY <1>4 DEF AgentFinishes, ProcessSlot, SkipSlot
<1> QED BY <1>1, <1>2, <1>3, <1>4 DEF Next, Coordinator, Agents

LEMMA OnlySettleSettles ==
  ASSUME Next, pc = "settle", pc' \in {"top", "classify"} PROVE Settle
<1>1. CASE \/ StartLoop \/ LimitReached \/ DeadlineReached \/ BeginIteration
           \/ BeginWave \/ QuotaGateStops \/ SelectSlate \/ EphemeralDeadlock
           \/ NoEligibleTasks \/ QuotaEmpty \/ ReconcileStaleSlots \/ ClaimSlate \/ JoinWave
           \/ ProcessingDone
  BY <1>1 DEF StartLoop, LimitReached, DeadlineReached, BeginIteration, BeginWave,
       QuotaGateStops, SelectSlate, EphemeralDeadlock, NoEligibleTasks, QuotaEmpty,
       ReconcileStaleSlots, ClaimSlate, JoinWave, ProcessingDone
<1>2. CASE \/ ReactToRateLimit \/ ReactToTransient \/ TrackFailures \/ FastForward
           \/ PostMergeReconcile \/ EndWave \/ ExitClassify \/ ExitReclaim
           \/ ExitCleanup \/ Kill
  BY <1>2 DEF ReactToRateLimit, ReactToTransient, TrackFailures, FastForward,
       PostMergeReconcile, EndWave, ExitClassify, ExitReclaim, ExitCleanup, Kill, Forget
<1>3. CASE DropStopFile \/ Signal \/ \E t \in Tasks : OperatorCommand(t)
  BY <1>3 DEF DropStopFile, Signal, OperatorCommand
<1>4. ASSUME NEW s \in Slots,
             AgentFinishes(s) \/ ProcessSlot(s) \/ SkipSlot(s) \/ MergeSlot(s)
      PROVE  FALSE
  BY <1>4 DEF AgentFinishes, ProcessSlot, SkipSlot, MergeSlot
<1> QED BY <1>1, <1>2, <1>3, <1>4 DEF Next, Coordinator, Agents

LEMMA NotDoneStep ==
  ASSUME ConstantsAssumption, ClosedByOwnWork, TypeInv, SlotsFit, WorkBacked, Next
  PROVE  NotDoneBefore'
<1> SUFFICES ASSUME pc' \in {"run", "process"} PROVE NotDoneBefore'
  BY DEF NotDoneBefore
<1>t. \A s \in Slots : Taken(s) => slot[s].task \in Tasks
  BY DEF TypeInv, WaveShape, Taken
<1>1. CASE ClaimSlate
  <2>1. pc = "claim" /\ pc' = "run" BY <1>1 DEF ClaimSlate
  <2>2. ASSUME NEW s \in Slots
        PROVE  /\ slot'[s].state \notin {"finished", "processed"}
               /\ slot'[s].state = "running" => status'[slot'[s].task] # "done"
    <3>1. /\ slot'[s].state \notin {"finished", "processed"}
          /\ slot'[s].state = "running" =>
               Taken(s) /\ slot[s].state = "selected" /\ status[slot[s].task] \in Open
          /\ slot'[s].task = slot[s].task
      BY <1>1, <2>1, <2>2, ClaimsSlots DEF SlotsFit, Taken
    <3>2. ASSUME slot'[s].state = "running" PROVE status'[slot[s].task] # "done"
      <4>1. slot[s].task \in Tasks /\ status[slot[s].task] # "done"
        BY <1>t, <3>1, <3>2 DEF Open
      <4> QED BY <1>1, <4>1 DEF ClaimSlate
    <3> QED BY <3>1, <3>2
  <2> QED BY <2>1, <2>2 DEF NotDoneBefore, Processed
<1>2. ASSUME NEW s \in Slots, AgentFinishes(s) PROVE NotDoneBefore'
  <2>1. pc = "run" /\ pc' = "run" /\ status' = status BY <1>2 DEF AgentFinishes
  <2>2. /\ slot[s].state = "running" /\ slot'[s].state = "finished"
        /\ slot'[s].task = slot[s].task
        /\ \A e \in Slots : e # s => slot'[e] = slot[e]
    BY <1>2, AgentFinishesSlot
  <2>3. \A e \in Slots : slot[e].state # "processed"
    BY <2>1 DEF WorkBacked, NotDoneBefore, Processed
  <2>4. \A e \in Slots : /\ slot'[e].task = slot[e].task
                         /\ slot'[e].state \in {"running", "finished"} =>
                              slot[e].state \in {"running", "finished"}
                         /\ slot'[e].state # "processed"
    BY <2>2, <2>3
  <2> QED BY <2>1, <2>4 DEF WorkBacked, NotDoneBefore, Processed
<1>3. ASSUME NEW s \in Slots, ProcessSlot(s) PROVE NotDoneBefore'
  <2>1. pc = "process" /\ pc' = "process" BY <1>3 DEF ProcessSlot
  <2>2. /\ slot[s].state = "finished" /\ slot'[s].state = "processed"
        /\ \A e \in Slots : e # s => slot'[e] = slot[e]
    BY <1>3, ProcessesSlot
  <2>3. ASSUME NEW e \in Slots, slot'[e].state \in {"running", "finished"}
        PROVE  status'[slot'[e].task] # "done"
    <3>1. e # s /\ slot'[e] = slot[e] /\ Taken(e) BY <2>2, <2>3 DEF Taken
    <3>2. slot[e].task # slot[s].task BY <2>2, <3>1 DEF SlotsFit, Taken
    <3>3. status[slot[e].task] # "done"
      BY <2>1, <2>3, <3>1 DEF WorkBacked, NotDoneBefore
    <3>4. slot[e].task \in Tasks BY <1>t, <3>1
    <3> QED BY <1>3, <3>1, <3>2, <3>3, <3>4, OwnOutputCloses
  <2> QED BY <2>1, <2>3 DEF NotDoneBefore
<1>4. ASSUME ~ClaimSlate, \A s \in Slots : ~AgentFinishes(s) /\ ~ProcessSlot(s)
      PROVE  NotDoneBefore'
  <2>1. slot' = slot /\ status' = status /\ pc \in {"run", "process"}
        /\ (pc' = "run" => pc = "run")
    BY <1>4, ProcessFollowsRun
  <2> QED BY <2>1 DEF WorkBacked, NotDoneBefore, Processed
<1> QED BY <1>1, <1>2, <1>3, <1>4

LEMMA MergedOrFailedStep ==
  ASSUME ConstantsAssumption, TypeInv, MergedOrFailed, Next
  PROVE  MergedOrFailed'
<1>m. merge \in MergeRecords BY DEF TypeInv, TypeOK, WaveTypeOK
<1>1. CASE TrackFailures
  <2>1. cursor' = 1 /\ merge'.merged = {} /\ pc' = "merge"
    BY <1>1 DEF TrackFailures, NoMerge
  <2>2. \A e \in Ephemeral : ~(e < 1) BY SlotsType
  <2> QED BY <2>1, <2>2 DEF MergedOrFailed
<1>2. ASSUME NEW s \in Slots, MergeSlot(s) PROVE MergedOrFailed'
  <2>1. /\ pc = "merge" /\ pc' = "merge" /\ cursor = s /\ cursor' = cursor + 1
        /\ branch' = branch /\ main \subseteq main'
    <3>1. Next BY <1>2 DEF Next, Coordinator
    <3> QED BY <1>2, <3>1, MainGrows DEF MergeSlot
  <2>2. \/ /\ main' = main \cup branch[s]
           /\ merge' = [merge EXCEPT !.merged = @ \cup {s}]
        \/ merge' = [merge EXCEPT !.failed = @ \cup {s}]
        \/ merge' = [merge EXCEPT !.failed = @ \cup {s}, !.poisoned = TRUE]
    BY <1>2 DEF MergeSlot, MergeOk, MergeFailed
  <2>3. \/ /\ main' = main \cup branch[s]
           /\ merge'.merged = merge.merged \cup {s} /\ merge'.failed = merge.failed
        \/ merge'.merged = merge.merged /\ merge'.failed = merge.failed \cup {s}
    BY <1>m, <2>2 DEF MergeRecords
  <2>4. \A e \in Ephemeral : e < s + 1 => e < s \/ e = s BY SlotsType
  <2> QED BY <2>1, <2>3, <2>4 DEF MergedOrFailed
<1>3. CASE FastForward
  <2>1. PICK stuck \in SUBSET merge.merged :
          /\ \A e \in merge.merged \ stuck : branch[e] \subseteq main
          /\ branch' = [e \in Ephemeral |-> Advanced(e, merge.merged \ stuck)]
          /\ merge' = [merge EXCEPT !.merged = @ \ stuck, !.failed = @ \cup stuck]
    BY <1>3 DEF FastForward
  <2>2. main' = main /\ pc = "merge" /\ pc' = "reconcile" /\ cursor = NumSlots
    BY <1>3 DEF FastForward
  <2>3. merge'.failed = merge.failed \cup stuck BY <1>m, <2>1 DEF MergeRecords
  <2>4. \A e \in Ephemeral : e \in merge.failed \cup merge.merged
    BY <2>2, SlotsType DEF MergedOrFailed
  <2>5. \A e \in Ephemeral : e \in merge'.failed \/ branch'[e] \subseteq main'
    BY <2>1, <2>2, <2>3, <2>4 DEF Advanced
  <2> QED BY <2>2, <2>5 DEF MergedOrFailed
<1>4. CASE PostMergeReconcile
  BY <1>4 DEF PostMergeReconcile, MergedOrFailed, git
<1>5. ASSUME ~TrackFailures, ~FastForward, ~PostMergeReconcile,
             \A s \in Slots : ~MergeSlot(s),
             pc' \in {"merge", "reconcile", "terminal"}
      PROVE  MergedOrFailed'
  <2>1. pc' = pc /\ merge' = merge /\ cursor' = cursor /\ main' = main /\ branch' = branch
    BY <1>5, MergePhaseRests
  <2> QED BY <2>1 DEF MergedOrFailed
<1> QED BY <1>1, <1>2, <1>3, <1>4, <1>5 DEF MergedOrFailed

LEMMA SettledStep ==
  ASSUME ConstantsAssumption, ClosedByOwnWork, TypeInv, SlotsFit, WorkBacked, Next
  PROVE  Settled'
<1> SUFFICES ASSUME pc' = "settle", ~outcome'.retry,
                    outcome'.terminal.reason \notin ThrottleStops,
                    NEW s \in Slots, slot'[s].state = "processed",
                    status'[slot'[s].task] = "done"
             PROVE  \/ \E m \in outcome'.failed : m.task = slot'[s].task
                    \/ \E c \in main' : c.task = slot'[s].task /\ c.n = work'[slot'[s].task]
                    \/ \E c \in main' : c.task = slot'[s].task /\ c.marked
  BY DEF Settled, Processed, Backed, HasLatest
<1>1. CASE EndWave
  <2>1. /\ pc = "terminal" /\ slot' = slot /\ status' = status /\ main' = main
        /\ work' = work /\ branch' = branch
        /\ outcome'.failed = {[slot |-> e, task |-> slot[e].task] : e \in merge.failed}
    BY <1>1 DEF EndWave, Return, Outcome, db, git
  <2>2. Backed(slot[s].task, Base(s))
    BY <2>1 DEF WorkBacked, WorkInTree, WaveDepth
  <2>3. CASE s \in merge.failed
    <3>1. [slot |-> s, task |-> slot[s].task] \in outcome'.failed BY <2>1, <2>3
    <3> QED BY <2>1, <3>1
  <2>4. CASE s \notin merge.failed
    <3>1. Base(s) \subseteq main
      BY <2>1, <2>4 DEF WorkBacked, MergedOrFailed, Base, Ephemeral
    <3> QED BY <2>1, <2>2, <3>1 DEF Backed, HasLatest
  <2> QED BY <2>3, <2>4
<1>2. CASE JoinWave
  BY <1>2 DEF JoinWave, WorkBacked, NotDoneBefore, Processed
<1>r. Retry.retry BY DEF Retry, Outcome
<1>3. CASE ReactToRateLimit
  <2>1. \/ outcome' = Retry
        \/ outcome' = Outcome(TRUE, FALSE, FALSE, Stop(0, "usage/spend limit"), {})
        \/ outcome' = Outcome(TRUE, FALSE, TRUE, Stop(0, "stop during wait"), {})
    BY <1>3 DEF ReactToRateLimit, Return
  <2>2. CASE outcome' = Retry BY <1>r, <2>2
  <2>3. CASE outcome' = Outcome(TRUE, FALSE, FALSE, Stop(0, "usage/spend limit"), {})
    <3>1. outcome'.terminal = Stop(0, "usage/spend limit") BY <2>3 DEF Outcome
    <3>2. Stop(0, "usage/spend limit").reason = "usage/spend limit" BY DEF Stop
    <3>3. outcome'.terminal.reason = "usage/spend limit" BY <3>1, <3>2
    <3> QED BY <3>3 DEF ThrottleStops
  <2>4. CASE outcome' = Outcome(TRUE, FALSE, TRUE, Stop(0, "stop during wait"), {})
    <3>1. outcome'.terminal = Stop(0, "stop during wait") BY <2>4 DEF Outcome
    <3>2. Stop(0, "stop during wait").reason = "stop during wait" BY DEF Stop
    <3>3. outcome'.terminal.reason = "stop during wait" BY <3>1, <3>2
    <3> QED BY <3>3 DEF ThrottleStops
  <2> QED BY <2>1, <2>2, <2>3, <2>4
<1>9. CASE ReactToTransient
  <2>1. \/ outcome' = Retry
        \/ outcome' = Outcome(TRUE, FALSE, TRUE, Stop(130, "stop during backoff"), {})
    BY <1>9 DEF ReactToTransient, Return
  <2>2. CASE outcome' = Retry BY <1>r, <2>2
  <2>3. CASE outcome' = Outcome(TRUE, FALSE, TRUE, Stop(130, "stop during backoff"), {})
    <3>1. outcome'.terminal = Stop(130, "stop during backoff") BY <2>3 DEF Outcome
    <3>2. Stop(130, "stop during backoff").reason = "stop during backoff" BY DEF Stop
    <3>3. outcome'.terminal.reason = "stop during backoff" BY <3>1, <3>2
    <3> QED BY <3>3 DEF ThrottleStops
  <2> QED BY <2>1, <2>2, <2>3
<1>4. CASE BeginWave \/ QuotaGateStops \/ EphemeralDeadlock \/ NoEligibleTasks \/ QuotaEmpty
  <2>1. pc \in Outside /\ slot' = slot
    BY <1>4 DEF BeginWave, QuotaGateStops, EphemeralDeadlock, NoEligibleTasks, QuotaEmpty, Outside
  <2> QED BY <2>1 DEF SlotsFit, Taken
<1>5. CASE DropStopFile \/ Signal
  <2>1. UNCHANGED <<pc, outcome, slot, status, main, work>>
    BY <1>5 DEF DropStopFile, Signal, db, git, wave
  <2> QED BY <2>1 DEF WorkBacked, Settled, Processed, Backed, HasLatest
<1>6. ASSUME NEW t \in Tasks, OperatorCommand(t) PROVE FALSE
  BY <1>6 DEF OperatorCommand, ClosedByOwnWork, TypeInv, TypeOK, EnvTypeOK
<1>7. CASE \/ StartLoop \/ LimitReached \/ DeadlineReached \/ BeginIteration
           \/ SelectSlate \/ ReconcileStaleSlots \/ ClaimSlate
           \/ ProcessingDone \/ TrackFailures \/ FastForward \/ PostMergeReconcile
           \/ Settle \/ ExitClassify \/ ExitReclaim \/ ExitCleanup \/ Kill
  BY <1>7 DEF StartLoop, LimitReached, DeadlineReached, BeginIteration, SelectSlate,
       ReconcileStaleSlots, ClaimSlate, ProcessingDone, TrackFailures, FastForward,
       PostMergeReconcile, Settle, ExitClassify, ExitReclaim, ExitCleanup, Kill,
       Forget, Leave
<1>8. ASSUME NEW e \in Slots,
             AgentFinishes(e) \/ ProcessSlot(e) \/ SkipSlot(e) \/ MergeSlot(e)
      PROVE  FALSE
  BY <1>8 DEF AgentFinishes, ProcessSlot, SkipSlot, MergeSlot
<1> QED BY <1>1, <1>2, <1>3, <1>4, <1>5, <1>6, <1>7, <1>8, <1>9 DEF Next, Coordinator, Agents

\* A wave that ran its merge phase leaves none of its tasks done without work on the
\* loop branch, whatever slots fail to merge and however merging them fails, as long as
\* rows are closed by the output of an agent that committed.
THEOREM WavesMergeOrReopen ==
  ASSUME ClosedByOwnWork PROVE Spec => WaveMergesOrReopens
<1> DEFINE A ==
  (pc = "settle" /\ pc' \in {"top", "classify"} /\ ~outcome.retry
     /\ outcome.terminal.reason \notin ThrottleStops) =>
    \A s \in Processed : LET t == slot[s].task IN
      (status'[t] = "done" /\ work[t] > 0) =>
        HasLatest(t, main) \/ \E c \in main : c.task = t /\ c.marked
<1>1. Init => WorkBacked
  BY DEF Init, WorkBacked, WorkInTree, NotDoneBefore, MergedOrFailed, Settled, WaveDepth
<1>2. TypeInv /\ SlotsFit /\ WorkBacked /\ [Next]_vars => WorkBacked'
  <2>1. CASE Next
    BY <2>1, TreeStep, NotDoneStep, MergedOrFailedStep, SettledStep, ConstantsAssumption
       DEF WorkBacked
  <2>2. CASE UNCHANGED vars
    <3>1. UNCHANGED <<pc, work, main, branch, status, slot, cursor, merge, outcome>>
      BY <2>2 DEF vars, db, git, wave
    <3> QED BY <3>1 DEF WorkBacked, WorkInTree, NotDoneBefore, MergedOrFailed, Settled,
              HasLatest, Backed, Base, Processed
  <2> QED BY <2>1, <2>2
<1>3. TypeInv /\ SlotsFit /\ WorkBacked /\ Next => A
  <2> SUFFICES ASSUME TypeInv, WorkBacked, Next, pc = "settle",
                      pc' \in {"top", "classify"}, ~outcome.retry,
                      outcome.terminal.reason \notin ThrottleStops,
                      NEW s \in Processed, NEW t, t = slot[s].task, status'[t] = "done"
               PROVE  HasLatest(t, main) \/ \E c \in main : c.task = t /\ c.marked
    OBVIOUS
  <2>1. Settle BY OnlySettleSettles
  <2>2. status' = Reopen(status, {m.task : m \in outcome.failed}, {"in_progress", "done"})
    BY <2>1 DEF Settle, ReopenedByMergeFailure
  <2>3. t \in Tasks BY DEF Processed, TypeInv, WaveShape
  <2>4. status[t] = "done" /\ \A m \in outcome.failed : m.task # t
    BY <2>2, <2>3 DEF Reopen
  <2> QED BY <2>4 DEF WorkBacked, Settled, Backed
<1>4. TypeInv /\ SlotsFit /\ WorkBacked /\ [Next]_vars => [A]_vars BY <1>3
<1> QED
  BY <1>1, <1>2, <1>4, TypeInvariant, SlotsFitInvariant, PTL
     DEF Spec, WaveMergesOrReopens
=============================================================================
