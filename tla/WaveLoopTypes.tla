---------------------------- MODULE WaveLoopTypes ----------------------------
(* The type invariant of WaveLoop holds in every reachable state, for every *)
(* set of tasks and every number of slots and iterations: one lemma for each *)
(* group of variables, with one step for each action that changes the group. *)
EXTENDS WaveLoop, TLAPS

\* Inside a wave an iteration has been taken from the budget, so giving it back
\* keeps the counter a natural number; a slot that is not idle has a task; and
\* slot 0, which has no branch of its own, is never merged.
InWave == pc \notin {"down", "stale", "top", "classify", "reclaim", "cleanup"}
WaveShape ==
  /\ InWave => iteration > 0
  /\ \A s \in Slots : slot[s].state # "idle" => slot[s].task \in Tasks
  /\ pc = "merge" => cursor > 0

TypeInv == TypeOK /\ WaveShape

-----------------------------------------------------------------------------
(* Lemmas about the helpers.                                               *)

LEMMA SlotsType ==
  ASSUME ConstantsAssumption
  PROVE  /\ NumSlots \in Nat /\ NumSlots >= 2
         /\ Slots = 0 .. NumSlots - 1 /\ Ephemeral \subseteq Slots
         /\ 0 \in Slots /\ \A s \in Ephemeral : s \in 1 .. NumSlots - 1
BY DEF ConstantsAssumption, Slots, Ephemeral

\* The table updates keep the table a function into the six statuses.
LEMMA UpdatesType ==
  ASSUME NEW st \in [Tasks -> Statuses], NEW S, NEW from
  PROVE  /\ Reopen(st, S, from) \in [Tasks -> Statuses]
         /\ Reclaim(st, S) \in [Tasks -> Statuses]
         /\ SetDone(st, S) \in [Tasks -> Statuses]
BY DEF Reopen, Reclaim, SetDone, Statuses

LEMMA ClearFailsType ==
  ASSUME fails \in [Tasks -> Nat], NEW st, NEW S
  PROVE  ClearFails(st, S) \in [Tasks -> Nat]
BY DEF ClearFails

LEMMA TagTargetsType ==
  ASSUME NEW tag, NEW u, NEW st
  PROVE  /\ TagTargets(tag, u, st) \subseteq Statuses \ {"in_progress"}
BY DEF TagTargets, Statuses

LEMMA OverflowType ==
  ASSUME NEW t \in Tasks, NEW r, NEW st \in [Tasks -> Statuses],
         NEW x \in OverflowApplied(t, r, st)
  PROVE  /\ x \in [Tasks -> Statuses]
         /\ \A u \in Tasks : x[u] = "in_progress" => st[u] = "in_progress"
         /\ \A u \in Tasks : u # t => x[u] = st[u]
BY DEF OverflowApplied, Statuses

LEMMA SlotTypes ==
  ASSUME ConstantsAssumption
  PROVE  Interrupted \in Results /\ IdleSlot \in SlotRecords
         /\ IdleSlots \in [Slots -> SlotRecords]
BY DEF ConstantsAssumption, Interrupted, Results, Outcomes, Tags, CommitKinds,
       IdleSlots, IdleSlot, SlotStates, SlotRecords

LEMMA TerminalTypes ==
  /\ NoTerminal \in TerminalRecords
  /\ \A code \in Nat, reason \in Reasons : Stop(code, reason) \in TerminalRecords
  /\ \A st : DrainedTerminal(st) \in TerminalRecords
<1>1. NoTerminal \in TerminalRecords
  BY DEF NoTerminal, TerminalRecords, Reasons
<1>2. \A code \in Nat, reason \in Reasons : Stop(code, reason) \in TerminalRecords
  BY DEF Stop, TerminalRecords
<1>3. \A st : DrainedTerminal(st) \in TerminalRecords
  <2> TAKE st
  <2>1. CASE InStatus(st, {"blocked", "skipped"}) = {}
    BY <2>1 DEF DrainedTerminal, TerminalRecords, Reasons
  <2>2. CASE InStatus(st, {"blocked", "skipped"}) # {}
    <3>1. DrainedTerminal(st) = Stop(1, "no schedulable tasks remain")
      BY <2>2 DEF DrainedTerminal
    <3> QED BY <3>1, <1>2 DEF Reasons
  <2> QED BY <2>1, <2>2
<1> QED BY <1>1, <1>2, <1>3

LEMMA OutcomeType ==
  ASSUME NEW consumed \in BOOLEAN, NEW retry \in BOOLEAN,
         NEW stopped \in BOOLEAN, NEW terminal \in TerminalRecords,
         NEW failed \in SUBSET FailedMerges
  PROVE  Outcome(consumed, retry, stopped, terminal, failed) \in OutcomeRecords
BY DEF Outcome, OutcomeRecords

\* The outcomes a wave returns with neither a terminal nor failed merges.
LEMMA OutcomeTypes ==
  /\ NoOutcome \in OutcomeRecords /\ Retry \in OutcomeRecords
  /\ SignalEnds \in OutcomeRecords
BY TerminalTypes DEF NoOutcome, Retry, SignalEnds, Outcome, OutcomeRecords,
   Reasons

LEMMA ReportTypes ==
  /\ NoReport \in ReportRecords
  /\ NoMerge \in MergeRecords /\ NoAgg \in AggRecords
BY DEF NoReport, ReportRecords, Reasons, NoMerge, MergeRecords, NoAgg,
       AggRecords, Commits

\* A slot that is not idle has a task and a well-formed result.
LEMMA ProcessedSlotTypes ==
  ASSUME ConstantsAssumption, TypeInv, NEW s \in Slots, slot[s].state # "idle"
  PROVE  /\ slot[s] \in SlotRecords /\ slot[s].task \in Tasks
         /\ slot[s].result \in Results
         /\ (IF slot[s].result.peer = NoTask THEN slot[s].task
             ELSE slot[s].result.peer) \in Tasks
<1>1. slot[s] \in SlotRecords BY DEF TypeInv, TypeOK, WaveTypeOK
<1>2. slot[s].task \in Tasks BY DEF TypeInv, WaveShape
<1>3. slot[s].result \in Results BY <1>1 DEF SlotRecords
<1>4. slot[s].result.peer \in Tasks \cup {NoTask} BY <1>3 DEF Results
<1> QED BY <1>1, <1>2, <1>3, <1>4

LEMMA LeaveType ==
  ASSUME NEW terminal \in TerminalRecords, NEW stopped \in BOOLEAN,
         Leave(terminal, stopped)
  PROVE  report' \in ReportRecords
BY DEF Leave, TerminalRecords, ReportRecords

LEMMA MarkedTasksType ==
  ASSUME GitTypeOK PROVE MarkedTasks \subseteq Tasks
BY DEF GitTypeOK, MarkedTasks, Commits

LEMMA InitTypes == ASSUME ConstantsAssumption, Init PROVE TypeInv
<1>1. DbTypeOK BY DEF Init, DbTypeOK, Statuses
<1>2. GitTypeOK BY DEF Init, GitTypeOK
<1>3. RunTypeOK BY DEF Init, RunTypeOK, PCs
<1>4. WaveTypeOK BY SlotTypes, OutcomeTypes, ReportTypes, SlotsType DEF Init, WaveTypeOK
<1>5. EnvTypeOK BY ReportTypes DEF Init, EnvTypeOK
<1>6. WaveShape BY DEF Init, WaveShape, InWave, IdleSlots, IdleSlot
<1> QED BY <1>1, <1>2, <1>3, <1>4, <1>5, <1>6 DEF TypeInv, TypeOK

LEMMA DbStep ==
  ASSUME ConstantsAssumption, TypeInv, Next PROVE DbTypeOK'
<1>a. DbTypeOK /\ GitTypeOK /\ RunTypeOK /\ WaveTypeOK /\ EnvTypeOK /\ WaveShape
  BY DEF TypeInv, TypeOK
<1> USE <1>a
<1>1. CASE StartLoop
  <2>1. Reclaim(status, Tasks) \in [Tasks -> Statuses]
    BY UpdatesType DEF DbTypeOK
  <2>2. SetDone(Reclaim(status, Tasks), passes) \in [Tasks -> Statuses]
    BY <2>1, UpdatesType
  <2> QED BY <1>1, <2>2 DEF DbTypeOK, StartLoop
<1>2. CASE BeginIteration
  <2>1. SetDone(status, passes) \in [Tasks -> Statuses]
    BY UpdatesType DEF DbTypeOK
  <2> QED BY <1>2, <2>1 DEF DbTypeOK, db, BeginIteration
<1>3. CASE NoEligibleTasks
  <2> DEFINE st == SetDone(status, Synced(status))
  <2>1. st \in [Tasks -> Statuses] BY UpdatesType DEF DbTypeOK
  <2>2. Reclaim(st, Tasks) \in [Tasks -> Statuses] BY <2>1, UpdatesType
  <2>3. status' = status \/ status' = Reclaim(st, Tasks)
    BY <1>3 DEF NoEligibleTasks
  <2>4. UNCHANGED <<fails, passes, edited>> BY <1>3 DEF NoEligibleTasks
  <2> QED BY <2>2, <2>3, <2>4 DEF DbTypeOK
<1>4. CASE ClaimSlate
  BY <1>4 DEF DbTypeOK, ClaimSlate, Statuses
<1>q. CASE QuotaEmpty
  <2>1. Reclaim(status, Tasks) \in [Tasks -> Statuses]
    BY UpdatesType DEF DbTypeOK
  <2> QED BY <1>q, <2>1 DEF DbTypeOK, QuotaEmpty
<1>5. CASE ReactToRateLimit
  <2>1. Reclaim(status, Tasks) \in [Tasks -> Statuses]
    BY UpdatesType DEF DbTypeOK
  <2> QED BY <1>5, <2>1 DEF DbTypeOK, db, ReactToRateLimit, Return
<1>6. CASE ReactToTransient
  <2>1. Reclaim(status, Tasks) \in [Tasks -> Statuses]
    BY UpdatesType DEF DbTypeOK
  <2> QED BY <1>6, <2>1 DEF DbTypeOK, db, ReactToTransient, Return
<1>7. CASE TrackFailures
  <2>1. status' \in [Tasks -> Statuses] BY <1>7 DEF DbTypeOK, TrackFailures, Statuses
  <2>2. fails' \in [Tasks -> Nat] BY <1>7 DEF DbTypeOK, TrackFailures
  <2> QED BY <1>7, <2>1, <2>2 DEF DbTypeOK, TrackFailures
<1>8. CASE PostMergeReconcile
  <2>0. MarkedTasks \subseteq Tasks BY MarkedTasksType
  <2>1. PICK R \in SUBSET Tasks :
          /\ status' = SetDone(status, R) /\ fails' = ClearFails(status, R)
          /\ passes' = passes \cup R /\ edited' = (edited \/ passes' # passes)
    BY <1>8, <2>0 DEF PostMergeReconcile
  <2>2. SetDone(status, R) \in [Tasks -> Statuses] BY UpdatesType DEF DbTypeOK
  <2>3. ClearFails(status, R) \in [Tasks -> Nat] BY ClearFailsType DEF DbTypeOK
  <2> QED BY <2>1, <2>2, <2>3 DEF DbTypeOK
<1>9. CASE Settle
  <2>1. ReopenedByMergeFailure(status, outcome.failed) \in [Tasks -> Statuses]
    BY UpdatesType DEF DbTypeOK, ReopenedByMergeFailure
  <2>2. \/ status' = status
        \/ status' = ReopenedByMergeFailure(status, outcome.failed)
    BY <1>9 DEF Settle
  <2>3. UNCHANGED <<fails, passes, edited>> BY <1>9 DEF Settle
  <2> QED BY <2>1, <2>2, <2>3 DEF DbTypeOK
<1>10. CASE ExitReclaim
  <2>1. Reclaim(status, pending) \in [Tasks -> Statuses]
    BY UpdatesType DEF DbTypeOK
  <2> QED BY <1>10, <2>1 DEF DbTypeOK, db, ExitReclaim
<1>11. ASSUME NEW s \in Slots, ProcessSlot(s) PROVE DbTypeOK'
  <2> DEFINE t == slot[s].task
             r == slot[s].result
             u == IF r.peer = NoTask THEN t ELSE r.peer
  <2>1. t \in Tasks /\ u \in Tasks
    <3>1. slot[s].state # "idle" BY <1>11 DEF ProcessSlot, Finished
    <3> QED BY <3>1, ProcessedSlotTypes
  <2>2. PICK st \in OverflowApplied(t, r, status) :
          LET target == TagTargets(r.tag, u, st)
              closes == target = {"done"}
          IN /\ status' = IF target = {} THEN st
                          ELSE [st EXCEPT ![u] = CHOOSE x \in target : TRUE]
             /\ passes' = IF closes THEN passes \cup {u} ELSE passes
             /\ edited' = (edited \/ passes' # passes)
             /\ fails' = ClearFails(st, IF closes THEN {u} ELSE {})
    BY <1>11 DEF ProcessSlot
  <2>3. st \in [Tasks -> Statuses] BY <2>1, OverflowType DEF DbTypeOK
  <2>4. status' \in [Tasks -> Statuses]
    <3>1. TagTargets(r.tag, u, st) \subseteq Statuses BY TagTargetsType
    <3> QED BY <2>2, <2>3, <3>1
  <2>5. fails' \in [Tasks -> Nat] BY <2>2, ClearFailsType DEF DbTypeOK
  <2>6. passes' \in SUBSET Tasks /\ edited' \in BOOLEAN
    BY <2>1, <2>2 DEF DbTypeOK
  <2> QED BY <2>4, <2>5, <2>6 DEF DbTypeOK
<1>12. ASSUME NEW s \in Slots, SkipSlot(s) PROVE DbTypeOK'
  BY <1>12 DEF DbTypeOK, db, SkipSlot
<1>13. ASSUME NEW s \in Slots, MergeSlot(s) PROVE DbTypeOK'
  BY <1>13 DEF DbTypeOK, db, MergeSlot, MergeOk, MergeFailed, AttemptHead
<1>14. ASSUME NEW s \in Slots, AgentFinishes(s) PROVE DbTypeOK'
  BY <1>14 DEF DbTypeOK, db, AgentFinishes
<1>15. ASSUME NEW t \in Tasks, OperatorCommand(t) PROVE DbTypeOK'
  <2>1. PICK x \in OperatorTargets(t) :
          /\ status' = [status EXCEPT ![t] = x]
          /\ fails' = ClearFails(status, IF x = "done" THEN {t} ELSE {})
    BY <1>15 DEF OperatorCommand
  <2>2. x \in Statuses BY DEF OperatorTargets, Statuses
  <2>3. fails' \in [Tasks -> Nat] BY <2>1, ClearFailsType DEF DbTypeOK
  <2> QED BY <1>15, <2>1, <2>2, <2>3 DEF DbTypeOK, OperatorCommand
<1>16. CASE ReconcileStaleSlots \/ LimitReached \/ DeadlineReached \/ BeginWave
  \/ QuotaGateStops \/ SelectSlate
  BY <1>16 DEF DbTypeOK, db, ReconcileStaleSlots, LimitReached, Leave,
    DeadlineReached, BeginWave, Return, QuotaGateStops, SelectSlate
<1>17. CASE EphemeralDeadlock \/ JoinWave \/ ProcessingDone \/ FastForward \/
  EndWave \/ ExitClassify
  BY <1>17 DEF DbTypeOK, db, EphemeralDeadlock, Return, JoinWave,
    ProcessingDone, FastForward, EndWave, ExitClassify
<1>18. CASE ExitCleanup \/ Kill \/ DropStopFile \/ Signal
  BY <1>18 DEF DbTypeOK, db, ExitCleanup, Forget, Kill, DropStopFile, Signal
<1> QED
  BY <1>q, <1>1, <1>2, <1>3, <1>4, <1>5, <1>6, <1>7, <1>8, <1>9, <1>10, <1>11, <1>12,
    <1>13, <1>14, <1>15, <1>16, <1>17, <1>18 DEF Next, Coordinator, Agents

LEMMA GitStep ==
  ASSUME ConstantsAssumption, TypeInv, Next PROVE GitTypeOK'
<1>a. DbTypeOK /\ GitTypeOK /\ RunTypeOK /\ WaveTypeOK /\ EnvTypeOK /\ WaveShape
  BY DEF TypeInv, TypeOK
<1> USE <1>a
<1>1. CASE ReconcileStaleSlots
  <2>1. main' = main \/ \E S \in SUBSET Ephemeral :
                         main' = main \cup UNION {branch[s] : s \in S}
    BY <1>1 DEF ReconcileStaleSlots, StaleWork
  <2>2. \A S \in SUBSET Ephemeral : UNION {branch[s] : s \in S} \subseteq Commits
    BY DEF GitTypeOK
  <2>3. main' \in SUBSET Commits BY <2>1, <2>2 DEF GitTypeOK
  <2>4. branch' \in [Ephemeral -> SUBSET Commits]
    BY <1>1, <2>3 DEF GitTypeOK, ReconcileStaleSlots, StaleWork
  <2> QED BY <1>1, <2>3, <2>4 DEF GitTypeOK, ReconcileStaleSlots
<1>2. CASE FastForward
  <2>1. PICK S : branch' = [e \in Ephemeral |-> Advanced(e, S)]
    BY <1>2 DEF FastForward
  <2>2. \A e \in Ephemeral : Advanced(e, S) \in SUBSET Commits
    BY DEF GitTypeOK, Advanced
  <2> QED BY <1>2, <2>1, <2>2 DEF GitTypeOK, FastForward
<1>3. CASE Kill
  <2>1. dirty' \subseteq Ephemeral
    BY <1>3 DEF GitTypeOK, Kill, Running, Ephemeral
  <2> QED BY <1>3, <2>1 DEF GitTypeOK, Kill
<1>4. ASSUME NEW s \in Slots, ProcessSlot(s) PROVE GitTypeOK'
  BY <1>4 DEF GitTypeOK, git, ProcessSlot, Tracked
<1>5. ASSUME NEW s \in Slots, SkipSlot(s) PROVE GitTypeOK'
  BY <1>5 DEF GitTypeOK, git, SkipSlot
<1>6. ASSUME NEW s \in Slots, MergeSlot(s) PROVE GitTypeOK'
  <2>1. s \in Ephemeral
    BY <1>6 DEF MergeSlot, WaveShape, Ephemeral
  <2>2. branch[s] \subseteq Commits BY <2>1 DEF GitTypeOK
  <2>3. main' = main \/ main' = main \cup branch[s]
    BY <1>6 DEF MergeSlot, MergeOk, MergeFailed, AttemptHead
  <2> QED BY <1>6, <2>2, <2>3 DEF GitTypeOK, MergeSlot
<1>7. ASSUME NEW s \in Slots, AgentFinishes(s) PROVE GitTypeOK'
  <2> DEFINE t == slot[s].task
  <2>1. t \in Tasks
    BY <1>7 DEF AgentFinishes, Running, WaveShape
  <2>2. PICK r \in AgentResults \cup {Interrupted} :
          LET new == IF r.commit = "none" THEN {}
                     ELSE {[task |-> t, n |-> work[t] + 1,
                            marked |-> r.commit = "marked"]}
          IN /\ work' = [work EXCEPT ![t] = IF r.commit = "none" THEN @
                                           ELSE @ + 1]
             /\ main' = IF s = 0 THEN main \cup new ELSE main
             /\ branch' = [e \in Ephemeral |->
                             IF e = s THEN branch[e] \cup new ELSE branch[e]]
    BY <1>7 DEF AgentFinishes
  <2>3. [task |-> t, n |-> work[t] + 1, marked |-> r.commit = "marked"]
          \in Commits
    BY <2>1 DEF GitTypeOK, Commits
  <2>4. work' \in [Tasks -> Nat] BY <2>1, <2>2 DEF GitTypeOK
  <2>5. main' \in SUBSET Commits /\ branch' \in [Ephemeral -> SUBSET Commits]
    BY <2>2, <2>3 DEF GitTypeOK
  <2>6. dirty' \in SUBSET Ephemeral
    BY <1>7 DEF AgentFinishes, GitTypeOK, Ephemeral
  <2> QED BY <2>4, <2>5, <2>6 DEF GitTypeOK
<1>8. ASSUME NEW t \in Tasks, OperatorCommand(t) PROVE GitTypeOK'
  BY <1>8 DEF GitTypeOK, git, OperatorCommand, OperatorTargets, Statuses
<1>9. CASE StartLoop \/ LimitReached \/ DeadlineReached \/ BeginIteration \/
  BeginWave \/ QuotaGateStops
  BY <1>9 DEF GitTypeOK, git, StartLoop, LimitReached, Leave, DeadlineReached,
    BeginIteration, BeginWave, Return, QuotaGateStops
<1>10. CASE SelectSlate \/ EphemeralDeadlock \/ NoEligibleTasks \/ QuotaEmpty
  \/ ClaimSlate \/ JoinWave \/ ProcessingDone
  BY <1>10 DEF GitTypeOK, git, SelectSlate, EphemeralDeadlock, Return,
    NoEligibleTasks, QuotaEmpty, ClaimSlate, JoinWave, ProcessingDone
<1>11. CASE ReactToRateLimit \/ ReactToTransient \/ TrackFailures \/
  PostMergeReconcile \/ EndWave \/ Settle
  BY <1>11 DEF GitTypeOK, git, ReactToRateLimit, Return, ReactToTransient,
    TrackFailures, PostMergeReconcile, EndWave, Settle, Leave
<1>12. CASE ExitClassify \/ ExitReclaim \/ ExitCleanup \/ DropStopFile \/
  Signal
  BY <1>12 DEF GitTypeOK, git, ExitClassify, ExitReclaim, ExitCleanup, Forget,
    DropStopFile, Signal
<1> QED
  BY <1>1, <1>2, <1>3, <1>4, <1>5, <1>6, <1>7, <1>8, <1>9, <1>10, <1>11, <1>12
    DEF Next, Coordinator, Agents

LEMMA RunStep ==
  ASSUME ConstantsAssumption, TypeInv, Next PROVE RunTypeOK'
<1>a. DbTypeOK /\ GitTypeOK /\ RunTypeOK /\ WaveTypeOK /\ EnvTypeOK /\ WaveShape
  BY DEF TypeInv, TypeOK
<1> USE <1>a
<1>1. CASE DeadlineReached
  <2>1. pc' = "classify" /\ iteration' = iteration + 1
        /\ UNCHANGED <<pending, streak, stale, crashes, transients>>
    BY <1>1 DEF DeadlineReached, Leave
  <2> QED BY <2>1 DEF RunTypeOK, PCs
<1>2. CASE NoEligibleTasks
  <2>1. pc' = "settle" /\ (stale' = stale \/ stale' = stale + 1)
        /\ UNCHANGED <<iteration, pending, streak, crashes, transients>>
    BY <1>2 DEF NoEligibleTasks, Return
  <2> QED BY <2>1 DEF RunTypeOK, PCs
<1>3. CASE ReactToTransient
  <2>1. /\ pc' \in {"track", "settle"}
        /\ transients' \in {0, transients, transients + 1}
        /\ UNCHANGED <<iteration, pending, streak, stale, crashes>>
    BY <1>3 DEF ReactToTransient, Return
  <2> QED BY <2>1 DEF RunTypeOK, PCs
<1>4. CASE Settle
  <2>1. /\ pc' \in {"top", "classify"}
        /\ iteration' = iteration \/ iteration' = iteration - 1
        /\ pending' \subseteq pending
        /\ streak' \in {0, streak, streak + 1}
        /\ UNCHANGED <<stale, crashes, transients>>
    BY <1>4 DEF Settle, Leave
  <2>2. iteration > 0 BY <1>4 DEF Settle, WaveShape, InWave
  <2> QED BY <2>1, <2>2 DEF RunTypeOK, PCs
<1>5. ASSUME NEW s \in Slots, ProcessSlot(s) PROVE RunTypeOK'
  <2>1. slot[s].task \in Tasks
    BY <1>5 DEF ProcessSlot, Finished, WaveShape
  <2>2. /\ pending' \subseteq pending \cup {slot[s].task}
        /\ crashes' \in {0, crashes}
        /\ UNCHANGED <<pc, iteration, streak, stale, transients>>
    BY <1>5 DEF ProcessSlot, Tracked
  <2> QED BY <2>1, <2>2 DEF RunTypeOK, PCs
<1>6. ASSUME NEW s \in Slots, SkipSlot(s) PROVE RunTypeOK'
  BY <1>6 DEF RunTypeOK, PCs, run, SkipSlot
<1>7. ASSUME NEW s \in Slots, MergeSlot(s) PROVE RunTypeOK'
  BY <1>7 DEF RunTypeOK, PCs, run, MergeSlot, MergeOk, MergeFailed, AttemptHead
<1>8. ASSUME NEW s \in Slots, AgentFinishes(s) PROVE RunTypeOK'
  BY <1>8 DEF RunTypeOK, PCs, run, AgentFinishes
<1>9. ASSUME NEW t \in Tasks, OperatorCommand(t) PROVE RunTypeOK'
  BY <1>9 DEF RunTypeOK, PCs, run, OperatorCommand, OperatorTargets, Statuses
<1>10. CASE StartLoop
  BY <1>10 DEF RunTypeOK, PCs, run, StartLoop
<1>11. CASE ReconcileStaleSlots
  BY <1>11 DEF RunTypeOK, PCs, run, ReconcileStaleSlots
<1>12. CASE LimitReached
  BY <1>12 DEF RunTypeOK, PCs, run, LimitReached, Leave
<1>13. CASE BeginIteration
  BY <1>13 DEF RunTypeOK, PCs, run, BeginIteration
<1>14. CASE BeginWave
  BY <1>14 DEF RunTypeOK, PCs, run, BeginWave, Return
<1>15. CASE QuotaGateStops \/ QuotaEmpty
  BY <1>15 DEF RunTypeOK, PCs, run, QuotaGateStops, QuotaEmpty, Return
<1>16. CASE SelectSlate
  BY <1>16 DEF RunTypeOK, PCs, run, SelectSlate
<1>17. CASE EphemeralDeadlock
  BY <1>17 DEF RunTypeOK, PCs, run, EphemeralDeadlock, Return
<1>18. CASE ClaimSlate
  BY <1>18 DEF RunTypeOK, PCs, run, ClaimSlate
<1>19. CASE JoinWave
  BY <1>19 DEF RunTypeOK, PCs, run, JoinWave, Return
<1>20. CASE ProcessingDone
  BY <1>20 DEF RunTypeOK, PCs, run, ProcessingDone
<1>21. CASE ReactToRateLimit
  BY <1>21 DEF RunTypeOK, PCs, run, ReactToRateLimit, Return
<1>22. CASE TrackFailures
  BY <1>22 DEF RunTypeOK, PCs, run, TrackFailures
<1>23. CASE FastForward
  BY <1>23 DEF RunTypeOK, PCs, run, FastForward
<1>24. CASE PostMergeReconcile
  BY <1>24 DEF RunTypeOK, PCs, run, PostMergeReconcile
<1>25. CASE EndWave
  BY <1>25 DEF RunTypeOK, PCs, run, EndWave, Return
<1>26. CASE ExitClassify
  BY <1>26 DEF RunTypeOK, PCs, run, ExitClassify
<1>27. CASE ExitReclaim
  BY <1>27 DEF RunTypeOK, PCs, run, ExitReclaim
<1>28. CASE ExitCleanup
  BY <1>28 DEF RunTypeOK, PCs, run, ExitCleanup, Forget
<1>29. CASE Kill
  BY <1>29 DEF RunTypeOK, PCs, run, Kill, Forget
<1>30. CASE DropStopFile
  BY <1>30 DEF RunTypeOK, PCs, run, DropStopFile
<1>31. CASE Signal
  BY <1>31 DEF RunTypeOK, PCs, run, Signal
<1> QED
  BY <1>1, <1>2, <1>3, <1>4, <1>5, <1>6, <1>7, <1>8, <1>9, <1>10, <1>11, <1>12,
    <1>13, <1>14, <1>15, <1>16, <1>17, <1>18, <1>19, <1>20, <1>21, <1>22,
    <1>23, <1>24, <1>25, <1>26, <1>27, <1>28, <1>29, <1>30, <1>31 DEF Next,
    Coordinator, Agents

LEMMA WaveStep ==
  ASSUME ConstantsAssumption, TypeInv, Next PROVE WaveTypeOK'
<1>a. DbTypeOK /\ GitTypeOK /\ RunTypeOK /\ WaveTypeOK /\ EnvTypeOK /\ WaveShape
  BY DEF TypeInv, TypeOK
<1> USE <1>a
<1>1. CASE BeginWave
  <2>1. outcome' \in {outcome,
                    SignalEnds,
                    Outcome(FALSE, FALSE, TRUE, Stop(0, "stop"), {}),
                    Outcome(TRUE, FALSE, FALSE, Stop(1, "crashes"), {})}
    BY <1>1 DEF BeginWave, Return
  <2>2. /\ Stop(0, "stop") \in TerminalRecords
        /\ Stop(1, "crashes") \in TerminalRecords
    BY TerminalTypes DEF Reasons
  <2>3. /\ Outcome(FALSE, FALSE, TRUE, Stop(0, "stop"), {}) \in OutcomeRecords
        /\ Outcome(TRUE, FALSE, FALSE, Stop(1, "crashes"), {}) \in OutcomeRecords
    BY <2>2, OutcomeType
  <2>4. UNCHANGED <<slot, cursor, agg, merge>> BY <1>1 DEF BeginWave
  <2> QED BY <2>1, <2>3, <2>4, OutcomeTypes DEF WaveTypeOK
<1>2. CASE QuotaGateStops
  <2>1. outcome' \in {Outcome(FALSE, FALSE, TRUE, Stop(0, "quota"), {}),
                    Outcome(FALSE, FALSE, FALSE, Stop(0, "quota"), {})}
    BY <1>2 DEF QuotaGateStops, Return
  <2>2. /\ Stop(0, "quota") \in TerminalRecords
    BY TerminalTypes DEF Reasons
  <2>3. /\ Outcome(FALSE, FALSE, TRUE, Stop(0, "quota"), {}) \in OutcomeRecords
        /\ Outcome(FALSE, FALSE, FALSE, Stop(0, "quota"), {}) \in OutcomeRecords
    BY <2>2, OutcomeType
  <2>4. UNCHANGED <<slot, cursor, agg, merge>> BY <1>2 DEF QuotaGateStops
  <2> QED BY <2>1, <2>3, <2>4, OutcomeTypes DEF WaveTypeOK
<1>3. CASE SelectSlate
  <2>0. PICK g \in Slates : \E f \in Assignments(g) :
          slot' = [s \in Slots |->
                    IF s \in DOMAIN f
                    THEN [IdleSlot EXCEPT !.task = f[s], !.state = "selected"]
                    ELSE IdleSlot]
    BY <1>3 DEF SelectSlate
  <2>1. PICK f \in Assignments(g) :
          slot' = [s \in Slots |->
                    IF s \in DOMAIN f
                    THEN [IdleSlot EXCEPT !.task = f[s], !.state = "selected"]
                    ELSE IdleSlot]
    BY <2>0
  <2>a. g \subseteq Tasks BY DEF Slates, Free, Eligible
  <2>b. \A s \in DOMAIN f : f[s] \in Tasks BY <2>a DEF Assignments
  <2>2. \A t \in Tasks : [IdleSlot EXCEPT !.task = t, !.state = "selected"]
                           \in SlotRecords
    BY SlotTypes DEF IdleSlot, SlotRecords, SlotStates
  <2>3. slot' \in [Slots -> SlotRecords]
    BY <2>1, <2>2, <2>b, SlotTypes
  <2>4. UNCHANGED <<cursor, agg, merge, outcome>> BY <1>3 DEF SelectSlate
  <2> QED BY <2>3, <2>4 DEF WaveTypeOK
<1>4. CASE EphemeralDeadlock
  <2>1. PICK B \in SUBSET Ephemeral :
          outcome' = Outcome(TRUE, FALSE, FALSE, NoTerminal,
                             {[slot |-> e, task |-> NoTask] : e \in B})
    BY <1>4 DEF EphemeralDeadlock, Return
  <2>2. {[slot |-> e, task |-> NoTask] : e \in B} \in SUBSET FailedMerges
    BY SlotsType DEF FailedMerges
  <2>3. outcome' \in OutcomeRecords BY <2>1, <2>2, OutcomeType, TerminalTypes
  <2>4. UNCHANGED <<slot, cursor, agg, merge>> BY <1>4 DEF EphemeralDeadlock
  <2> QED BY <2>3, <2>4 DEF WaveTypeOK
<1>5. CASE NoEligibleTasks
  <2>1. outcome' \in {NoOutcome,
                    Outcome(TRUE, FALSE, FALSE, DrainedTerminal(status), {}),
                    Outcome(TRUE, FALSE, FALSE, Stop(1, "stale"), {}),
                    Outcome(TRUE, FALSE, FALSE, NoTerminal, {})}
    BY <1>5 DEF NoEligibleTasks, Return
  <2>2. /\ DrainedTerminal(status) \in TerminalRecords
        /\ Stop(1, "stale") \in TerminalRecords
        /\ NoTerminal \in TerminalRecords
    BY TerminalTypes DEF Reasons
  <2>3. /\ Outcome(TRUE, FALSE, FALSE, DrainedTerminal(status), {}) \in OutcomeRecords
        /\ Outcome(TRUE, FALSE, FALSE, Stop(1, "stale"), {}) \in OutcomeRecords
        /\ Outcome(TRUE, FALSE, FALSE, NoTerminal, {}) \in OutcomeRecords
    BY <2>2, OutcomeType
  <2>4. UNCHANGED <<slot, cursor, agg, merge>> BY <1>5 DEF NoEligibleTasks
  <2> QED BY <2>1, <2>3, <2>4, OutcomeTypes DEF WaveTypeOK
<1>q. CASE QuotaEmpty
  <2>1. outcome' \in {Retry,
                    Outcome(TRUE, FALSE, FALSE, Stop(0, "quota"), {}),
                    Outcome(TRUE, FALSE, TRUE, Stop(130, "stop during wait"), {})}
    BY <1>q DEF QuotaEmpty, Return
  <2>2. /\ Stop(0, "quota") \in TerminalRecords
        /\ Stop(130, "stop during wait") \in TerminalRecords
        /\ NoTerminal \in TerminalRecords
    BY TerminalTypes DEF Reasons
  <2>3. /\ Retry \in OutcomeRecords
        /\ Outcome(TRUE, FALSE, FALSE, Stop(0, "quota"), {}) \in OutcomeRecords
        /\ Outcome(TRUE, FALSE, TRUE, Stop(130, "stop during wait"), {})
             \in OutcomeRecords
    BY <2>2, OutcomeType DEF Retry
  <2>4. UNCHANGED <<slot, cursor, agg, merge>> BY <1>q DEF QuotaEmpty
  <2> QED BY <2>1, <2>3, <2>4 DEF WaveTypeOK
<1>6. CASE ClaimSlate
  <2>1. \A r \in SlotRecords : /\ [r EXCEPT !.state = "running"] \in SlotRecords
                               /\ [r EXCEPT !.state = "refused"] \in SlotRecords
    BY DEF SlotRecords, SlotStates
  <2>2. slot' \in [Slots -> SlotRecords] BY <1>6, <2>1 DEF ClaimSlate, WaveTypeOK
  <2>3. UNCHANGED <<cursor, agg, merge, outcome>> BY <1>6 DEF ClaimSlate
  <2> QED BY <2>2, <2>3 DEF WaveTypeOK
<1>7. CASE JoinWave
  <2>1. Stop(1, "corruption") \in TerminalRecords BY TerminalTypes DEF Reasons
  <2>2. {[slot |-> SyntheticSlot, task |-> NoTask]} \in SUBSET FailedMerges
    BY SlotsType DEF FailedMerges, SyntheticSlot
  <2>3. Outcome(TRUE, FALSE, TRUE, Stop(1, "corruption"),
                {[slot |-> SyntheticSlot, task |-> NoTask]}) \in OutcomeRecords
    BY <2>1, <2>2, OutcomeType
  <2>4. outcome' \in OutcomeRecords
    BY <1>7, <2>3 DEF JoinWave, Return, WaveTypeOK
  <2>5. cursor' \in {cursor, 0} /\ agg' \in {agg, NoAgg} BY <1>7 DEF JoinWave
  <2>6. UNCHANGED <<slot, merge>> BY <1>7 DEF JoinWave
  <2> QED BY <2>4, <2>5, <2>6, ReportTypes, SlotsType DEF WaveTypeOK
<1>8. CASE ReactToRateLimit
  <2>1. outcome' \in {outcome,
                    Retry,
                    Outcome(TRUE, FALSE, FALSE, Stop(0, "usage/spend limit"), {}),
                    Outcome(TRUE, FALSE, TRUE, Stop(0, "stop during wait"), {})}
    BY <1>8 DEF ReactToRateLimit, Return
  <2>2. /\ Stop(0, "usage/spend limit") \in TerminalRecords
        /\ Stop(0, "stop during wait") \in TerminalRecords
    BY TerminalTypes DEF Reasons
  <2>3. /\ Outcome(TRUE, FALSE, FALSE, Stop(0, "usage/spend limit"), {}) \in OutcomeRecords
        /\ Outcome(TRUE, FALSE, TRUE, Stop(0, "stop during wait"), {}) \in OutcomeRecords
    BY <2>2, OutcomeType
  <2>4. UNCHANGED <<slot, cursor, agg, merge>> BY <1>8 DEF ReactToRateLimit
  <2> QED BY <2>1, <2>3, <2>4, OutcomeTypes DEF WaveTypeOK
<1>9. CASE ReactToTransient
  <2>1. outcome' \in {outcome,
                    Retry,
                    Outcome(TRUE, FALSE, TRUE, Stop(130, "stop during backoff"), {})}
    BY <1>9 DEF ReactToTransient, Return
  <2>2. /\ Stop(130, "stop during backoff") \in TerminalRecords
    BY TerminalTypes DEF Reasons
  <2>3. /\ Outcome(TRUE, FALSE, TRUE, Stop(130, "stop during backoff"), {}) \in OutcomeRecords
    BY <2>2, OutcomeType
  <2>4. UNCHANGED <<slot, cursor, agg, merge>> BY <1>9 DEF ReactToTransient
  <2> QED BY <2>1, <2>3, <2>4, OutcomeTypes DEF WaveTypeOK
<1>10. CASE TrackFailures
  <2>1. [NoMerge EXCEPT !.pre = main] \in MergeRecords
    BY ReportTypes DEF NoMerge, MergeRecords, GitTypeOK
  <2>2. cursor' \in 0 .. NumSlots BY <1>10, SlotsType DEF TrackFailures
  <2>3. UNCHANGED <<slot, agg, outcome>> /\ merge' = [NoMerge EXCEPT !.pre = main]
    BY <1>10 DEF TrackFailures
  <2> QED BY <2>1, <2>2, <2>3 DEF WaveTypeOK
<1>11. CASE FastForward
  <2>1. PICK stuck \in SUBSET merge.merged :
          merge' = [merge EXCEPT !.merged = @ \ stuck, !.failed = @ \cup stuck]
    BY <1>11 DEF FastForward
  <2>2. merge' \in MergeRecords BY <2>1 DEF WaveTypeOK, MergeRecords
  <2>3. UNCHANGED <<slot, cursor, agg, outcome>> BY <1>11 DEF FastForward
  <2> QED BY <2>2, <2>3 DEF WaveTypeOK
<1>12. CASE PostMergeReconcile
  <2>1. PICK R : agg' = [agg EXCEPT !.completed = @ \/ R # {}]
    BY <1>12 DEF PostMergeReconcile
  <2>2. agg' \in AggRecords BY <2>1 DEF WaveTypeOK, AggRecords
  <2>3. UNCHANGED <<slot, cursor, merge, outcome>> BY <1>12 DEF PostMergeReconcile
  <2> QED BY <2>2, <2>3 DEF WaveTypeOK
<1>13. CASE EndWave
  <2> DEFINE failed == {[slot |-> e, task |-> slot[e].task] : e \in merge.failed}
  <2>1. failed \in SUBSET FailedMerges
    <3>1. merge.failed \subseteq Ephemeral BY DEF WaveTypeOK, MergeRecords
    <3>2. \A e \in Ephemeral : slot[e].task \in Tasks \cup {NoTask}
      BY SlotsType DEF WaveTypeOK, SlotRecords
    <3> QED BY <3>1, <3>2, SlotsType DEF FailedMerges
  <2>2. /\ Stop(130, "signal") \in TerminalRecords
        /\ Stop(1, "crashes") \in TerminalRecords
        /\ DrainedTerminal(status) \in TerminalRecords
        /\ NoTerminal \in TerminalRecords
    BY TerminalTypes DEF Reasons
  <2>3. \E terminal \in TerminalRecords :
          outcome' = Outcome(TRUE, FALSE, FALSE, terminal, failed)
    <3> DEFINE drained == agg.completed /\ Drained(status)
    <3>1. CASE signalled BY <1>13, <2>2, <3>1 DEF EndWave, Return
    <3>2. CASE ~signalled /\ crashes >= MaxCrashes
      BY <1>13, <2>2, <3>2 DEF EndWave, Return
    <3>3. CASE ~signalled /\ ~(crashes >= MaxCrashes) /\ drained
      <4>1. crashes < MaxCrashes BY <3>3 DEF ConstantsAssumption, RunTypeOK
      <4> QED BY <1>13, <2>2, <3>3, <4>1 DEF EndWave, Return
    <3>4. CASE ~signalled /\ ~(crashes >= MaxCrashes) /\ ~drained
      BY <1>13, <2>2, <3>4 DEF EndWave, Return
    <3> QED BY <3>1, <3>2, <3>3, <3>4
  <2>4. outcome' \in OutcomeRecords
    <3>1. PICK terminal \in TerminalRecords :
            outcome' = Outcome(TRUE, FALSE, FALSE, terminal, failed)
      BY <2>3
    <3> HIDE DEF failed
    <3> QED BY <2>1, <3>1, OutcomeType
  <2>5. UNCHANGED <<slot, cursor, agg, merge>> BY <1>13 DEF EndWave
  <2> QED BY <2>4, <2>5 DEF WaveTypeOK
<1>14. CASE Settle
  <2>1. /\ slot' = IdleSlots /\ cursor' = 0 /\ agg' = NoAgg
        /\ merge' = NoMerge /\ outcome' = NoOutcome
    BY <1>14 DEF Settle
  <2> QED BY <2>1, SlotTypes, ReportTypes, OutcomeTypes, SlotsType DEF WaveTypeOK
<1>15. CASE ExitCleanup
  <2>1. /\ slot' = IdleSlots /\ cursor' = 0 /\ agg' = NoAgg
        /\ merge' = NoMerge /\ outcome' = NoOutcome
    BY <1>15 DEF ExitCleanup, Forget
  <2> QED BY <2>1, SlotTypes, ReportTypes, OutcomeTypes, SlotsType DEF WaveTypeOK
<1>16. CASE Kill
  <2>1. /\ slot' = IdleSlots /\ cursor' = 0 /\ agg' = NoAgg
        /\ merge' = NoMerge /\ outcome' = NoOutcome
    BY <1>16 DEF Kill, Forget
  <2> QED BY <2>1, SlotTypes, ReportTypes, OutcomeTypes, SlotsType DEF WaveTypeOK
<1>17. ASSUME NEW s \in Slots, ProcessSlot(s) PROVE WaveTypeOK'
  <2>1. slot[s] \in SlotRecords /\ slot[s].result.outcome \in Outcomes
    BY DEF WaveTypeOK, SlotRecords, Results
  <2>2. PICK live \in Outcomes : slot' = [slot EXCEPT ![s].state = "processed",
                                                     ![s].live = live]
    BY <1>17, <2>1 DEF ProcessSlot, Outcomes
  <2>3. slot' \in [Slots -> SlotRecords]
    BY <2>1, <2>2 DEF WaveTypeOK, SlotRecords, SlotStates
  <2>4. agg' \in AggRecords BY <1>17 DEF ProcessSlot, WaveTypeOK, AggRecords
  <2>5. cursor' \in 0 .. NumSlots BY <1>17, SlotsType DEF ProcessSlot, WaveTypeOK
  <2>6. UNCHANGED <<merge, outcome>> BY <1>17 DEF ProcessSlot
  <2> QED BY <2>3, <2>4, <2>5, <2>6 DEF WaveTypeOK
<1>18. ASSUME NEW s \in Slots, SkipSlot(s) PROVE WaveTypeOK'
  BY <1>18, SlotsType DEF SkipSlot, WaveTypeOK
<1>19. ASSUME NEW s \in Slots, MergeSlot(s) PROVE WaveTypeOK'
  <2>1. s \in Ephemeral BY <1>19 DEF MergeSlot, WaveShape, Ephemeral
  <2>2. merge' \in {[merge EXCEPT !.merged = @ \cup {s}],
                    [merge EXCEPT !.failed = @ \cup {s}],
                    [merge EXCEPT !.failed = @ \cup {s}, !.poisoned = TRUE]}
    BY <1>19 DEF MergeSlot, MergeOk, MergeFailed
  <2>3. merge' \in MergeRecords
    <3>1. merge \in MergeRecords BY DEF WaveTypeOK
    <3>2. /\ merge.merged \cup {s} \in SUBSET Ephemeral
          /\ merge.failed \cup {s} \in SUBSET Ephemeral
      BY <2>1, <3>1 DEF MergeRecords
    <3>3. /\ [merge EXCEPT !.merged = @ \cup {s}] \in MergeRecords
          /\ [merge EXCEPT !.failed = @ \cup {s}] \in MergeRecords
          /\ [merge EXCEPT !.failed = @ \cup {s}, !.poisoned = TRUE]
               \in MergeRecords
      BY <3>1, <3>2 DEF MergeRecords
    <3> QED BY <2>2, <3>3
  <2>4. cursor' \in 0 .. NumSlots
    <3>1. s + 1 \in 0 .. NumSlots BY SlotsType
    <3> QED BY <1>19, <3>1 DEF MergeSlot
  <2>5. UNCHANGED <<slot, agg, outcome>> BY <1>19 DEF MergeSlot
  <2> QED BY <2>3, <2>4, <2>5 DEF WaveTypeOK
<1>20. ASSUME NEW s \in Slots, AgentFinishes(s) PROVE WaveTypeOK'
  <2>1. AgentResults \cup {Interrupted} \subseteq Results
    BY SlotTypes DEF ConstantsAssumption
  <2>2. PICK r \in Results :
          slot' = [slot EXCEPT ![s].state = "finished", ![s].result = r,
                               ![s].live = r.outcome]
    BY <1>20, <2>1 DEF AgentFinishes
  <2>3. slot[s] \in SlotRecords /\ r.outcome \in Outcomes
    BY DEF WaveTypeOK, Results
  <2>4. slot' \in [Slots -> SlotRecords]
    BY <2>2, <2>3 DEF WaveTypeOK, SlotRecords, SlotStates
  <2>5. UNCHANGED <<cursor, agg, merge, outcome>> BY <1>20 DEF AgentFinishes
  <2> QED BY <2>4, <2>5 DEF WaveTypeOK
<1>21. ASSUME NEW t \in Tasks, OperatorCommand(t) PROVE WaveTypeOK'
  BY <1>21 DEF WaveTypeOK, wave, OperatorCommand, OperatorTargets, Statuses
<1>22. CASE StartLoop \/ ReconcileStaleSlots \/ LimitReached \/ DeadlineReached
  \/ BeginIteration \/ ProcessingDone
  BY <1>22 DEF WaveTypeOK, wave, StartLoop, ReconcileStaleSlots, LimitReached,
    Leave, DeadlineReached, BeginIteration, ProcessingDone
<1>23. CASE ExitClassify \/ ExitReclaim \/ DropStopFile \/ Signal
  BY <1>23 DEF WaveTypeOK, wave, ExitClassify, ExitReclaim, DropStopFile,
    Signal
<1> QED
  BY <1>q, <1>1, <1>2, <1>3, <1>4, <1>5, <1>6, <1>7, <1>8, <1>9, <1>10, <1>11, <1>12,
    <1>13, <1>14, <1>15, <1>16, <1>17, <1>18, <1>19, <1>20, <1>21, <1>22, <1>23
    DEF Next, Coordinator, Agents

LEMMA EnvStep ==
  ASSUME ConstantsAssumption, TypeInv, Next PROVE EnvTypeOK'
<1>a. DbTypeOK /\ GitTypeOK /\ RunTypeOK /\ WaveTypeOK /\ EnvTypeOK /\ WaveShape
  BY DEF TypeInv, TypeOK
<1> USE <1>a
<1>1. CASE StartLoop
  BY <1>1, ReportTypes DEF EnvTypeOK, StartLoop
<1>2. CASE ReconcileStaleSlots
  <2>1. report' \in {report,
           [NoReport EXCEPT !.code = 1, !.reason = "dirty slot worktree"],
           [NoReport EXCEPT !.code = 1, !.reason = "un-merged slot branch"]}
    BY <1>2 DEF ReconcileStaleSlots
  <2>2. report' \in ReportRecords
    <3>1. /\ [NoReport EXCEPT !.code = 1, !.reason = "dirty slot worktree"]
               \in ReportRecords
          /\ [NoReport EXCEPT !.code = 1, !.reason = "un-merged slot branch"]
               \in ReportRecords
      BY DEF NoReport, ReportRecords, Reasons
    <3> QED BY <2>1, <3>1 DEF EnvTypeOK
  <2>3. signalled' \in {signalled, FALSE}
        /\ UNCHANGED <<stopFile, starts, throttles, kills, ops, stops>>
    BY <1>2 DEF ReconcileStaleSlots
  <2> QED BY <2>2, <2>3 DEF EnvTypeOK
<1>3. CASE LimitReached
  <2>1. Stop(0, "max iterations reached") \in TerminalRecords BY TerminalTypes DEF Reasons
  <2>2. report' \in ReportRecords
    BY <1>3, <2>1, LeaveType DEF LimitReached
  <2> QED BY <1>3, <2>2 DEF EnvTypeOK, env, LimitReached
<1>4. CASE DeadlineReached
  <2>1. Stop(0, "deadline reached") \in TerminalRecords BY TerminalTypes DEF Reasons
  <2>2. report' \in ReportRecords
    BY <1>4, <2>1, LeaveType DEF DeadlineReached
  <2> QED BY <1>4, <2>2 DEF EnvTypeOK, env, DeadlineReached
<1>5. CASE QuotaGateStops
  BY <1>5 DEF EnvTypeOK, env, QuotaGateStops, Return
<1>q. CASE QuotaEmpty
  <2>1. /\ throttles' = throttles + 1
        /\ UNCHANGED <<report, stopFile, signalled, starts, kills, ops, stops>>
    BY <1>q DEF QuotaEmpty
  <2> QED BY <2>1 DEF EnvTypeOK
<1>6. CASE Settle
  <2>1. Stop(1, "merge failures") \in TerminalRecords
    BY TerminalTypes DEF Reasons
  <2>2. outcome.terminal \in TerminalRecords /\ outcome.stopped \in BOOLEAN
    BY DEF WaveTypeOK, OutcomeRecords
  <2>3. \/ report' = report
        \/ Leave(Stop(1, "merge failures"), outcome.stopped)
        \/ Leave(outcome.terminal, outcome.stopped)
    BY <1>6 DEF Settle
  <2>4. report' \in ReportRecords
    BY <2>1, <2>2, <2>3, LeaveType DEF EnvTypeOK
  <2> QED BY <1>6, <2>4 DEF EnvTypeOK, env, Settle
<1>7. CASE ExitClassify
  <2>1. PICK x \in {report, [report EXCEPT !.code = 1, !.reason = "tasks remaining"],
                    [report EXCEPT !.reason = "all tasks complete",
                                   !.completed = TRUE]} :
          report' = [x EXCEPT !.prdComplete = PrdComplete(status)]
    BY <1>7 DEF ExitClassify
  <2>2. report \in ReportRecords BY DEF EnvTypeOK
  <2>3. x \in ReportRecords
    <3>1. /\ [report EXCEPT !.code = 1, !.reason = "tasks remaining"]
               \in ReportRecords
          /\ [report EXCEPT !.reason = "all tasks complete", !.completed = TRUE]
               \in ReportRecords
      BY <2>2 DEF ReportRecords, Reasons
    <3> QED BY <2>1, <2>2, <3>1
  <2>4. PrdComplete(status) \in BOOLEAN BY DEF PrdComplete, Drained
  <2>5. report' \in ReportRecords BY <2>1, <2>3, <2>4 DEF ReportRecords
  <2> QED BY <1>7, <2>5 DEF EnvTypeOK, env, ExitClassify
<1>8. CASE ExitCleanup
  BY <1>8 DEF EnvTypeOK, env, ExitCleanup, Forget
<1>9. CASE Kill
  <2>1. /\ kills' = kills + 1 /\ report' = NoReport /\ signalled' = FALSE
        /\ UNCHANGED <<stopFile, starts, throttles, ops, stops>>
    BY <1>9 DEF Kill, Forget
  <2>2. report' \in ReportRecords BY <2>1, ReportTypes
  <2>3. stopFile' \in BOOLEAN /\ signalled' \in BOOLEAN BY <2>1 DEF EnvTypeOK
  <2>4. /\ starts' \in Nat /\ throttles' \in Nat /\ kills' \in Nat
        /\ ops' \in Nat /\ stops' \in Nat
    BY <2>1 DEF EnvTypeOK
  <2> QED BY <2>2, <2>3, <2>4 DEF EnvTypeOK
<1>10. CASE DropStopFile
  BY <1>10 DEF EnvTypeOK, env, DropStopFile
<1>11. CASE Signal
  BY <1>11 DEF EnvTypeOK, env, Signal
<1>12. ASSUME NEW s \in Slots, ProcessSlot(s) PROVE EnvTypeOK'
  BY <1>12 DEF EnvTypeOK, env, ProcessSlot, Tracked
<1>13. ASSUME NEW s \in Slots, SkipSlot(s) PROVE EnvTypeOK'
  BY <1>13 DEF EnvTypeOK, env, SkipSlot
<1>14. ASSUME NEW s \in Slots, MergeSlot(s) PROVE EnvTypeOK'
  BY <1>14 DEF EnvTypeOK, env, MergeSlot, MergeOk, MergeFailed, AttemptHead
<1>15. ASSUME NEW s \in Slots, AgentFinishes(s) PROVE EnvTypeOK'
  BY <1>15 DEF EnvTypeOK, env, AgentFinishes
<1>16. ASSUME NEW t \in Tasks, OperatorCommand(t) PROVE EnvTypeOK'
  BY <1>16 DEF EnvTypeOK, env, OperatorCommand, OperatorTargets, Statuses
<1>17. CASE BeginIteration \/ BeginWave
  BY <1>17 DEF EnvTypeOK, env, BeginIteration, BeginWave, Return
<1>18. CASE SelectSlate \/ EphemeralDeadlock
  BY <1>18 DEF EnvTypeOK, env, SelectSlate, EphemeralDeadlock, Return
<1>19. CASE NoEligibleTasks \/ ClaimSlate
  BY <1>19 DEF EnvTypeOK, env, NoEligibleTasks, Return, ClaimSlate
<1>20. CASE JoinWave \/ ProcessingDone
  BY <1>20 DEF EnvTypeOK, env, JoinWave, Return, ProcessingDone
<1>21. CASE ReactToRateLimit \/ ReactToTransient
  BY <1>21 DEF EnvTypeOK, env, ReactToRateLimit, Return, ReactToTransient
<1>22. CASE TrackFailures \/ FastForward
  BY <1>22 DEF EnvTypeOK, env, TrackFailures, FastForward
<1>23. CASE PostMergeReconcile \/ EndWave
  BY <1>23 DEF EnvTypeOK, env, PostMergeReconcile, EndWave, Return
<1>24. CASE ExitReclaim
  BY <1>24 DEF EnvTypeOK, env, ExitReclaim
<1> QED
  BY <1>q, <1>1, <1>2, <1>3, <1>4, <1>5, <1>6, <1>7, <1>8, <1>9, <1>10, <1>11, <1>12,
    <1>13, <1>14, <1>15, <1>16, <1>17, <1>18, <1>19, <1>20, <1>21, <1>22,
    <1>23, <1>24 DEF Next, Coordinator, Agents

LEMMA ShapeStep ==
  ASSUME ConstantsAssumption, TypeInv, Next PROVE WaveShape'
<1>a. DbTypeOK /\ GitTypeOK /\ RunTypeOK /\ WaveTypeOK /\ EnvTypeOK /\ WaveShape
  BY DEF TypeInv, TypeOK
<1> USE <1>a
<1>1. CASE SelectSlate
  <2>0. PICK g \in Slates : \E f \in Assignments(g) :
          slot' = [s \in Slots |->
                    IF s \in DOMAIN f
                    THEN [IdleSlot EXCEPT !.task = f[s], !.state = "selected"]
                    ELSE IdleSlot]
    BY <1>1 DEF SelectSlate
  <2>1. PICK f \in Assignments(g) :
          slot' = [s \in Slots |->
                    IF s \in DOMAIN f
                    THEN [IdleSlot EXCEPT !.task = f[s], !.state = "selected"]
                    ELSE IdleSlot]
    BY <2>0
  <2>a. g \subseteq Tasks BY DEF Slates, Free, Eligible
  <2>b. \A s \in DOMAIN f : f[s] \in Tasks BY <2>a DEF Assignments
  <2>2. \A s \in Slots : slot'[s].state # "idle" => slot'[s].task \in Tasks
    BY <2>1, <2>b DEF IdleSlot
  <2>3. pc' = "claim" /\ pc = "select" /\ iteration' = iteration
    BY <1>1 DEF SelectSlate
  <2> QED BY <2>2, <2>3 DEF WaveShape, InWave
<1>2. CASE ClaimSlate
  <2>1. \A s \in Slots : slot'[s].state # "idle" => slot'[s].task \in Tasks
    BY <1>2 DEF ClaimSlate, WaveShape, WaveTypeOK, SlotRecords, Selected
  <2>2. pc' = "run" /\ pc = "claim" /\ iteration' = iteration
    BY <1>2 DEF ClaimSlate, run
  <2> QED BY <2>1, <2>2 DEF WaveShape, InWave
<1>3. ASSUME NEW s \in Slots, ProcessSlot(s) PROVE WaveShape'
  <2>1. PICK live : slot' = [slot EXCEPT ![s].state = "processed",
                                        ![s].live = live]
    BY <1>3 DEF ProcessSlot
  <2>2. slot[s].task \in Tasks BY <1>3 DEF ProcessSlot, Finished, WaveShape
  <2>3. \A e \in Slots : slot'[e].state # "idle" => slot'[e].task \in Tasks
    BY <2>1, <2>2 DEF WaveShape, WaveTypeOK, SlotRecords
  <2>4. pc' = "process" /\ pc = "process" /\ iteration' = iteration
    BY <1>3 DEF ProcessSlot
  <2> QED BY <2>3, <2>4 DEF WaveShape, InWave
<1>4. ASSUME NEW s \in Slots, SkipSlot(s) PROVE WaveShape'
  BY <1>4 DEF WaveShape, InWave, wave, run, RunTypeOK, IdleSlots, IdleSlot,
    SkipSlot
<1>5. ASSUME NEW s \in Slots, MergeSlot(s) PROVE WaveShape'
  <2>1. UNCHANGED <<pc, slot, iteration>> /\ cursor' = s + 1 /\ s \in Nat
    BY <1>5, SlotsType DEF MergeSlot, run
  <2> QED BY <2>1 DEF WaveShape, InWave
<1>6. ASSUME NEW s \in Slots, AgentFinishes(s) PROVE WaveShape'
  <2>1. PICK r : slot' = [slot EXCEPT ![s].state = "finished",
                                     ![s].result = r, ![s].live = r.outcome]
    BY <1>6 DEF AgentFinishes
  <2>2. slot[s].task \in Tasks BY <1>6 DEF AgentFinishes, Running, WaveShape
  <2>3. \A e \in Slots : slot'[e].state # "idle" => slot'[e].task \in Tasks
    BY <2>1, <2>2 DEF WaveShape, WaveTypeOK, SlotRecords
  <2>4. pc' = pc /\ pc = "run" /\ iteration' = iteration
    BY <1>6 DEF AgentFinishes, run
  <2> QED BY <2>3, <2>4 DEF WaveShape, InWave
<1>7. ASSUME NEW t \in Tasks, OperatorCommand(t) PROVE WaveShape'
  BY <1>7 DEF WaveShape, InWave, wave, run, RunTypeOK, IdleSlots, IdleSlot,
    OperatorCommand, OperatorTargets, Statuses
<1>8. CASE StartLoop
  BY <1>8 DEF WaveShape, InWave, wave, run, RunTypeOK, IdleSlots, IdleSlot,
    StartLoop
<1>9. CASE ReconcileStaleSlots
  BY <1>9 DEF WaveShape, InWave, wave, run, RunTypeOK, IdleSlots, IdleSlot,
    ReconcileStaleSlots
<1>10. CASE LimitReached
  BY <1>10 DEF WaveShape, InWave, wave, run, RunTypeOK, IdleSlots, IdleSlot,
    LimitReached, Leave
<1>11. CASE DeadlineReached
  BY <1>11 DEF WaveShape, InWave, wave, run, RunTypeOK, IdleSlots, IdleSlot,
    DeadlineReached, Leave
<1>12. CASE BeginIteration
  BY <1>12 DEF WaveShape, InWave, wave, run, RunTypeOK, IdleSlots, IdleSlot,
    BeginIteration
<1>13. CASE BeginWave
  BY <1>13 DEF WaveShape, InWave, wave, run, RunTypeOK, IdleSlots, IdleSlot,
    BeginWave, Return
<1>14. CASE QuotaGateStops
  BY <1>14 DEF WaveShape, InWave, wave, run, RunTypeOK, IdleSlots, IdleSlot,
    QuotaGateStops, Return
<1>15. CASE EphemeralDeadlock
  BY <1>15 DEF WaveShape, InWave, wave, run, RunTypeOK, IdleSlots, IdleSlot,
    EphemeralDeadlock, Return
<1>q. CASE QuotaEmpty
  BY <1>q DEF WaveShape, InWave, wave, run, RunTypeOK, IdleSlots, IdleSlot,
    QuotaEmpty, Return
<1>16. CASE NoEligibleTasks
  BY <1>16 DEF WaveShape, InWave, wave, run, RunTypeOK, IdleSlots, IdleSlot,
    NoEligibleTasks, Return
<1>17. CASE JoinWave
  BY <1>17 DEF WaveShape, InWave, wave, run, RunTypeOK, IdleSlots, IdleSlot,
    JoinWave, Return
<1>18. CASE ProcessingDone
  BY <1>18 DEF WaveShape, InWave, wave, run, RunTypeOK, IdleSlots, IdleSlot,
    ProcessingDone
<1>19. CASE ReactToRateLimit
  BY <1>19 DEF WaveShape, InWave, wave, run, RunTypeOK, IdleSlots, IdleSlot,
    ReactToRateLimit, Return
<1>20. CASE ReactToTransient
  BY <1>20 DEF WaveShape, InWave, wave, run, RunTypeOK, IdleSlots, IdleSlot,
    ReactToTransient, Return
<1>21. CASE TrackFailures
  BY <1>21 DEF WaveShape, InWave, wave, run, RunTypeOK, IdleSlots, IdleSlot,
    TrackFailures
<1>22. CASE FastForward
  BY <1>22 DEF WaveShape, InWave, wave, run, RunTypeOK, IdleSlots, IdleSlot,
    FastForward
<1>23. CASE PostMergeReconcile
  BY <1>23 DEF WaveShape, InWave, wave, run, RunTypeOK, IdleSlots, IdleSlot,
    PostMergeReconcile
<1>24. CASE EndWave
  BY <1>24 DEF WaveShape, InWave, wave, run, RunTypeOK, IdleSlots, IdleSlot,
    EndWave, Return
<1>25. CASE Settle
  BY <1>25 DEF WaveShape, InWave, wave, run, RunTypeOK, IdleSlots, IdleSlot,
    Settle, Leave
<1>26. CASE ExitClassify
  BY <1>26 DEF WaveShape, InWave, wave, run, RunTypeOK, IdleSlots, IdleSlot,
    ExitClassify
<1>27. CASE ExitReclaim
  BY <1>27 DEF WaveShape, InWave, wave, run, RunTypeOK, IdleSlots, IdleSlot,
    ExitReclaim
<1>28. CASE ExitCleanup
  BY <1>28 DEF WaveShape, InWave, wave, run, RunTypeOK, IdleSlots, IdleSlot,
    ExitCleanup, Forget
<1>29. CASE Kill
  BY <1>29 DEF WaveShape, InWave, wave, run, RunTypeOK, IdleSlots, IdleSlot,
    Kill, Forget
<1>30. CASE DropStopFile
  BY <1>30 DEF WaveShape, InWave, wave, run, RunTypeOK, IdleSlots, IdleSlot,
    DropStopFile
<1>31. CASE Signal
  BY <1>31 DEF WaveShape, InWave, wave, run, RunTypeOK, IdleSlots, IdleSlot,
    Signal
<1> QED
  BY <1>q, <1>1, <1>2, <1>3, <1>4, <1>5, <1>6, <1>7, <1>8, <1>9, <1>10, <1>11, <1>12,
    <1>13, <1>14, <1>15, <1>16, <1>17, <1>18, <1>19, <1>20, <1>21, <1>22,
    <1>23, <1>24, <1>25, <1>26, <1>27, <1>28, <1>29, <1>30, <1>31 DEF Next,
    Coordinator, Agents
LEMMA TypeStep ==
  ASSUME ConstantsAssumption, TypeInv, [Next]_vars PROVE TypeInv'
<1>1. CASE Next
  BY <1>1, DbStep, GitStep, RunStep, WaveStep, EnvStep, ShapeStep
     DEF TypeInv, TypeOK
<1>2. CASE UNCHANGED vars
  BY <1>2 DEF vars, db, git, run, wave, env, TypeInv, TypeOK, DbTypeOK,
              GitTypeOK, RunTypeOK, WaveTypeOK, EnvTypeOK, WaveShape, InWave
<1> QED BY <1>1, <1>2

LEMMA TypeInvariant == Spec => []TypeInv
<1>1. Init => TypeInv BY InitTypes, ConstantsAssumption
<1>2. TypeInv /\ [Next]_vars => TypeInv' BY TypeStep, ConstantsAssumption
<1> QED BY <1>1, <1>2, PTL DEF Spec

\* The variables of every reachable state have their types: an iteration given
\* back by a wave that only waited never takes the counter below zero, and the
\* table never holds anything but the six statuses.
THEOREM TypeCorrect == Spec => []TypeOK
<1>1. TypeInv => TypeOK BY DEF TypeInv
<1> QED BY <1>1, TypeInvariant, PTL
=============================================================================
