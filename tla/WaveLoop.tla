------------------------------ MODULE WaveLoop ------------------------------
(***************************************************************************)
(* The parallel wave loop of task-mgr: one coordinator thread selects a    *)
(* slate of tasks, claims them, runs one agent per slot (slot 0 in the     *)
(* loop branch's own worktree, every other slot on an ephemeral branch),   *)
(* folds the agents' outputs into the task database and the PRD file, and  *)
(* merges the slot branches back into the loop branch.  Operators, agents, *)
(* a .stop file, a signal and a crash of the process interleave with it.   *)
(*                                                                         *)
(* The database (status, fails), the PRD's "passes" flags and git survive  *)
(* a crash; the coordinator's own variables do not.                        *)
(***************************************************************************)
EXTENDS Naturals, FiniteSets

CONSTANTS
  Tasks,                \* the tasks of one PRD
  NoTask,               \* absence of a task id (Option::None)
  DependsOn,            \* task_relationships: t -> the tasks it depends on
  Files,                \* files of the repository
  TouchesFiles,         \* what a task's touchesFiles declares
  ChangesFiles,         \* what its commits really change
  NumSlots,             \* parallel_slots
  MaxIterations,        \* iteration budget of one run
  HaltThreshold,        \* merge_fail_halt_threshold, 0 = never halt
  MaxCrashes,           \* CrashTracker limit
  StaleThreshold,       \* StaleTracker limit
  MaxRetries,           \* tasks.max_retries, 0 = never auto-block
  TransientMaxAttempts, \* TRANSIENT_MAX_ATTEMPTS
  AgentResults,         \* the outputs an agent may produce (see Results)
  Faults,               \* which faults occur: "conflict", "poison", "prd", ...
  CodexWaves,           \* a wave may run Codex and corrupt protected state
  DeadlineSet,          \* a deadline file exists
  MaxStarts,            \* bound: runs of the loop
  MaxThrottles,         \* bound: throttled outputs, quota stops and waits
  MaxKills,             \* bound: crashes of the process
  MaxOps,               \* bound: operator commands
  MaxStops              \* bound: .stop files and signals

Slots == 0 .. NumSlots - 1
Ephemeral == Slots \ {0}      \* slots with a branch of their own
Statuses == {"todo", "in_progress", "done", "blocked", "skipped", "irrelevant"}
Open == {"todo", "in_progress"}                    \* not is_terminal
Terminal == Statuses \ Open
\* "empty" stands for a reorder request too.
Outcomes == {"completed", "no_signal", "crash", "overflow", "auth_failure",
             "rate_limit", "transient", "empty"}
Crashed == {"crash", "overflow", "auth_failure"}
Throttled == {"rate_limit", "transient"}
\* One side-band tag per output: a <completed> tag or a <task-status> change.
Tags == {"none", "completed", "done", "failed", "skipped", "irrelevant",
         "unblock", "reset"}
\* Whether the agent committed, and with the <TASK-ID>-completed marker or not
CommitKinds == {"none", "plain", "marked"}
Results == [outcome : Outcomes, tag : Tags, peer : Tasks \cup {NoTask},
            commit : CommitKinds]
Interrupted == [outcome |-> "empty", tag |-> "none", peer |-> NoTask,
                commit |-> "none"]

\* Git: the n-th commit made for a task.
Commits == [task : Tasks, n : Nat \ {0}, marked : BOOLEAN]

ASSUME ConstantsAssumption ==
  /\ NoTask \notin Tasks /\ IsFiniteSet(Tasks)
  /\ DependsOn \in [Tasks -> SUBSET Tasks]
  /\ TouchesFiles \in [Tasks -> SUBSET Files]
  /\ ChangesFiles \in [Tasks -> SUBSET Files]
  /\ NumSlots \in Nat \ {0, 1}
  /\ MaxIterations \in Nat /\ HaltThreshold \in Nat /\ MaxCrashes \in Nat
  /\ StaleThreshold \in Nat /\ MaxRetries \in Nat
  /\ TransientMaxAttempts \in Nat
  /\ AgentResults \subseteq Results
  /\ {CodexWaves, DeadlineSet} \subseteq BOOLEAN
  /\ MaxStarts \in Nat /\ MaxThrottles \in Nat /\ MaxKills \in Nat
  /\ MaxOps \in Nat /\ MaxStops \in Nat

VARIABLES
  status, fails,        \* tasks.status, tasks.consecutive_failures
  passes,               \* tasks whose PRD story has passes: true
  edited,               \* the PRD file differs from prd_hash
  work,                 \* ghost: commits made for each task so far
  main,                 \* commits reachable from the loop branch
  branch,               \* commits reachable from each slot's branch
  dirty,                \* slots whose worktree holds uncommitted changes
  pc,                   \* where the coordinator is
  iteration,            \* iterations consumed from the budget
  pending,              \* ctx.pending_slot_tasks
  streak,               \* ctx.consecutive_merge_fail_waves
  stale, crashes,       \* StaleTracker, CrashTracker
  transients,           \* ctx.transient_backend_attempts
  slot,                 \* SlotContext / SlotResult of the current wave
  cursor,               \* the slot being processed or merged
  agg,                  \* WaveAggregator
  merge,                \* MergeOutcomes and the slot-0 poison marker
  outcome,              \* WaveOutcome
  report,               \* exit code, reason, run status, prd_complete
  stopFile, signalled,  \* .stop file, SignalFlag
  starts, throttles, kills, ops, stops  \* the bounds' counters

db    == <<status, fails, passes, edited>>
git   == <<work, main, branch, dirty>>
run   == <<iteration, pending, streak, stale, crashes, transients>>
wave  == <<slot, cursor, agg, merge, outcome>>
env   == <<stopFile, signalled, starts, throttles, kills, ops, stops>>
vars  == <<db, git, pc, run, wave, report, env>>

-----------------------------------------------------------------------------
(* Values of the coordinator's records.                                    *)

IdleSlot == [task |-> NoTask, state |-> "idle", result |-> Interrupted,
             live |-> "empty"]
IdleSlots == [s \in Slots |-> IdleSlot]
NoAgg == [completed |-> FALSE, allCrashed |-> TRUE]
NoMerge == [pre |-> {}, merged |-> {}, failed |-> {}, poisoned |-> FALSE]

NoTerminal == [code |-> 0, reason |-> "none", completed |-> FALSE]
Stop(code, reason) == [code |-> code, reason |-> reason, completed |-> FALSE]
\* consumed: the wave uses up an iteration; retry: rate_limited_retry;
\* stopped: was_stopped; failed: FailedMerge entries.
Outcome(consumed, retry, stopped, terminal, failed) ==
  [consumed |-> consumed, retry |-> retry, stopped |-> stopped,
   terminal |-> terminal, failed |-> failed]
NoOutcome == Outcome(TRUE, FALSE, FALSE, NoTerminal, {})

NoReport == [code |-> 0, reason |-> "none", completed |-> FALSE,
             stopped |-> FALSE, prdComplete |-> FALSE]

\* WaveOutcome::failed_merges may name a slot that does not exist.
SyntheticSlot == NumSlots

Init ==
  /\ status = [t \in Tasks |-> "todo"]
  /\ fails = [t \in Tasks |-> 0]
  /\ passes = {} /\ edited = FALSE
  /\ work = [t \in Tasks |-> 0]
  /\ main = {} /\ branch = [s \in Ephemeral |-> {}] /\ dirty = {}
  /\ pc = "down"
  /\ iteration = 0 /\ pending = {} /\ streak = 0 /\ stale = 0
  /\ crashes = 0 /\ transients = 0
  /\ slot = IdleSlots /\ cursor = 0 /\ agg = NoAgg
  /\ merge = NoMerge /\ outcome = NoOutcome /\ report = NoReport
  /\ stopFile = FALSE /\ signalled = FALSE
  /\ starts = 0 /\ throttles = 0 /\ kills = 0 /\ ops = 0 /\ stops = 0

-----------------------------------------------------------------------------
(* Helpers on the task table.                                              *)

InStatus(st, S) == {t \in Tasks : st[t] \in S}

\* dependency_checker: done and irrelevant dependencies are satisfied.
DepsSatisfied(t, st) ==
  \A d \in DependsOn[t] : st[d] \in {"done", "irrelevant"}

\* complete without --force: in_progress with its dependencies satisfied, or
\* already done.
Completable(t, st) ==
  st[t] = "done" \/ (st[t] = "in_progress" /\ DepsSatisfied(t, st))

\* UPDATE ... SET status = 'todo' WHERE id IN S AND status IN from
Reopen(st, S, from) ==
  [t \in Tasks |-> IF t \in S /\ st[t] \in from THEN "todo" ELSE st[t]]

\* The sweeps that hand claims back touch in_progress rows only.
ReclaimAnyOpenOrParked(st, S) == Reopen(st, S, Statuses \ {"done"})
Reclaim(st, S) == Reopen(st, S, {"in_progress"})

SetDone(st, S) == [t \in Tasks |-> IF t \in S THEN "done" ELSE st[t]]

\* complete_one clears consecutive_failures, except on a task already done.
ClearFails(st, S) ==
  [t \in Tasks |-> IF t \in S /\ st[t] # "done" THEN 0 ELSE fails[t]]

\* reconcile_passes_with_db repeats its scan over the open tasks whose story
\* passes until nothing changes, since closing one may satisfy the dependencies
\* of the next: the least set closed under the scan.
Synced(st) ==
  LET candidates == InStatus(st, Open) \cap passes
      closed(S) == \A t \in candidates :
                     DepsSatisfied(t, SetDone(st, S)) => t \in S
  IN  {t \in candidates : \A S \in SUBSET candidates : closed(S) => t \in S}

\* classify_drained_queue, on a queue with no open task
Drained(st) == InStatus(st, Open) = {}
DrainedTerminal(st) ==
  IF InStatus(st, {"blocked", "skipped"}) = {}
  THEN [code |-> 0, reason |-> "all tasks complete", completed |-> TRUE]
  ELSE Stop(1, "no schedulable tasks remain")

(* Helpers on git.                                                         *)

Unmerged(s) == branch[s] \ main
AllCommits == main \cup UNION {branch[s] : s \in Ephemeral}
HasLatest(t, S) == \E c \in S : c.task = t /\ c.n = work[t]

\* The files un-merged slot branches claim (the ephemeral overlay).
ClaimedFiles(s) == UNION {ChangesFiles[c.task] : c \in Unmerged(s)}
Overlay == UNION {ClaimedFiles(s) : s \in Ephemeral}

-----------------------------------------------------------------------------
(* Start of a run (startup.rs).                                            *)

\* Import the PRD with update_existing (every task whose story passes becomes
\* done, whatever its status), reclaim every in_progress row of the prefix, and
\* import the worktree's copy of the PRD in the same way.
StartLoop ==
  /\ pc = "down" /\ starts < MaxStarts
  /\ status' = SetDone(Reclaim(status, Tasks), passes)
  /\ edited' = FALSE
  /\ pc' = "stale"
  /\ starts' = starts + 1 /\ report' = NoReport
  /\ UNCHANGED <<fails, passes, git, run, wave, stopFile, signalled,
                 throttles, kills, ops, stops>>

\* The stale slot branches that are not ancestors of the loop branch.
NoStaleWork == {}
StaleWork == {s \in Ephemeral : Unmerged(s) # {}}

\* reconcile_stale_ephemeral_slots: a dirty slot worktree aborts; un-merged
\* branches are merged one by one, and one that resists aborts the start
\* unless halt_threshold is 0.  Merged branches are deleted.
\* ensure_slot_worktrees then forks the missing branches from the loop branch.
ReconcileStaleSlots ==
  /\ pc = "stale"
  /\ LET left == StaleWork
     IN  IF dirty # {}
         THEN /\ report' = [NoReport EXCEPT !.code = 1,
                                            !.reason = "dirty slot worktree"]
              /\ pc' = "down" /\ signalled' = FALSE
              /\ branch' = [s \in Ephemeral |->
                   IF s \in left \cup dirty THEN branch[s] ELSE {}]
              /\ UNCHANGED main
         ELSE \E recovered \in SUBSET left :
           /\ recovered # left => "conflict" \in Faults
           /\ main' = main \cup UNION {branch[s] : s \in recovered}
           /\ IF recovered # left /\ HaltThreshold > 0
              THEN /\ report' = [NoReport EXCEPT !.code = 1,
                                         !.reason = "un-merged slot branch"]
                   /\ pc' = "down" /\ signalled' = FALSE
                   /\ branch' = [s \in Ephemeral |->
                        IF s \in left \ recovered THEN branch[s] ELSE {}]
              ELSE /\ branch' = [s \in Ephemeral |->
                        IF s \in left \ recovered THEN branch[s] ELSE main']
                   /\ pc' = "top" /\ UNCHANGED <<report, signalled>>
  /\ UNCHANGED <<db, work, dirty, run, wave, stopFile, starts, throttles,
                 kills, ops, stops>>

-----------------------------------------------------------------------------
(* Head of the loop and preflight.                                         *)

\* The coordinator leaves the loop with these exit variables.
Leave(terminal, stopped) ==
  /\ report' = [code |-> terminal.code, reason |-> terminal.reason,
                completed |-> terminal.completed, stopped |-> stopped,
                prdComplete |-> FALSE]
  /\ pc' = "classify"

LimitReached ==
  /\ pc = "top" /\ iteration >= MaxIterations
  /\ Leave(Stop(0, "max iterations reached"), FALSE)
  /\ UNCHANGED <<db, git, run, wave, env>>

DeadlineReached ==
  /\ pc = "top" /\ iteration < MaxIterations /\ DeadlineSet
  /\ Leave(Stop(0, "deadline reached"), FALSE)
  /\ iteration' = iteration + 1
  /\ UNCHANGED <<db, git, pending, streak, stale, crashes, transients, wave,
                 env>>

\* The wave returns o to the orchestrator, which acts on it in Settle.
Return(o) == outcome' = o /\ pc' = "settle"

\* A PRD whose hash moved, the loop's own writes of "passes" included, is
\* imported again with update_existing (apply_update_status).
BeginIteration ==
  /\ pc = "top" /\ iteration < MaxIterations
  /\ iteration' = iteration + 1
  /\ status' = IF edited THEN SetDone(status, passes) ELSE status
  /\ edited' = FALSE
  /\ pc' = "preflight"
  /\ UNCHANGED <<fails, passes, git, pending, streak, stale, crashes,
                 transients, wave, report, env>>

SignalRetries == Outcome(FALSE, TRUE, FALSE, NoTerminal, {})
SignalEnds == Outcome(FALSE, FALSE, FALSE, Stop(130, "signal"), {})

\* wave_preflight_check: signal, then .stop, then the quota gate's stops,
\* then the crash limit.
BeginWave ==
  /\ pc = "preflight"
  /\ CASE signalled -> Return(SignalEnds)
       [] ~signalled /\ stopFile ->
            Return(Outcome(FALSE, FALSE, TRUE, Stop(0, "stop"), {}))
       [] ~signalled /\ ~stopFile /\ crashes >= MaxCrashes ->
            Return(Outcome(TRUE, FALSE, FALSE, Stop(1, "crashes"), {}))
       [] OTHER -> pc' = "select" /\ UNCHANGED outcome
  /\ UNCHANGED <<db, git, run, slot, cursor, agg, merge, report, env>>

\* The pre-wave quota gate stops the run: beyond the horizon, deferred to the
\* operator, or .stop seen while waiting for a reset.
QuotaGateStops ==
  /\ pc = "preflight" /\ ~signalled /\ ~stopFile
  /\ throttles < MaxThrottles
  /\ \E stopped \in BOOLEAN :
       Return(Outcome(FALSE, FALSE, stopped, Stop(0, "quota"), {}))
  /\ throttles' = throttles + 1
  /\ UNCHANGED <<db, git, run, slot, cursor, agg, merge, report, stopFile,
                 signalled, starts, kills, ops, stops>>

-----------------------------------------------------------------------------
(* Selection of the slate.                                                 *)

Eligible == {t \in Tasks : status[t] = "todo" /\ DepsSatisfied(t, status)}
Free == {t \in Eligible : TouchesFiles[t] \cap Overlay = {}}
Overlap(t, u) == TouchesFiles[t] \cap TouchesFiles[u] # {}

\* Greedy choice in some score order: pairwise disjoint, and either full or
\* blocking every candidate left over.
Slates ==
  {g \in SUBSET Free :
     /\ g # {} /\ Cardinality(g) <= NumSlots
     /\ \A t, u \in g : t # u => ~Overlap(t, u)
     /\ \/ Cardinality(g) = NumSlots
        \/ \A t \in Free \ g : \E u \in g : Overlap(t, u)}

Assignments(g) ==
  {f \in [0 .. Cardinality(g) - 1 -> g] :
     \A i, j \in DOMAIN f : i # j => f[i] # f[j]}

SelectSlate ==
  /\ pc = "select" /\ Free # {}
  /\ \E g \in Slates : \E f \in Assignments(g) :
       slot' = [s \in Slots |->
                  IF s \in DOMAIN f
                  THEN [IdleSlot EXCEPT !.task = f[s], !.state = "selected"]
                  ELSE IdleSlot]
  /\ stale' = 0 /\ pc' = "claim"
  /\ UNCHANGED <<db, git, iteration, pending, streak, crashes, transients,
                 cursor, agg, merge, outcome, report, env>>

\* handle_ephemeral_deadlock: every eligible task is blocked by un-merged slot
\* work only, so the wave counts as a merge failure of the blocking slots.
EphemeralDeadlock ==
  /\ pc = "select" /\ Eligible # {} /\ Free = {}
  /\ stale' = stale + 1
  /\ LET blockers == {s \in Ephemeral : \E t \in Eligible :
                        TouchesFiles[t] \cap ClaimedFiles(s) # {}}
     IN Return(Outcome(TRUE, FALSE, FALSE, NoTerminal,
                       {[slot |-> s, task |-> NoTask] : s \in blockers}))
  /\ UNCHANGED <<db, git, iteration, pending, streak, crashes, transients,
                 slot, cursor, agg, merge, report, env>>

Retry == Outcome(FALSE, TRUE, FALSE, NoTerminal, {})

\* handle_no_eligible_tasks (0a), (0b): todo rows remain, but quota excluded
\* every candidate from the slate. With their rungs used up the run stops
\* softly; with a provider blacked out the wave waits for the reset and retries.
QuotaEmpty ==
  /\ pc = "select" /\ InStatus(status, {"todo"}) # {}
  /\ throttles < MaxThrottles
  /\ throttles' = throttles + 1
  /\ \/ /\ status' = Reclaim(status, Tasks)
        /\ Return(Outcome(TRUE, FALSE, FALSE, Stop(0, "quota"), {}))
     \/ UNCHANGED status /\ Return(Retry)
     \/ /\ stopFile /\ UNCHANGED status
        /\ Return(Outcome(TRUE, FALSE, TRUE, Stop(130, "stop during wait"), {}))
  /\ UNCHANGED <<fails, passes, edited, git, run, slot, cursor, agg, merge, report,
                 stopFile, signalled, starts, kills, ops, stops>>

\* handle_no_eligible_tasks (1) to (3): a drained queue ends the run; otherwise
\* sync the PRD, then reclaim in_progress rows and try again, or count a stale wave.
NoEligibleTasks ==
  /\ pc = "select" /\ Eligible = {}
  /\ IF Drained(status)
     THEN /\ Return(Outcome(TRUE, FALSE, FALSE, DrainedTerminal(status), {}))
          /\ UNCHANGED <<status, stale>>
     ELSE LET st == SetDone(status, Synced(status))
          IN  /\ status' = Reclaim(st, Tasks)
              /\ IF InStatus(st, {"in_progress"}) # {}
                 THEN Return(NoOutcome) /\ UNCHANGED stale
                 ELSE /\ stale' = stale + 1
                      /\ Return(Outcome(TRUE, FALSE, FALSE,
                                  IF stale + 1 >= StaleThreshold
                                  THEN Stop(1, "stale") ELSE NoTerminal, {}))
  /\ UNCHANGED <<fails, passes, edited, git, iteration, pending, streak, crashes,
                 transients, slot, cursor, agg, merge, report, env>>

-----------------------------------------------------------------------------
(* Running the wave.                                                       *)

Selected == {s \in Slots : slot[s].state = "selected"}
Running  == {s \in Slots : slot[s].state = "running"}
Finished == {s \in Slots : slot[s].state = "finished"}
Refused  == {s \in Slots : slot[s].state = "refused"}
\* Slots whose claim succeeded, after their output was processed
Processed == {s \in Slots : slot[s].state = "processed"}

\* claim_slot_task, per slot: todo or in_progress at UPDATE time
ClaimSlate ==
  /\ pc = "claim"
  /\ LET won == {s \in Selected : status[slot[s].task] \in Open}
     IN /\ status' = [t \in Tasks |-> IF \E s \in won : slot[s].task = t
                                      THEN "in_progress" ELSE status[t]]
        /\ slot' = [s \in Slots |->
             IF s \in won THEN [slot[s] EXCEPT !.state = "running"]
             ELSE IF s \in Selected
             THEN [slot[s] EXCEPT !.state = "refused"] ELSE slot[s]]
  /\ pc' = "run"
  /\ UNCHANGED <<fails, passes, edited, git, run, cursor, agg, merge, outcome, report,
                 env>>

\* An agent commits (or not) in its slot's worktree and its output is parsed;
\* once a signal is seen the slot returns Empty.  The agent of slot 0 works
\* beside the live PRD file and may edit it.
AgentFinishes(s) ==
  /\ pc = "run" /\ s \in Running
  /\ \E r \in AgentResults \cup (IF signalled THEN {Interrupted} ELSE {}) :
       /\ r.outcome \in Throttled => throttles < MaxThrottles
       /\ slot' = [slot EXCEPT ![s].state = "finished", ![s].result = r,
                               ![s].live = r.outcome]
       /\ throttles' = throttles + (IF r.outcome \in Throttled THEN 1 ELSE 0)
       /\ LET t == slot[s].task
              new == IF r.commit = "none" THEN {}
                     ELSE {[task |-> t, n |-> work[t] + 1,
                            marked |-> r.commit = "marked"]}
          IN /\ work' = [work EXCEPT ![t] = IF r.commit = "none" THEN @ ELSE @ + 1]
             /\ main' = IF s = 0 THEN main \cup new ELSE main
             /\ branch' = [e \in Ephemeral |->
                             IF e = s THEN branch[e] \cup new ELSE branch[e]]
  /\ dirty' \in {dirty} \cup
       (IF s # 0 /\ "dirty" \in Faults
        THEN {dirty \cup {s}, dirty \ {s}} ELSE {})
  /\ edited' \in {edited} \cup (IF s = 0 /\ "prd" \in Faults THEN {TRUE} ELSE {})
  /\ UNCHANGED <<status, fails, passes, pc, run, cursor, agg, merge, outcome,
                 report, stopFile, signalled, starts, kills, ops, stops>>

\* Every slot thread has joined.  A Codex wave's protected-state check may
\* find the database corrupted: the wave returns before any post-processing.
JoinWave ==
  /\ pc = "run" /\ Running = {}
  /\ \/ /\ pc' = "process" /\ cursor' = 0 /\ agg' = NoAgg
        /\ UNCHANGED outcome
     \/ /\ CodexWaves
        /\ Return(Outcome(TRUE, FALSE, TRUE, Stop(1, "corruption"),
                          {[slot |-> SyntheticSlot, task |-> NoTask]}))
        /\ UNCHANGED <<cursor, agg>>
  /\ UNCHANGED <<db, git, run, slot, merge, report, env>>

-----------------------------------------------------------------------------
(* Post-processing of one slot (process_slot_result and the pipeline).     *)

\* Prompt overflow, unless a <completed> tag names the claim: rungs 1-4 hand
\* the claim back, rung 5 blocks it.  Both act on in_progress rows only.
OverflowNamesBadStatus(t, r, st) ==
  IF r.outcome = "overflow" /\ st[t] = "in_progress"
  THEN {[st EXCEPT ![t] = "todo"], [st EXCEPT ![t] = "failed"]} ELSE {st}
OverflowApplied(t, r, st) ==
  IF /\ r.outcome = "overflow" /\ st[t] = "in_progress"
     /\ ~(r.tag = "completed" /\ r.peer \in {NoTask, t})
  THEN {[st EXCEPT ![t] = "todo"], [st EXCEPT ![t] = "blocked"]}
  ELSE {st}

\* What a tag about task u does to the table, or {} when it is rejected.
\* <task-status> done auto-claims a todo row and checks no dependency.
TagTargets(tag, u, st) ==
  CASE tag = "completed" -> IF Completable(u, st) THEN {"done"} ELSE {}
    [] tag = "done" -> IF st[u] \in {"todo", "in_progress", "done"}
                       THEN {"done"} ELSE {}
    [] tag = "failed" -> {"blocked"}
    [] tag \in {"skipped", "irrelevant"} ->
         IF st[u] # "done" THEN {tag} ELSE {}
    [] tag = "unblock" -> IF st[u] = "blocked" THEN {"todo"} ELSE {}
    [] tag = "reset" -> IF st[u] # "todo" THEN {"todo"} ELSE {}
    [] OTHER -> {}

\* ctx.pending_slot_tasks after a slot claimed t and closed u (or nothing).
TrackedOnlyOnce(t, u, closes) ==
  IF closes /\ u = t THEN pending \ {t} ELSE pending
Tracked(t, u, closes) ==
  IF closes /\ u = t THEN pending \ {t} ELSE pending \cup {t}

ProcessSlot(s) ==
  /\ pc = "process" /\ cursor = s /\ s \in Finished
  /\ LET t == slot[s].task
         r == slot[s].result
         u == IF r.peer = NoTask THEN t ELSE r.peer
     IN \E st \in OverflowApplied(t, r, status) :
          LET target == TagTargets(r.tag, u, st)
              closes == target = {"done"}
              \* record_completion rewrites the slot's outcome
              live == IF closes /\ (r.tag = "completed" \/ u = t)
                      THEN "completed" ELSE r.outcome
          IN /\ status' = IF target = {} THEN st
                          ELSE [st EXCEPT ![u] = CHOOSE x \in target : TRUE]
             /\ passes' = IF closes THEN passes \cup {u} ELSE passes
             /\ edited' = (edited \/ passes' # passes)
             /\ fails' = ClearFails(st, IF closes THEN {u} ELSE {})
             /\ pending' = Tracked(t, u, closes)
             /\ slot' = [slot EXCEPT ![s].state = "processed",
                                     ![s].live = live]
             /\ agg' = [completed |-> agg.completed \/ closes,
                        allCrashed |-> /\ agg.allCrashed
                                       /\ live \in Crashed
                                       /\ ~(closes /\ u = t)]
             /\ crashes' = IF closes THEN 0 ELSE crashes
  /\ cursor' = cursor + 1
  /\ UNCHANGED <<git, pc, iteration, streak, stale, transients, merge,
                 outcome, report, env>>

\* A refused claim never ran: nothing of it is post-processed.
SkipSlot(s) ==
  /\ pc = "process" /\ cursor = s /\ s \in Slots \ Finished
  /\ cursor' = cursor + 1
  /\ UNCHANGED <<db, git, pc, run, slot, agg, merge, outcome, report, env>>

ProcessingDone ==
  /\ pc = "process" /\ cursor = NumSlots
  /\ pc' = "account"
  /\ UNCHANGED <<db, git, run, wave, report, env>>

-----------------------------------------------------------------------------
(* Account reactions: one per wave, before any merge.                      *)

LimitedAfterPipeline == \E s \in Processed : slot[s].live = "rate_limit"
Limited == \E s \in Processed : slot[s].result.outcome = "rate_limit"

\* react_to_outputs reads the outcomes from before the pipeline; any rate
\* limit hands every in_progress row back, then the wave retries, or the run
\* stops for good (spend limit, .stop during the wait).
ReactToRateLimit ==
  /\ pc = "account"
  /\ IF Limited
     THEN /\ status' = Reclaim(status, Tasks)
          /\ \/ Return(Retry)
             \/ Return(Outcome(TRUE, FALSE, FALSE,
                               Stop(0, "usage/spend limit"), {}))
             \/ /\ stopFile
                /\ Return(Outcome(TRUE, FALSE, TRUE,
                                  Stop(0, "stop during wait"), {}))
     ELSE pc' = "transient" /\ UNCHANGED <<status, outcome>>
  /\ UNCHANGED <<fails, passes, edited, git, run, slot, cursor, agg, merge, report,
                 env>>

\* react_to_transient reads the live outcomes; after TransientMaxAttempts
\* back-offs without progress it escalates, that is, does nothing.
ReactToTransient ==
  /\ pc = "transient"
  /\ IF \A s \in Processed : slot[s].live # "transient"
     THEN transients' = 0 /\ pc' = "track" /\ UNCHANGED <<status, outcome>>
     ELSE IF transients >= TransientMaxAttempts
     THEN pc' = "track" /\ UNCHANGED <<status, outcome, transients>>
     ELSE /\ status' = Reclaim(status, Tasks)
          /\ \/ transients' = transients + 1 /\ Return(Retry)
             \/ /\ stopFile /\ UNCHANGED transients
                /\ Return(Outcome(TRUE, FALSE, TRUE,
                                  Stop(130, "stop during backoff"), {}))
  /\ UNCHANGED <<fails, passes, edited, git, iteration, pending, streak, stale,
                 crashes, slot, cursor, agg, merge, report, env>>

-----------------------------------------------------------------------------
(* Failure tracking (handle_task_failure_with_runner) and crash policy.    *)

AutoBlockOneLate(count) == MaxRetries > 0 /\ count > MaxRetries
ShouldAutoBlock(count) == MaxRetries > 0 /\ count >= MaxRetries

TrackFailures ==
  /\ pc = "track"
  /\ LET failing == {slot[s].task : s \in {p \in Processed :
                       /\ slot[p].live \notin
                            {"completed", "empty", "rate_limit", "auth_failure"}
                       /\ status[slot[p].task] \in Open}}
         count(t) == fails[t] + 1
     IN /\ fails' = [t \in Tasks |->
                       IF t \in failing THEN count(t) ELSE fails[t]]
        /\ status' = [t \in Tasks |->
                        IF /\ t \in failing /\ ShouldAutoBlock(count(t))
                           /\ status[t] = "in_progress"
                        THEN "blocked" ELSE status[t]]
  /\ crashes' = IF agg.completed THEN 0
                ELSE IF agg.allCrashed THEN crashes + 1 ELSE crashes
  /\ pc' = "merge" /\ cursor' = 1
  /\ merge' = [NoMerge EXCEPT !.pre = main]
  /\ UNCHANGED <<passes, edited, git, iteration, pending, streak, stale, transients,
                 slot, agg, outcome, report, env>>

-----------------------------------------------------------------------------
(* Merge-back of the slot branches, in slot order, then fast-forward.      *)

\* run_slot_merge_attempt captures slot 0's head after the earlier slots
\* merged; a failed attempt resets the loop branch to it.
WaveHead == merge.pre
AttemptHead == main

\* git merge can conflict only when both sides have moved.
Diverged(s) == ~(branch[s] \subseteq main) /\ ~(main \subseteq branch[s])

\* slot 0's uncommitted changes, the PRD's flags among them, are stashed around
\* the attempt; a stash that does not pop leaves the committed flags only.
MergeOk(s) ==
  /\ main' = main \cup branch[s]
  /\ merge' = [merge EXCEPT !.merged = @ \cup {s}]
  /\ passes' \in {passes} \cup (IF "pop" \in Faults THEN SUBSET passes ELSE {})

MergeFailed(s) ==
  /\ merge' = [merge EXCEPT !.failed = @ \cup {s}]
  /\ UNCHANGED passes

MergeSlot(s) ==
  /\ pc = "merge" /\ cursor = s
  /\ cursor' = cursor + 1
  /\ \/ ~merge.poisoned /\ MergeOk(s)
     \/ \* slot 0 is poisoned: the slot is not attempted
        merge.poisoned /\ MergeFailed(s) /\ UNCHANGED main
     \/ \* prepare_slot0_for_merge fails: nothing was touched
        /\ ~merge.poisoned /\ "prepare" \in Faults
        /\ MergeFailed(s) /\ UNCHANGED main
     \/ \* merged, then demoted: the stash limit is exceeded
        /\ ~merge.poisoned /\ "stash" \in Faults
        /\ main' = main \cup branch[s] /\ MergeFailed(s)
     \/ \* conflict the resolver did not settle: reset
        /\ ~merge.poisoned /\ "conflict" \in Faults /\ Diverged(s)
        /\ main' = AttemptHead /\ MergeFailed(s)
     \/ \* the reset itself failed: later slots are not attempted
        /\ ~merge.poisoned /\ "poison" \in Faults /\ Diverged(s)
        /\ main' \in {main, main \cup branch[s]}
        /\ merge' = [merge EXCEPT !.failed = @ \cup {s}, !.poisoned = TRUE]
        /\ UNCHANGED passes
  /\ edited' = (edited \/ passes' # passes)
  /\ UNCHANGED <<status, fails, work, branch, dirty, pc, run, slot, agg,
                 outcome, report, env>>

\* fast_forward_merged_slots: --ff-only refuses a branch with commits of its
\* own or a worktree whose changes are in the way; the slot is demoted.
BranchKept(s, S) == branch[s]
Advanced(s, S) == IF s \in S THEN main ELSE branch[s]

FastForward ==
  /\ pc = "merge" /\ cursor = NumSlots
  /\ \E stuck \in SUBSET {s \in merge.merged : branch[s] # main} :
       /\ \A s \in stuck : s \in dirty \/ "ff" \in Faults
       /\ \A s \in merge.merged \ stuck : branch[s] \subseteq main
       /\ branch' = [s \in Ephemeral |-> Advanced(s, merge.merged \ stuck)]
       /\ merge' = [merge EXCEPT !.merged = @ \ stuck,
                                 !.failed = @ \cup stuck]
  /\ pc' = "reconcile"
  /\ UNCHANGED <<db, work, main, dirty, run, slot, cursor, agg, outcome,
                 report, env>>

\* reconcile_merged_slot_completions: complete, in table order, the tasks
\* whose marker is in a commit the merge phase brought in.
MarkedTasks == {c.task : c \in {d \in main \ merge.pre : d.marked}}

PostMergeReconcile ==
  /\ pc = "reconcile"
  /\ LET candidates == {t \in MarkedTasks : status[t] = "in_progress"}
         ready == {t \in candidates : DepsSatisfied(t, status)}
     IN \E R \in SUBSET candidates :
          /\ ready \subseteq R
          /\ \A t \in R : DepsSatisfied(t, SetDone(status, R))
          /\ status' = SetDone(status, R)
          /\ fails' = ClearFails(status, R)
          /\ passes' = passes \cup R
          /\ edited' = (edited \/ passes' # passes)
          /\ pending' = pending \ R
          /\ agg' = [agg EXCEPT !.completed = @ \/ R # {}]
          /\ crashes' = IF R # {} THEN 0 ELSE crashes
  /\ pc' = "terminal"
  /\ UNCHANGED <<git, iteration, streak, stale, transients, slot, cursor,
                 merge, outcome, report, env>>

\* The wave's terminal conditions, in the order the code tests them.
EndWave ==
  /\ pc = "terminal"
  /\ LET failed == {[slot |-> s, task |-> slot[s].task] : s \in merge.failed}
         terminal == CASE signalled -> Stop(130, "signal")
                       [] ~signalled /\ crashes >= MaxCrashes ->
                            Stop(1, "crashes")
                       [] /\ ~signalled /\ crashes < MaxCrashes
                          /\ agg.completed /\ Drained(status) ->
                            DrainedTerminal(status)
                       [] OTHER -> NoTerminal
     IN Return(Outcome(TRUE, FALSE, FALSE, terminal, failed))
  /\ UNCHANGED <<db, git, run, slot, cursor, agg, merge, report, env>>

-----------------------------------------------------------------------------
(* The orchestrator's part of a wave.                                      *)

ReopenedIfClaimed(st, failed) ==
  Reopen(st, {f.task : f \in failed}, {"in_progress"})
ReopenedByMergeFailure(st, failed) ==
  Reopen(st, {f.task : f \in failed}, {"in_progress", "done"})

Settle ==
  /\ pc = "settle"
  /\ iteration' = IF outcome.consumed THEN iteration ELSE iteration - 1
  /\ IF outcome.retry
     THEN pc' = "top" /\ UNCHANGED <<status, pending, streak, report>>
     ELSE LET failed == outcome.failed
              count == IF failed = {} THEN 0 ELSE streak + 1
              halt == HaltThreshold > 0 /\ count >= HaltThreshold
          IN /\ status' = ReopenedByMergeFailure(status, failed)
             /\ pending' = pending \ {f.task : f \in failed}
             /\ streak' = count
             /\ IF halt
                THEN Leave(Stop(1, "merge failures"), outcome.stopped)
                ELSE IF outcome.terminal # NoTerminal
                THEN Leave(outcome.terminal, outcome.stopped)
                ELSE pc' = "top" /\ UNCHANGED report
  /\ slot' = IdleSlots /\ cursor' = 0 /\ agg' = NoAgg
  /\ merge' = NoMerge /\ outcome' = NoOutcome
  /\ UNCHANGED <<fails, passes, edited, git, stale, crashes, transients, env>>

-----------------------------------------------------------------------------
(* Exit of the run.                                                        *)

CompleteAsReported(st) == report.completed \/ Drained(st)
PrdComplete(st) == Drained(st)

\* reconcile_ambiguous_exit, then the prd_complete snapshot.
ExitClassify ==
  /\ pc = "classify"
  /\ LET drained == Drained(status)
         ambiguous == /\ ~report.stopped /\ report.code = 0
                      /\ report.reason \in {"max iterations reached",
                                            "deadline reached"}
         relabelled ==
           CASE ambiguous /\ ~drained ->
                  [report EXCEPT !.code = 1, !.reason = "tasks remaining"]
             [] /\ ambiguous /\ drained
                /\ report.reason = "max iterations reached" ->
                  [report EXCEPT !.reason = "all tasks complete",
                                 !.completed = TRUE]
             [] OTHER -> report
     IN report' = [relabelled EXCEPT !.prdComplete = PrdComplete(status)]
  /\ pc' = "reclaim"
  /\ UNCHANGED <<db, git, run, wave, env>>

\* Step 17.6: hand back the claims still in_progress.
ExitReclaim ==
  /\ pc = "reclaim"
  /\ status' = Reclaim(status, pending)
  /\ pc' = "cleanup"
  /\ UNCHANGED <<fails, passes, edited, git, run, wave, report, env>>

\* The coordinator's memory is gone.
Forget ==
  /\ iteration' = 0 /\ pending' = {} /\ streak' = 0 /\ stale' = 0
  /\ crashes' = 0 /\ transients' = 0
  /\ slot' = IdleSlots /\ cursor' = 0 /\ agg' = NoAgg
  /\ merge' = NoMerge /\ outcome' = NoOutcome
  /\ signalled' = FALSE /\ pc' = "down"

\* Steps 21 and 21.4: signal files, then slot worktrees and their branches;
\* a dirty worktree keeps its branch.
ExitCleanup ==
  /\ pc = "cleanup"
  /\ stopFile' = FALSE
  /\ branch' = [s \in Ephemeral |-> IF s \in dirty THEN branch[s] ELSE {}]
  /\ Forget
  /\ UNCHANGED <<db, work, main, dirty, report, starts, throttles, kills, ops,
                 stops>>

-----------------------------------------------------------------------------
(* The environment.                                                        *)

Up == pc # "down"

\* The process dies; running agents may leave uncommitted changes behind.
Kill ==
  /\ Up /\ kills < MaxKills
  /\ kills' = kills + 1
  /\ \E D \in SUBSET (Running \ {0}) :
       /\ D # {} => "dirty" \in Faults
       /\ dirty' = dirty \cup D
  /\ Forget /\ report' = NoReport
  /\ UNCHANGED <<db, work, main, branch, stopFile, starts, throttles, ops,
                 stops>>

DropStopFile ==
  /\ Up /\ ~stopFile /\ stops < MaxStops
  /\ stopFile' = TRUE /\ stops' = stops + 1
  /\ UNCHANGED <<db, git, pc, run, wave, report, signalled, starts, throttles,
                 kills, ops>>

Signal ==
  /\ Up /\ ~signalled /\ stops < MaxStops
  /\ signalled' = TRUE /\ stops' = stops + 1
  /\ UNCHANGED <<db, git, pc, run, wave, report, stopFile, starts, throttles,
                 kills, ops>>

\* The CLI writes the task table while the loop runs: skip, irrelevant,
\* unblock, complete and reset, each with its own guard.
OperatorTargets(t) ==
  {x \in {"skipped", "irrelevant"} : status[t] # "done"}
    \cup {x \in {"todo"} : status[t] # "todo"}
    \cup {x \in {"done"} : status[t] = "in_progress"
                           /\ DepsSatisfied(t, status)}

OperatorCommand(t) ==
  /\ ops < MaxOps /\ ops' = ops + 1
  /\ \E x \in OperatorTargets(t) :
       /\ status' = [status EXCEPT ![t] = x]
       /\ fails' = ClearFails(status, IF x = "done" THEN {t} ELSE {})
  /\ UNCHANGED <<passes, edited, git, pc, run, wave, report, stopFile, signalled,
                 starts, throttles, kills, stops>>

-----------------------------------------------------------------------------

Coordinator ==
  \/ ReconcileStaleSlots
  \/ LimitReached \/ DeadlineReached
  \/ BeginIteration \/ BeginWave \/ QuotaGateStops
  \/ SelectSlate \/ EphemeralDeadlock \/ QuotaEmpty \/ NoEligibleTasks
  \/ ClaimSlate \/ JoinWave
  \/ \E s \in Slots : ProcessSlot(s) \/ SkipSlot(s)
  \/ ProcessingDone \/ ReactToRateLimit \/ ReactToTransient \/ TrackFailures
  \/ \E s \in Slots : MergeSlot(s)
  \/ FastForward \/ PostMergeReconcile \/ EndWave \/ Settle
  \/ ExitClassify \/ ExitReclaim \/ ExitCleanup

Agents == \E s \in Slots : AgentFinishes(s)

Next ==
  \/ StartLoop \/ Coordinator \/ Agents
  \/ Kill \/ DropStopFile \/ Signal
  \/ \E t \in Tasks : OperatorCommand(t)

Spec == Init /\ [][Next]_vars

\* The coordinator thread keeps running, and every agent ends: the watchdog
\* and the per-iteration timeout kill one that does not.
FairSpec == Spec /\ WF_vars(Coordinator) /\ WF_vars(Agents)
-----------------------------------------------------------------------------
(* Properties.                                                             *)

PCs == {"down", "stale", "top", "preflight", "select", "claim", "run", "process",
        "account", "transient", "track", "merge", "reconcile", "terminal",
        "settle", "classify", "reclaim", "cleanup"}
Reasons == {"none", "max iterations reached", "deadline reached", "signal",
            "stop", "crashes", "quota", "usage/spend limit",
            "stop during wait", "stop during backoff", "stale", "corruption",
            "merge failures", "all tasks complete",
            "no schedulable tasks remain", "tasks remaining",
            "dirty slot worktree", "un-merged slot branch"}
SlotStates == {"idle", "selected", "running", "refused", "finished",
               "processed"}

DbTypeOK ==
  /\ status \in [Tasks -> Statuses] /\ fails \in [Tasks -> Nat]
  /\ passes \in SUBSET Tasks /\ edited \in BOOLEAN

GitTypeOK ==
  /\ work \in [Tasks -> Nat] /\ main \in SUBSET Commits
  /\ branch \in [Ephemeral -> SUBSET Commits] /\ dirty \in SUBSET Ephemeral

RunTypeOK ==
  /\ pc \in PCs /\ iteration \in Nat /\ pending \in SUBSET Tasks
  /\ streak \in Nat /\ stale \in Nat /\ crashes \in Nat /\ transients \in Nat

SlotRecords == [task : Tasks \cup {NoTask}, state : SlotStates,
                result : Results, live : Outcomes]
AggRecords == [completed : BOOLEAN, allCrashed : BOOLEAN]
MergeRecords == [pre : SUBSET Commits, merged : SUBSET Ephemeral,
                 failed : SUBSET Ephemeral, poisoned : BOOLEAN]
TerminalRecords == [code : Nat, reason : Reasons, completed : BOOLEAN]
FailedMerges == [slot : 0 .. NumSlots, task : Tasks \cup {NoTask}]
OutcomeRecords == [consumed : BOOLEAN, retry : BOOLEAN, stopped : BOOLEAN,
                   terminal : TerminalRecords, failed : SUBSET FailedMerges]
ReportRecords == [code : Nat, reason : Reasons, completed : BOOLEAN,
                  stopped : BOOLEAN, prdComplete : BOOLEAN]

WaveTypeOK ==
  /\ slot \in [Slots -> SlotRecords] /\ cursor \in 0 .. NumSlots
  /\ agg \in AggRecords /\ merge \in MergeRecords
  /\ outcome \in OutcomeRecords

EnvTypeOK ==
  /\ report \in ReportRecords
  /\ stopFile \in BOOLEAN /\ signalled \in BOOLEAN
  /\ starts \in Nat /\ throttles \in Nat /\ kills \in Nat /\ ops \in Nat
  /\ stops \in Nat

\* Type invariant of the whole state: in particular the iteration counter,
\* which a wave that only waited gives back, never goes below zero, and the
\* database only ever holds the six statuses.
TypeOK == DbTypeOK /\ GitTypeOK /\ RunTypeOK /\ WaveTypeOK /\ EnvTypeOK

\* A run that ends by itself leaves no task in_progress: whatever way the loop
\* is left, every claim was closed, handed back, or is still in the tracker
\* step 17.6 reclaims from.
NoOrphanClaims ==
  (pc = "down" /\ report # NoReport) => InStatus(status, {"in_progress"}) = {}

\* The loop branch never loses a commit: a failed merge attempt is undone
\* without undoing the slots merged before it, and slot 0's own commits stay.
LoopBranchGrows == [][main \subseteq main']_vars

\* Agents' commits only ever disappear when an ending run removes its slot
\* branches: no merge, fast-forward, crash or startup recovery drops one.
WorkOnlyLostAtCleanup ==
  [][pc # "cleanup" => AllCommits \subseteq AllCommits']_vars

\* Blocked, skipped and irrelevant are decisions of an agent or an operator
\* (or of the retry limit): none of the loop's own resets, sweeps and syncs
\* changes such a task, except that importing the PRD closes one whose story
\* passes.
HonestTerminalsKept ==
  [][(ops' = ops /\ pc # "process") =>
       \A t \in Tasks : status[t] \in Terminal \ {"done"} =>
         \/ status'[t] = status[t]
         \/ pc \in {"down", "top"} /\ t \in passes /\ status'[t] = "done"]_vars

\* The ways a throttled wave stops the run before its merge phase
ThrottleStops == {"usage/spend limit", "stop during wait",
                  "stop during backoff"}

\* A wave that ran its merge phase leaves none of its tasks done without work
\* on the loop branch, be it the task's latest or a commit that carries its
\* marker: one whose slot did not merge back is open again.
WaveMergesOrReopens ==
  [][(pc = "settle" /\ pc' \in {"top", "classify"} /\ ~outcome.retry
        /\ outcome.terminal.reason \notin ThrottleStops) =>
       \A s \in Processed : LET t == slot[s].task IN
         (status'[t] = "done" /\ work[t] > 0) =>
           HasLatest(t, main) \/ \E c \in main : c.task = t /\ c.marked]_vars

\* When a slate is chosen, a task marked done has its latest work on the loop
\* branch: a task whose slot failed to merge stays reopened.
MergedWhenDone ==
  pc = "select" => \A t \in InStatus(status, {"done"}) :
                  work[t] > 0 => HasLatest(t, main)

\* A wave in which one agent met the account's limit goes no further than the
\* account reaction: nothing of it is merged and no failure is counted, also when
\* that agent had completed its task and the pipeline made it a completion.
LimitedWavesEnd ==
  pc \in {"transient", "track", "merge", "reconcile"} =>
    \A s \in Processed : slot[s].result.outcome # "rate_limit"

\* An agent starts from a tree that has the work of the tasks its own task
\* depends on.
Base(s) == IF s = 0 THEN main ELSE branch[s]
DepsVisible ==
  \A s \in Running : \A d \in DependsOn[slot[s].task] :
    (status[d] = "done" /\ work[d] > 0) => HasLatest(d, Base(s))

\* No task is offered to another agent once it has failed max_retries times in
\* a row: the wave that counts the last failure also blocks it.
RetryBudgetKept ==
  (pc = "top" /\ MaxRetries > 0) =>
    \A t \in InStatus(status, Open) : fails[t] < MaxRetries

\* prd_complete, which lets a batch start the next PRD, is only reported when
\* no task is left open, also after a wave whose merge failures reopened
\* tasks it had already counted as complete.
PrdCompleteHonest ==
  (pc = "down" /\ report.prdComplete /\ ops = 0) =>
    InStatus(status, Open) = {}

\* Work of a done task survives the end of the run, on the loop branch or on
\* the slot branch that still holds it.
DoneWorkSurvivesExit ==
  (pc = "down" /\ report # NoReport) =>
    \A t \in InStatus(status, {"done"}) :
      work[t] > 0 => HasLatest(t, AllCommits)

\* The commits as Delivery sees them: named by task and number, given up once
\* no branch reaches them.
Name(c) == [task |-> c.task, n |-> c.n]
Names(S) == {Name(c) : c \in S}
Made == UNION {{[task |-> t, n |-> k] : k \in 1 .. work[t]} : t \in Tasks}
Given == INSTANCE Delivery WITH
           landed <- Names(main), lost <- Made \ Names(AllCommits),
           closing <- pc = "cleanup"

\* Slots, merges, resets, crashes and recoveries deliver work as Delivery
\* promises: a commit that was given up never comes back to a branch, one that
\* landed stays, and only the cleanup of an ending run gives up any.
DeliversWork == Given!Spec

\* Every run ends: each wave consumes an iteration of the budget, except the
\* boundedly many that wait out a throttle.
EventuallyExits == Up ~> ~Up
=============================================================================
