# TLA+ models of task-mgr

task-mgr keeps the tasks of a PRD (a JSON file of user stories) in SQLite and
drives coding agents over them in a loop. This directory holds TLA+ models of
the parts of it that are concurrent or that have to survive failures, TLC
configurations that check them on small instances, and proofs, checked by
TLAPS, of properties for every value of the constants. Paths are relative to
the repository root, that is, to `src/` in the notation of `PROJECT.json`.

## The system

| Part | State it keeps | Operations | What is hard about it |
|---|---|---|---|
| Task lifecycle, `src/lifecycle/` | `tasks.status`, `consecutive_failures`, timestamps | verbs (claim, complete, fail, skip, irrelevant, unblock, reset) checked by `matrix.rs`; sweeps that hand claims back | operators, agents and the loop's sweeps act on one row; each SQL statement is atomic, a sequence of them is not |
| Orchestrator and wave scheduler, `src/loop_engine/{orchestrator,wave_scheduler,wave_orchestration,slot,engine}.rs` | iteration counter, pending tracker, merge-failure streak, crash and stale counters, per-slot results, exit variables | preflight, selection, claim, slot threads, post-processing, reactions, merge, terminal conditions, exit steps | many ways out of a wave; decisions of one step are undone by a later one |
| Slot branches, `src/loop_engine/worktree.rs`, `merge_resolver.rs` | git branches and worktrees, stashes | fork, merge in slot order, resolve, reset, fast-forward, recover stale branches, clean up | partial failure of each git step; the only copy of an agent's work |
| Iteration pipeline, `iteration_pipeline.rs`, `detection.rs`, `output_parsing.rs` | nothing of its own | turn an agent's output into status changes, PRD flags, learnings | tags may name other tasks than the one claimed |
| Account reactions, `reactions/`, `quota.rs`, `usage.rs` | back-off attempts, quota and blackout files | wait, retry, reroute, stop | a wave that waits leaves before its merge phase |
| Overflow ladder, `overflow.rs`, `reactions/post_output.rs` | per-task overrides of effort, model and runner, a snapshot of `tasks.model` | lower effort, go up a tier, widen the context, change provider, block | runs before the pipeline on the same row; its overrides must end when somebody edits the task |
| Models and runners, `model.rs`, `reactions/pre_spawn.rs`, `project_config.rs` | the resolved configuration, blackouts, unavailable rungs | resolve provider, tier, model and effort; exclude; escalate after a crash | six sources decide on one spawn, at different times |
| Failure tracking, `recovery.rs`, `crash.rs`, `stale.rs` | failure counters | auto-block, crash and stale limits | counts across waves and restarts |
| Reconciliation, `git_reconcile.rs`, `prd_reconcile.rs` | the PRD file's `passes` flags | complete tasks from commit markers, synchronise flags and rows | two stores, and git as a third |
| Startup, `startup.rs`, `env.rs` | run records, loop locks | import the PRD, hand back claims, recover slot branches | what a crashed run left behind |
| Selection, `src/commands/next/` | none (reads) | score, dependency and file-overlap filter | un-merged branches also claim files |
| CLI commands, `src/commands/` | none (one connection each) | the verbs, init, export, doctor, learnings | run beside a loop; they hold `tasks.db.lock`, the loop does not |
| Locks, `src/db/lock.rs` | lock files | acquire, release | unlock and unlink are two steps |
| Signals, `signals.rs` | `.stop`, `.stop-<prefix>`, `.pause`, the signal flag, run records | read at several points of a run; `loop stop` finds a run by its record | a stop may come between any two steps, or just miss the run it was meant for |
| Batch, `batch.rs` | the list of PRDs, one batch record, inherited rungs | run them in order, stop a chain | trusts `prd_complete` and the account flag of the run before |
| Sequential path, `orchestrator.rs`, `iteration.rs` | last claimed task, counters of the run | one task per iteration | the pipeline rewrites outcomes that later steps read |
| Watchdog, `watchdog.rs`, `runner.rs`, `stream.rs` | deadline, extensions, grace window | poll, extend, kill | its own kill looks like Ctrl-C; an active agent moves its deadline |
| Learnings, `src/learnings/` | learnings, embeddings, bandit counters | record, recall, rerank | floating-point scores, external services |
| Migrations, `src/db/migrations/` | schema version | up, down | a crash between migrations |

How they interact. `startup.rs` prepares the database, worktrees and branches
and calls `run_loop`. With two or more slots each iteration is a wave: the
coordinator thread selects and claims tasks, starts one thread per slot and
joins them all; then, alone again, it post-processes slot by slot, reacts to
throttling, merges the slot branches into the loop branch and applies the
terminal conditions. Slots are parallel only between claim and join. The wave
returns a `WaveOutcome`, which the orchestrator turns into a budget change, a
reset of tasks whose slot failed to merge, a halt, or an exit. Other processes
(operators' commands, `.stop` files, signals) act on the same rows and files at
any time.

For each part, what makes it correct: a claim is closed or handed back; a
status decided by an agent or operator is not undone by bookkeeping; commits
are not lost, and *done* means the work is on the loop branch; an agent starts
from a tree that has the work it depends on; budgets and retry limits bound the
loop, which ends; what is reported at the end is true.

## Modules

| Module | What it is |
|---|---|
| `WaveLoop` | the parallel loop: state, actions, mutated definitions, properties |
| `MCWaveLoop` | its instances for TLC: dependency graphs, touched files, menus of agent outputs |
| `WaveLoopTypes` | proof that the type invariant is inductive |
| `WaveLoopProofs` | proofs of the safety and action properties |
| `Delivery` | what the loop promises about agents' commits, without slots, waves or git |
| `DeliveryProofs` | proof that `WaveLoop` implements `Delivery` |
| `TaskLifecycle`, `MCTaskLifecycle` | the verbs and sweeps on the task table and the PRD file, statement by statement; its instance |
| `TaskLifecycleProofs` | proofs of its type invariant and its four action properties |
| `Session`, `MCSession` | batches and loops with one agent at a time, their locks, records, stop files, signals, limits and waits; its instance |
| `SessionProofs` | proofs of its type invariant, `NoStaleStop` and its six action properties |
| `AgentWatch` | the watchdog of one agent, as a value that `Session` carries per process |
| `ModelRouting` | which provider, tier, model and effort a task gets: pure operators over a configuration |
| `ModelRecovery`, `MCModelRecovery` | what becomes of one task whose agents overflow, crash or fail, and of its overrides; its instances |
| `ModelRecoveryProofs` | proofs of its type invariant, about the escape valve, the pin, the runners and the order of attempts |
| `LockGuard` | the lock files: open, flock, drop, probe, death of a process |
| `MCLockGuard` | its instance for TLC |
| `LockGuardProofs` | proofs of its type invariant and of exclusion |
| `Migrations`, `MCMigrations` | schema migrations under that lock or without it; EXTENDS `LockGuard`, so the two run together |
| `MigrationsProofs` | proofs about their composition |

### WaveLoop and the code

State. `status`, `fails` are the task table's columns. `passes` is the set of
stories whose flag in the PRD file is true, and `edited` says whether the
file's hash differs from the one the loop remembers. Git is `main` (commits
reachable from the loop branch, that is, slot 0's), `branch` (those reachable
from each other slot's branch) and `dirty`; a commit is a task, a number and
whether its message carries the completion marker, and `work` counts commits
per task (a ghost). `pc` is where the coordinator thread is; `iteration`,
`pending`, `streak`, `stale`, `crashes`, `transients` are the fields of
`IterationContext` and the local variables of `run_loop`; `slot`, `cursor`,
`agg`, `merge`, `outcome` belong to one wave; `report` is what the run leaves
behind. A crash keeps the database, the file and git and forgets the rest.

| Action | Code |
|---|---|
| `StartLoop`, `ReconcileStaleSlots` | `startup.rs` steps 5 to 6.6, `reconcile_stale_ephemeral_slots` |
| `LimitReached`, `DeadlineReached`, `BeginIteration` | head of the loop in `run_loop`, with the PRD re-import |
| `BeginWave`, `QuotaGateStops` | `wave_preflight_check` |
| `SelectSlate`, `EphemeralDeadlock` | `select_parallel_group_excluding`, `handle_ephemeral_deadlock` |
| `QuotaEmpty`, `NoEligibleTasks` | `handle_no_eligible_tasks`: its quota soft stop and quota deferral, then drain, recovery and the stale count |
| `ClaimSlate`, `AgentFinishes`, `JoinWave` | `run_parallel_wave`, `run_slot_iteration` |
| `ProcessSlot`, `SkipSlot`, `ProcessingDone` | `process_slot_result`, `handle_overflow`, `process_iteration_output` |
| `ReactToRateLimit`, `ReactToTransient` | `react_to_outputs`, `react_to_transient` |
| `TrackFailures` | `handle_task_failure_with_runner` over the failing slots, and the crash policy |
| `MergeSlot`, `FastForward`, `PostMergeReconcile` | `merge_slot_branches_with_resolver`, `fast_forward_merged_slots`, `reconcile_merged_slot_completions` |
| `EndWave`, `Settle` | terminal conditions of `run_wave_iteration`; wave dispatch of `run_loop` with `apply_merge_fail_reset_and_halt_check` |
| `ExitClassify`, `ExitReclaim`, `ExitCleanup` | `reconcile_ambiguous_exit`, steps 17.6, 21 and 21.4 |
| `Kill`, `DropStopFile`, `Signal`, `OperatorCommand` | the environment |

Granularity. Steps of the coordinator that touch shared rows or files are
separate actions, so that operators, stop requests and a crash come between
them; agents finish one by one in any order. Inside an action the code runs
several statements; those touch rows nobody else is expected to hold, and the
loop takes no lock, so the model is slightly coarser than the code here. The
completion of one task (row, then PRD flag) is one step.

Abstraction. An agent's output is an outcome, at most one tag (about its own
task or a peer) and whether it committed. A slate is any greedy result in some
score order. A merge conflicts only when both sides have moved. The `Faults`
constant switches on what may fail: `conflict` (a conflict the resolver leaves),
`poison` (the reset fails), `prepare` (slot 0 cannot be stashed), `stash` (stash
limit exceeded), `pop` (the stash does not pop), `ff` (fast-forward refused),
`dirty` (worktrees with uncommitted files), `prd` (an agent edits the PRD file).

### Properties of WaveLoop

* `TypeOK`: the type invariant, including that the iteration counter, which a
  wave that only waited gives back, stays a natural number.
* `NoOrphanClaims`: a run that ends by itself leaves nothing `in_progress`.
* `HonestTerminalsKept`: blocked, skipped and irrelevant are not undone by
  merge resets, sweeps or syncs; the PRD import is the one stated exception.
* `WaveMergesOrReopens`: after a wave's merge phase, a task of that wave that
  is done has its latest commit, or one with its completion marker, on the loop
  branch. (The marker counts because an old slot branch that merges late can
  complete a task by it while a newer attempt's slot failed.)
* `LoopBranchGrows`, `WorkOnlyLostAtCleanup`: commits leave the loop branch
  never, and leave all branches only at an ending run's cleanup.
* `DepsVisible`: a running agent's base tree has the work of done dependencies.
* `RetryBudgetKept`: no open task has used up its retries when a wave begins.
* `PrdCompleteHonest`: `prd_complete` implies that no task is open.
* `LimitedWavesEnd`: a wave in which one agent met the account's limit goes no
  further than the account reaction, even when that agent had completed its task
  and the pipeline made its outcome a completion.
* `DeliversWork`: the refinement. `Delivery` has three sets of commits: made,
  landed and lost. Its steps make a commit (perhaps landing at once), land some,
  or, at the end of a run, give up some that are not landed. The mapping reads
  *landed* off the loop branch, *lost* off what no branch reaches, and *closing*
  off `pc`. Merges, resets, crashes and restarts are landings or stutters.
* `EventuallyExits`: every run ends.
* `MergedWhenDone`, `DoneWorkSurvivesExit`: what comments
  of the code say, which the code does not do (see *Disagreements*).

### TaskLifecycle and the code

One row per task (`status`, `fails`, `blockedAt`, `skippedAt`), the PRD file
(`stories`, `passes`), the global iteration `counter`, and per process ("cli",
"loop") the verb it is in and the values it has read. The CLI's writers exclude
one another by `tasks.db.lock`, the loop takes no lock: so one verb of each
runs beside the other, and a verb is as many steps as it has statements:
`Check`, `Advance` (complete's forced claim), `ReadRow`, `AutoClaim`,
`ReadCounter` (the stamp of `fail`, a SELECT before its UPDATE), `WriteRow`,
`ClearFailures`, `Sweep`, `NumberClaim` (`next` counts its claim in a statement
after it), `CountFailure`, `InsertRow`, `LoadPrd`, `StorePrd`, `Commit`, with
`Crash` between any two. Only decay's SELECT of the counter is joined to its
SELECT of the candidates: the counter only grows, so an older one selects fewer
rows. `SweepFrom`/`SweepTo` are the
conditional UPDATEs, `ApplyFrom`/`ApplyTo` what `matrix.rs` and each verb's own
rule accept. The run starts from every table and file that agree.

* `ReportsAreTrue`: a verb that reports success leaves the row in its target,
  unless the other process has moved it since.
* `ClosedRowsKept`: a closed row is only reopened by a verb that asks for it; the
  one exception, written into the property, is the lost update of a verb that
  judged a stale read.
* `PassesFollowRow`: `passes` becomes true only for a story whose row is done.
* `DecayWaits`: decay reopens a row that `fail` parked only after the full
  threshold of iterations, counted from the counter that this `fail` read. The
  wait after the parking itself may be shorter (see *What else the models
  showed*).

### Session and the code

A process is a batch (`run_batch`) or a single loop. `run[p]` holds its local
state: where it is (`pc`), which PRD (`at`), `iteration`, the last claim, the
current task, the outcome before (`snap`) and after (`live`) the pipeline,
`should_stop` (`halt`), the counters, the signal flag, blackouts and unavailable
rungs, and what it returns to the batch. Shared are the task table, the prefix
locks, `.stop`, the `.stop-<prefix>` files, the run records and the single batch
record. `cli` is one `loop stop` command in flight.

| Action | Code |
|---|---|
| `Launch`, `BatchCheck`, `Decide` | `run_batch`: record, stop check, chain rule |
| `TakeLock`, `WriteRecord` | `startup.rs`: prefix lock, recovery of claims, run record |
| `IterationHead` with `Gate` | head of `run_loop`, steps 0 to 1.5 of `run_iteration`, `run_account_quota_gate` |
| `Select` with `Claim` | `build_prompt` with its second try after recovery, and the stop on an oversized prompt |
| `Poll` | one pass of `watchdog_loop` |
| `AgentEnds` with `Laddered`, `Heard`, `Settled`, `Judged`, `Idled`, `Halted` | from the reaped agent to the next iteration: overflow ladder, pipeline, account reaction, transient reaction, budget, failure counting, stale and drained queues, exit code |
| `WaitOver`, `WaitStopped` | `wait_for_usage_reset`, `transient_backoff_wait`, `handle_quota_deferral` |
| `CleanSignals`, `DropRecord` | step 21 |
| `StopResolve`, `StopWrite`, `StopRecheck` | `loop_stop_resolve_and_write`, `write_stop_and_recheck`, `dead_pid_after_stop_write` |
| `Interrupt`, `Terminate`, `Kill` | Ctrl-C, somebody ending the agent, a crash |

`AgentEnds` is one step because nobody else touches what it reads: the run holds
its prefix lock, and the files are read again only at the next head or wait.
Time is abstract: a wait ends at any moment, an entry of a map of expiries may
have expired whenever it is read, and the watchdog counts polls.

* `ClaimsAreOwn`: a run starts without claimed rows, whatever crashed before it,
  and nobody else claims a row of its prefix while it runs.
* `RateLimitHeeded`: after a rate limit nothing is claimed before the loop waited,
  rerouted or stopped, even if the pipeline made that outcome a completion.
* `SpendStopsChain`, `ChainBuildsOnDone`: what a chain may build on.
* `SignalsAreReal`: a run reports a signal only if there was one; the kills of
  its own watchdog are not taken for Ctrl-C.
* `ExitZeroIsEarned`: exit code 0 of a run that was neither stopped nor short of
  quota means that nothing is open, but for the case given below.
* `NoStaleStop`: an orderly run leaves no stop file for the next one, except one
  that was written when it had already cleaned up.
* `StopsAreServed`, `OnlyLimitsRunForever`: liveness, see *Fairness*.

### ModelRecovery and the code

One task, as the loop sees it. `ModelRouting` holds the resolution chain of
`resolve_execution_plan`: an explicit model, a prefix route, the task's class, or
the primary provider on the anchored tier, rerouted off a blackout; then the clamp
off an unavailable rung. A model is a base name and whether it has the `[1m]`
suffix, an option is the set of its values, and a configuration is a record that
already says what its tables hold for this task.

`effort`, `model`, `runner` and `snapshot` are `ctx.effort_overrides`,
`model_overrides`, `runner_overrides` and `overflow_original_task_model` for the
task, `crashed` is `crashed_last_iteration`, `row` the columns `status`, `model`
and `consecutive_failures`, `prd` the model in the PRD file, `agent` the prompt that
was built for the task, then what was spawned and how it ended. `tasks.model` is read
twice before a spawn, for the plan and by the escape valve, and anybody may write it
between the two: an agent may start on a model the task no longer asks for.

| Action | Code |
|---|---|
| `BuildPrompt` with `Excluded`, `Prompt` | `compute_quota_excluded_ids`, `build_prompt`: selection, claim and plan |
| `Spawn` with `Valve`, `FinalHint`, `RunnerFor` | `resolve_task_execution`, `invalidate_stale_overrides`, and the last steps before the spawn in `iteration.rs` (`Path` "sequential") or `wave_scheduler.rs` ("wave") |
| `Overflow` | `handle_overflow`, all five rungs |
| `Crash`, `Fail`, `Limited`, `Complete` | the other outcomes, as the pipeline and the failure filter see them |
| `TrackFailure` | `handle_task_failure_with_runner` with escalation, snapshot and auto-block |
| `Reclaim` | the recovery of claims before a second selection and at exits |
| `OperatorEdits`, `Reimport`, `Reopen`, `Restart`, `AccountChanges` | `task-mgr update`, the re-import of the PRD, unblock and decay, a new run, limits that come and go |

The two paths differ in one thing that matters: only the sequential one applies
the model override. Other writers act between any two of these steps. The status
verbs are left to `TaskLifecycle`, and the crash limit of the whole loop to
`Session` and `WaveLoop`; so here a task may be tried as often as it is open.

* `OverridesWatched`: while an override is in force there is a snapshot to tell
  an edit by.
* `ValveOnlyForEdits`: the loop's own writes of `tasks.model` are never taken
  for an edit, so its recovery is not thrown away by itself.
* `ModelFitsRunner`: plan, crash escalation, override, pin and hint agree on a
  runner and a model of its own provider. It is about the sequential path and
  excepts a PRD's `default_model`; see *What else the models showed* for both.
* `NoBounce`: a task that was moved to another provider does not go back to one it
  left, unless an operator or a re-import of the PRD wrote `tasks.model` since.
* `NoAttemptTwice`, `LadderEnds`: every overflow leads to a new attempt, and the
  ladder ends. `LadderEnds` needs no fairness: it excludes overflowing for ever,
  and a behaviour that stops has not done so.

### Migrations and the code

`present` is the set of migrations whose tables exist, `version` what
`global_state` says, `job` what each process is doing. `Begin` reads the version
once, `Apply` and `Revert` are one transaction each, `DieWorking` a crash between
two. `migrate` commands hold `tasks.db.lock`; opening the database in other
commands migrates without it. `raced` and `left` are ghosts: an unguarded
migrator ran beside another, or a down migration left its columns.
`VersionTellsSchema` and `MigrationsApply` hold but for these and a stolen guard.

### LockGuard and the code

`path` is the file at the lock's path, `fd` the file each process has open,
`owner` the process that has each file flocked, `pc` where each process is in
`acquire_inner` (`OpenLock`, `TryLock`), in `Drop for LockGuard` (`Unlock`,
`RemoveFile`) or in `is_named_lock_held` (`OpenProbe`, `ProbeLock`,
`ProbeUnlock`). `Die` is a crash: the kernel drops the lock, no destructor runs,
the file stays. The ghost `stolen` records that a guard was granted on a file
that had left the path, or while another process was between unlock and unlink.
`OneGuard` is what the code documents and is refuted; `ExclusiveUnlessStolen` and
`GuardVisible` say that nothing else breaks exclusion.

## Runs

| Run | Bounds | Checks | Shows |
|---|---|---|---|
| `waves` | 2 tasks, 2 slots, 3 iterations, 7 agent outputs, all faults, deadline | `TypeOK`, `PrdCompleteHonest` | every path through one run |
| `interrupted` | 2 tasks, 2 slots, 2 iterations, 2 starts, 1 each of crash, throttle, operator command, stop | `NoOrphanClaims`, `LimitedWavesEnd`, `WorkOnlyLostAtCleanup`, `HonestTerminalsKept`, `DeliversWork` | crash at every point and a restart over what it left; `Delivery` implemented |
| `orderly` | 3 tasks (b after a), 2 slots, 4 iterations, Codex waves | `DepsVisible`, `RetryBudgetKept` | the merge phase gives dependents their base when it is reached |
| `merge_failures` | 3 tasks (one declares the file that all change), 3 slots, 2 iterations, 1 throttle, 1 stop, never halting | `LoopBranchGrows`, `WaveMergesOrReopens`, `EventuallyExits` | one slot merges, another fails, a third is not attempted |
| `locks` | 3 interchangeable processes, 3 files created at the path, 3 migrations, of which one may repeat and one keeps its columns on the way down | `TypeOK`, `ExclusiveUnlessStolen`, `GuardVisible`, `SchemaTypeOK`, `VersionTellsSchema`, `MigrationsApply` | the two windows of a drop are the only way to two guards; migrators under them keep the version true |
| `lifecycle` | 2 tasks, one verb of the loop beside CLI verbs, 1 crash, every consistent initial state | `TypeOK`, `ReportsAreTrue`, `ClosedRowsKept`, `PassesFollowRow`, `DecayWaits` | every interleaving of two verbs, statement by statement |
| `session` | a batch over 2 PRDs (2 tasks and 1) beside a loop over the first, 1 iteration each, limits of 1, 1 signal, kill or `loop stop` | its ten properties | two processes, every outcome of an agent, every wait, one disturbance anywhere |
| `recovery` | 1 task, 7 configurations (Claude, Grok, Codex first; fallbacks with and without a named model; a default model; a review; a task without a difficulty), sequential path, 3 states of the account, 3 edits, 2 disturbances | `TypeOK`, `OverridesWatched`, `ModelFitsRunner`, `NoBounce`, `ValveOnlyForEdits`, `NoAttemptTwice`, `LadderEnds` | every way up the ladder, with somebody intervening anywhere |
| `lock_stolen` | 2 processes, 2 files | `OneGuard` | see below |
| `ladder_stuck` | one configuration, wave path, no disturbance | `LadderEnds` | see below |
| `passes_revived`, `work_dropped` | the smallest in which the disagreement shows | one property each | see below |

Why the bounds suffice. Two slots are the least with a branch of its own and
give every claim/peer interaction; three are needed for a merged slot before a
failed one and an unattempted one after it, hence `merge_failures`. Two waves
are needed for anything that a wave leaves to the next, three for a limit of
two consecutive crashes, stale waves or failures to be reached and reset in
between, four for the retry limit with a dependent task. One crash and one
restart reach every combination of surviving and lost state, since the second
run starts from nothing but the surviving part. `MaxStarts`, `MaxThrottles`,
`MaxKills`, `MaxOps`, `MaxStops`, `MaxCommands` and `MaxDisturbances` bound only
the environment; the program's
own limits (`MaxIterations`, `HaltThreshold`, `MaxCrashes`, `StaleThreshold`,
`MaxRetries`, `TransientMaxAttempts`) are configuration of the program. The
system stops at `pc = "down"` with no starts left, so deadlock is not checked;
`EventuallyExits` is the check that the loop does not get stuck before.

In `recovery` the ladder of Claude has three rungs, which is the least with a
first, a middle and a last one; a task meets each rung at most once between two
disturbances, and two disturbances are needed for one that sets an override's
stage and one that moves the model under it. Failures are counted up to the larger of
two and the retry limit, since nothing distinguishes more (`FailsCap`). A task
that is closed, or blocked with no disturbance left, has no step: deadlock is not
checked.

Fairness. `FairSpec` assumes weak fairness of the coordinator as one action
(one thread, which only blocks in the join and in bounded waits) and of the
agents (the watchdog and the per-iteration timeout kill an agent that does not
end). Nothing is assumed of operators, signals, stop files or crashes. Waits for
a throttle or a quota reset give the iteration back; they are bounded in `WaveLoop`
by `MaxThrottles`, and an account that throttles for ever does keep the real loop
waiting.

`recovery` uses `Steps`, without fairness. `ladder_stuck` uses `Spec`, weak
fairness of the prompt, of the spawn, of an agent's end, of the failure count and of the reclaim,
so that its counterexample is a run that goes on; nothing is assumed of the
outcome.

`session` bounds no throttle: agents may be limited for ever, and
`OnlyLimitsRunForever` says that this, or agents that ask for another task for
ever, is the only way for a process not to end. Its fairness is that of each
running process (its waits are timed, its watchdog polls); nothing is assumed
of the agent, which is ended by the watchdog whose extensions run out. It is
written as "infinitely often not running, or infinitely often a step that changes
the process", which is weak fairness of `Step(p)`, since a running process always
has such a step and others change it only boundedly often. In `session` one
iteration, one crash, one attempt and one stale iteration suffice: the counters
are compared with their limits by every path, a second PRD provides the second
run, and the rate limited iteration that is given back provides the second one.
The first PRD starts as a crash has left it, the second one is done. It is the
longest run, two to three minutes.

## Disagreements between the code and its comments

Each is a run whose property TLC refutes.

1. `passes_revived` (`MergedWhenDone`). The re-import of the PRD at the head of
   an iteration marks every story with `passes: true` done again. Merge failure
   reopens the task but leaves the flag, so one iteration later the task is done
   with its work off the loop branch. `recovery.rs` in `src/lifecycle` names this
   as what the reopening is to prevent.
2. `work_dropped` (`DoneWorkSurvivesExit`). A throttled wave defers its merges,
   and a run that ends there deletes the slot branches with `git branch -D`.
3. `lock_stolen` (`OneGuard`). Dropping a guard unlocks and then unlinks, and
   acquiring does not check that the locked file is still at the path, so two
   guards can exist. Locking, then comparing the file with the one at the path,
   or unlinking before unlocking together with that check, would close it.
4. `ladder_stuck` (`LadderEnds`). On the wave path rungs 2 and 3 record a model
   override that only the sequential path reads. The task starts again on the same
   model, and overflows, until the crash limit or the iteration budget ends the
   run; auto-block does not help, because the ladder has put the row back to todo.

## What else the models showed

Behaviour met while modelling that no comment contradicts, for which a property
carries an explicit exception, or that has no run of its own. The first group
follows from what the models' definitions say.

* After a throttled wave, which skipped its merges, a dependent task can be started
  from a tree without the work it depends on. `DepsVisible` is checked and proved
  without throttles; operators, crashes and restarts do not break it.
* With a `default_model`, an attempt can be made twice on the sequential path: a task
  that a blackout moves from Claude to Grok, at a rung without a model, keeps its
  provider hint, since the default model makes the change look like a widening; when
  Grok overflows, its fallback, Claude at the anchored rung, repeats an attempt that
  overflowed before. `EveryOverflowLeadsOn` assumes no default model; the
  configuration with one in `recovery` has no such reroute.
* Unblocking, and a tag that does it, leaves the failure count at the limit, and an
  overflow puts its row back before the failure is counted: such a task gets one more
  agent. `RetryBudgetKept` is checked and proved without them.
* The terminal "all tasks complete", status Completed, is decided before the merge
  failures of the same wave reopen tasks (`wave_scheduler.rs:1526`).
  `prd_complete`, which a chain reads, is taken later and is right.
* On the wave path a move to a provider whose rung has no model leaves the column
  empty; the next plan takes the primary provider's model, and the pinned runner is
  started with it (`pre_spawn.rs:104`). So `ModelFitsRunner` is about the
  sequential path.
* A PRD's `default_model`, which is said to be ignored, makes the crash escalation
  from no model to `opus` look like a widening, and Codex is started with `opus`
  (`iteration.rs:571`). `ModelFitsRunner` excepts the default model.
* A Grok task without a model of its own is escalated to `opus` by its second
  failure, a move between providers that the code excludes for Codex
  (`recovery.rs:231`).
* A re-import of the PRD restores the old model of a promoted task, the valve takes
  that for an edit, and the task is back on the provider it left
  (`orchestrator.rs:178`); `NoBounce` excepts it.
* A failure counted after an edit and before the next spawn moves the snapshot onto
  the edit, and the override stays in force (`recovery.rs:273`).
* Blackouts are judged on the plan; the crash escalation that follows may choose a
  blacked out provider (`pre_spawn.rs:315`).

In the other modules:

* An iteration that hits the crash limit, or whose prompt is too large to send,
  and in which a completion is found (by a tag, or by a commit that names the
  claimed task), ends its run with code 0, "all tasks complete" and status
  Completed, whatever is open: `should_stop` is set before the pipeline, the code
  is chosen after it (`orchestrator.rs:663`). Reason `halted_done` in `Session`,
  the exception in `ExitZeroIsEarned`.
* Empty outputs up to the crash limit exit 0 as "quota soft-stop"
  (`orchestrator.rs:691`).
* A `.stop` during a transient back-off exits 1, one during a blackout deferral
  130, neither as stopped: a batch without `--chain` goes on, and the exit has
  removed the `.stop` it would have checked.
* Waits poll the global `.stop` only: not `.stop-<prefix>`, not the signal flag,
  and not after their last stretch.
* The exit of any run removes the global `.stop`, also one meant for another.
* A prefix stop file written between the cleanup and the removal of the run
  record stops the next run (`late` in `NoStaleStop`).
* `loop stop` unlinks the file it wrote when the process has died, and one batch
  record serves all batches.
* Expired rungs stay in the map a run returns, so a chain may go on from an
  unfinished PRD because of a rung that is available again (`batch.rs:792`).
* A run that ends between a claim and its pipeline leaves the row claimed until
  the next start recovers it.
* Auto-block stamps the run's own iteration, decay compares with the global
  counter; `skip` leaves `skipped_at` alone; unblock, unskip and reset leave old
  stamps. So a row parked by another verb than `fail` may decay earlier or later
  than its threshold says; `DecayWaits` is about rows that `fail` parked.
* `fail` reads the counter (`fail.rs:68-75`) and stamps the row with it in a later
  UPDATE, with no transaction around them; a claim that `next` numbers in between
  (`next/mod.rs:310-314`) makes the stamp one iteration old, and decay may take
  the row that much earlier than a full threshold after it was parked.
* `complete` reports success for a row the matrix refused; skip and irrelevant of
  the CLI ignore per-task outcomes.
* A verb that read before another process closed the row writes over it; two
  read-modify-writes of the PRD file lose one of them.
* A slot's claim accepts `in_progress`, so it also wins over a claim of the CLI.
* A completion by reconcile, doctor or import does not reset
  `consecutive_failures`.
* A rung that is only known as the nearest of a sparse ladder carries its own
  tier in the plan, not the one whose model it borrows, so when that
  rung is unavailable, tasks that only borrow its model are not excluded.
* Crash escalation of a model with the `[1m]` suffix gives the next tier's, or its
  own, without it: a task that asks for the wide window itself loses it.
* On a Codex ladder with two named rungs, rung 2's override drops the provider hint
  with the model, and a Claude runner is started with a Codex model.
* A migrator without the lock may read a version that another then moves: a
  repeatable migration runs again and lowers the recorded version. Down migrations
  of v4, v5, v7, v10, v11 and v20 keep their columns, so their up fails later.

## Proofs

Every invariant and action property that a passing run checks is proved, for every
value of the constants that satisfies the stated assumptions. Assumptions come in two
kinds. Named `ASSUME`s of the modules say what the constants are (at least two slots,
finitely many tasks, configurations that `validate_models_config` accepts); TLC
evaluates them in every run. Hypotheses of single theorems, which are listed below,
say when a property holds that the code does not guarantee in general; each is there
because of a behaviour described under *What else the models showed* or in the
property itself, and the run of that property satisfies it.

### Wave loop

`WaveLoopTypes` proves `Spec => []TypeInv`, where `TypeInv` is `TypeOK` and
`WaveShape`: inside a wave the iteration counter is at least one, a slot that is
not idle has a task, and the merge cursor has left slot 0. Without `WaveShape`
the type invariant is not inductive: giving an iteration back could go below
zero, a status could be written for no task, and slot 0 could count as merged.
There is one lemma per group of variables and one step per action.

`WaveLoopProofs` uses it:

* `NoClaimOutlivesRun` (assuming no Codex wave) goes by the invariant
  `ClaimsTracked`: every `in_progress` row is in the pending tracker, or claimed
  by a slot of the running wave that is still to be post-processed, or the
  process has crashed and not been started again. The tracker is what step 17.6 sweeps, so its
  coverage is the whole argument; it rests on `Tracked` adding a claim before
  anything can close it and dropping it only when that very task is closed.
* `PrdCompletionIsHonest` goes by `PrdHonest`: once the snapshot is taken, no
  later step of the exit opens a task, unless an operator does.
* `LoopBranchOnlyGrows`, `OnlyCleanupDropsWork` and `DecisionsOutliveSweeps` are
  action properties; each follows for one step from `TypeInv` by cases on `Next`.
* `LimitsEndWaves` is inductive as it stands: the account reaction is the only way
  from processing to what follows, and slots do not change after it.

Three more need to know what a slot may hold, which is the invariant `SlotsFit`: slots
are idle outside a wave, two slots never have the same task, agents run in one
phase only, and the pipeline only turns an outcome into a completion.

* `RetriesEnd` (`RetryBudgetKept`) goes by `BudgetSound`. That an open row is within
  its budget is not inductive: the failures of a wave are counted one phase after
  its rows were claimed, and auto-block parks only rows that are `in_progress`.
  So no row of the wave may be put back to todo in between, and a row that was
  completed must have room for the failed merge that may reopen it. Hypothesis
  `NobodyReopens`: no operator, no unblock or reset tag and no overflow. Unblocking
  does not clear the count, and an overflow puts the row back before its failure is
  counted; either offers a task again whose budget is used up. Crashes, restarts,
  throttles and failed merges are all allowed.
* `DependentsSeeWork` (`DepsVisible`) goes by `Synchronised`: between waves every slot
  branch is the loop branch (`Level`), the latest commit of each task is on some branch
  (`LatestKept`), no task of a wave depends on another (`Apart`), while agents work
  each tree has the latest work of every task that nobody works on
  (`OthersVisible`), and the merge phase has merged the slots behind its cursor
  (`Merging`). Hypothesis `WavesMerge`: no git step fails and no agent is throttled,
  the two cases in which a wave leaves branches behind the loop branch; and with Codex
  waves there is one run only, since a wave that found the database corrupted ends
  its run before merging. Operators, crashes
  and restarts are allowed, more than the run `orderly` allows.
* `WavesMergeOrReopen` (`WaveMergesOrReopens`) goes by `WorkBacked`: a done row of a
  processed slot has its work in that slot's tree, the merge phase leaves each slot
  failed or with nothing that the loop branch lacks, and `EndWave` reports the failed
  ones. Every fault of the merge phase is allowed. Hypothesis `ClosedByOwnWork`: a
  closing tag names its own task and comes with a commit, and no operator closes
  rows. An agent that claims completion without a commit has nothing to merge.

`DeliveryProofs` proves `Spec => Given!Spec`. Besides `TypeInv` it needs that
every commit on a branch was made (its number is at most `work`); then agents'
commits are `Make`, merges are `Land`, the cleanup is `GiveUp`, and everything
else leaves the three sets alone.

### Task lifecycle

`TaskLifecycleProofs` proves `Typed` first: the type invariant together with `Fits`,
which says of each process which verbs can be at which statement and what they have
read by then (a verb about to write read a status that the matrix lets it leave).
Without it `WriteRow` could write the target of a verb from any status.

Two more parts carry the action properties. `StillTrue` says what a verb saw of its
row, or did to it, is still so, and holds of a process until the other one moves
that row (`disturbed`, a ghost): this is `ReportsHold` and `FlagsFollowRows`.
`HasRow` says that a verb under way acts on a row that exists. `StampsAgree` says that
a row parked by `fail` still carries the counter which that `fail` read, which
gives `ParksWait`; the counter at the UPDATE may be higher. `ClosedRowsStay` rests on `Fits`: a verb writes only from a status that
it read and that the matrix lets it leave, so a closed row can leave its status
otherwise only where row and reading differ, which is the property's exception.

### Session

`SessionProofs` proves the invariant `Orderly`: types; `LocksFit`, a process between
taking and dropping its prefix lock is the owner, and the owner is such a process;
`StopsHeard`, a stop file of a prefix is late or its run will look at it or remove it;
`Fit`, the state of a process fits its stage (a running agent has a task of
the prefix, attempts and crashes are below their limits, a rate limit that was not
heeded is being waited for); `WatchFits`, a kill that the watchdog did for a signal
has a signal behind it.

`AgentEnds` is a nest of operators from the reaped agent to the next iteration. Each
has a lemma that takes a process that is `Ready` (it may go on, or its end is
settled) to one that `Lands` (it goes on fitting its stage, or ends in a state that says
what happened, `Earned`). `Iterated` sums up what an iteration does to everybody
else's state, so that the last lemmas look at no operator of an iteration again.
`TypeCorrect`, `StopsLeftLate`, `LimitsHeeded`, `SpendStops`, `SignalsReal` and
`ZeroIsEarned` follow. They assume nothing but the constants' types and
`WatchAssumption`.

`ClaimsOwn` and `ChainsBuildOnDone` relate a run to rows of the table, which is keyed
by task, not by prefix. Their hypothesis `PrefixesApart` is that no two prefixes share
a row. The rows of a prefix are those whose id begins with it and a dash
(`src/db/prefix.rs:47`). The prefixes that `generate_prefix` makes are eight hex digits
and never share one; a prefix of the user's choice may contain a dash, and then `a` and
`a-b` do. Their invariant is `Clean`: a run that has just taken its lock finds
no claimed row, and one that was complete leaves no open row until its batch has decided.

### Models and runners

`ModelRecoveryProofs` proves, for every configuration, `Steps => []TypeOK` and,
by one inductive invariant `ValveInv`, `OverridesWatched` and `ValveOnlyForEdits`.
The conjunct that does the work is `Steady`: unless somebody moved `tasks.model`
since the snapshot was taken, the column is the snapshot, or it is the model that
the ladder's move recorded as its override. Each writer keeps it in its own way:
the ladder takes the snapshot before it writes and records what it writes, the
failure count moves the snapshot along, and the valve absorbs or clears. The proof
also needs that a snapshot, once there, is never removed alone. It uses that a
move gives the empty string, not NULL, for a provider without a model, since the
valve recognises no NULL as the ladder's.

* `NeverBack` (`NoBounce`, on both paths) goes by `Settled`: a task that left a
  provider is pinned to another, and its snapshot is in step with the column
  (`InStep`), so the valve, the only step that removes a pin, sees no edit. It uses that a
  validated configuration has no fallback to the provider itself.
* `RunnersFit` (`ModelFitsRunner`) goes by `PinFits`, a pinned task has an override of
  the provider it is pinned to, `PromptFits`, a hint goes with its prompt's model, and
  `AgentFits`. Hypotheses: the sequential path, and
  `LadderTells`, each named rung has a name that tells its provider. So it is with the
  built-in ladders; a Codex rung with a name breaks it, as no name tells Codex (see
  the last items of *What else the models showed*). The wave path ignores the override,
  which breaks the property there.
* `EveryOverflowLeadsOn` (`NoAttemptTwice`) goes by `Climbing`: every attempt that
  overflowed while the task is open lies behind what the overrides now say, by
  its effort, by a runner left, or in the order `Less` (a higher rung, or the
  same model with the wide window). `Less` is a strict order because validated ladders
  repeat no name. Besides the hypotheses of `RunnersFit` there must be no default model.

### Locks and migrations

`LockGuardProofs` proves its type invariant and, from it, `GuardSafe`: while no
guard has been stolen, the guard's file is at the path *and* nobody is between
unlock and unlink. The second half is what makes the first inductive. Exclusion
and visibility follow, for any number of processes and files.

`MigrationsProofs` proves first that the composition implements `LockGuard`, so
that `LockGuardProofs` applies to it, then its type invariant, then `SchemaSound`:
unless upset, `present` is `1 .. version`, and each working process either holds
the guard, with its next migration right after the version, or works alone. It
assumes nothing of which migrations may be repeated.

### Only model-checked

The liveness properties: `EventuallyExits`, `StopsAreServed`, `OnlyLimitsRunForever` and
`LadderEnds`. Fairness unfolds to `ENABLED`, which the prover does not know, and the
descent of a measure is an induction that it cannot instantiate. Outside the
hypotheses above a property is checked only as far as a run goes: `recovery` checks
`NoAttemptTwice` also with a default model, in a configuration in which it holds.

## Not modelled

* Failures of single SQL statements and file writes that the code logs and
  ignores, and a crash inside one action.
* Pause files, extra signal directories and their age check, human review, the
  external-git reconcile, guidance, progress files and prompts.
* How names and labels are parsed, maxima over a cluster of tasks, auxiliary plans
  (merge resolver, learnings), and the numbers of quota and usage:
  `Session` keeps what they decide (a task can be taken or not, the run waits or
  stops). Back-off delays: only that attempts end.
* The re-import of the PRD is in `WaveLoop`, not in `Session`.
* In `WaveLoop` the quota excludes none of the candidates for a slate or all of
  them: a slate that it only thins out, and an empty slate that is
  neither an exhausted set of rungs nor a blackout, are not modelled. Which task a
  quota excludes is in `ModelRecovery`.
* More than one effect of one output, and outputs that name tasks of another PRD.
* The window after the probe of `init --force`.
* Learnings: recall scores are floating point and come from external services; the
  counters are single UPDATEs of one process. Archive and calibration: one process
  over finished PRDs. Prompts, CLI parsing and output: no state
  that outlives a call. These parts, which are pure or sequential text and data
  handling, and the repository's tests, are most of its lines.

## Plan

Done: the wave loop with its runs, refinement and proofs; the lock files and the
migrations with theirs; the task lifecycle; sequential runs, batches, stops and the
watchdog; model resolution and the recovery of one task; proofs of every invariant
and action property that a passing run checks.

Next, in order:

1. An abstract merge phase (each slot merged, failed or not attempted; the loop branch
   grows by the merged ones) implemented by the merge part of `WaveLoop`, and the
   same for the claims of a wave.
2. `NoOrphanClaims` with Codex waves: what remains claimed after a corrupted database,
   stated as a set rather than excluded.
3. The ladder as a measure: `Less` is a strict order on finitely many attempts, so
   `LadderEnds` would follow from `EveryOverflowLeadsOn` by counting; the temporal
   half stays with TLC.
4. `NoBounce` and `ModelFitsRunner` on the wave path, with the exceptions that path
   needs.

## Running

In this directory: `tlc -workers 2 -config waves.cfg MCWaveLoop` for a run (the
other configurations likewise), `tlapm WaveLoopProofs.tla` for the proofs. The
largest runs take one to three minutes and have up to 2.5 million states.
