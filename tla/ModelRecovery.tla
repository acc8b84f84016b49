---------------------------- MODULE ModelRecovery ----------------------------
(***************************************************************************)
(* What becomes of one task whose agents overflow, crash or fail: the      *)
(* loop's recovery channels for it, the task row, and the people and files *)
(* that change tasks.model meanwhile.  The channels live in the memory of  *)
(* the loop, the model in the database, and three writers of the latter    *)
(* (the overflow ladder, the failure count, everybody else) can only be    *)
(* told apart by comparing it with a snapshot.                             *)
(***************************************************************************)
EXTENDS ModelRouting

CONSTANTS
  Path,             \* "sequential" or "wave", the two execution paths
  Configs,          \* configurations a run may have
  PrdModels,        \* the task's model in the PRD file
  EditModels,       \* models an operator may set
  Accounts,         \* [out, dark]: what an account's limits may exclude
  MaxDisturbances   \* bound: edits, imports, reopenings and restarts together

Statuses == {"todo", "in_progress", "blocked", "closed"}
Unset == Model("unset")
Stages == {"running", "overflowed", "failed"}   \* of an agent that was started
NoAgent == [stage |-> "none"]

ASSUME RecoveryAssumption ==
  /\ Path \in {"sequential", "wave"}
  /\ \A c \in Configs : c \in Configurations /\ Validated(c)
  /\ PrdModels \subseteq Columns /\ EditModels \subseteq Columns
  /\ \A a \in Accounts : a.out \subseteq Providers /\ a.dark \subseteq Providers \X Tiers
  /\ MaxDisturbances \in Nat

VARIABLES
  config,     \* ctx.resolved_models and project_config.routing
  prd,        \* the model of the task in the PRD file
  row,        \* status, model and consecutive_failures of the task
  crashed,    \* ctx.crashed_last_iteration
  effort,     \* ctx.effort_overrides
  model,      \* ctx.model_overrides
  runner,     \* ctx.runner_overrides
  snapshot,   \* ctx.overflow_original_task_model
  agent,      \* the agent of the task, as it was spawned
  account,    \* blackouts and unavailable rungs
  ghost,      \* what the properties remember
  disturbed   \* disturbances so far

channels == <<effort, model, runner, snapshot>>
vars == <<config, prd, row, crashed, channels, agent, account, ghost, disturbed>>

\* Ghosts: whether anyone but the loop moved tasks.model under the snapshot, the
\* attempts that overflowed since the last disturbance, and the runners the task was
\* moved off.
NoGhost == [moved |-> FALSE, tried |-> {}, left |-> {}]

Init ==
  /\ config \in Configs
  /\ prd \in PrdModels
  /\ row = [status |-> "todo", model |-> prd, fails |-> 0]
  /\ crashed = FALSE
  /\ effort = "unset" /\ model = Unset /\ runner = NoRunner /\ snapshot = Unset
  /\ agent = NoAgent
  /\ account \in Accounts
  /\ ghost = NoGhost
  /\ disturbed = 0

-----------------------------------------------------------------------------
(* Before the spawn.                                                       *)

\* compute_quota_excluded_ids: a task moved to another runner is pinned to it.
Excluded ==
  LET plan == ExecutionPlan(config, row.model, account.out, account.dark)
      p == IF runner # NoRunner THEN runner ELSE plan.provider
  IN p \in account.out \/ <<p, plan.tier>> \in account.dark

\* The escape valve, invalidate_stale_overrides: a model that differs from the
\* snapshot is the ladder's own when it is the one the ladder recorded, and an
\* edit otherwise.
\* (Mutated forms of definitions stand before them, for the runs that break them.)
Diverged == snapshot # Unset /\ row.model # snapshot
OwnWriteIfNull == row.model # Null /\ row.model = model /\ snapshot = Null
OwnWrite == row.model # Null /\ row.model = model
Edited == Diverged /\ ~OwnWrite

Valve ==
  IF Edited
  THEN effort' = "unset" /\ model' = Unset /\ runner' = NoRunner /\ snapshot' = Unset
  ELSE /\ snapshot' = IF Diverged THEN row.model ELSE snapshot
       /\ UNCHANGED <<effort, model, runner>>

\* final_provider_hint: dropped with the model it was given for, but not when
\* the PRD's default merely took the place of none.
FinalHintKept(hint, effective, resolved) == hint
FinalHint(hint, effective, resolved) ==
  LET widened == resolved = Null /\ effective \in config.defaultModel
  IN IF effective # resolved /\ ~widened THEN NoRunner ELSE hint

\* resolve_effective_runner
RunnerUnclassified(pinned, hint, m) == IF pinned # NoRunner THEN pinned ELSE hint
RunnerFor(pinned, hint, m) ==
  IF pinned # NoRunner THEN pinned ELSE IF hint # NoRunner THEN hint ELSE ProviderOf(m)

Attempt(e, m, r) == [stage |-> "running", effort |-> e, model |-> m, runner |-> r]

\* What a built prompt keeps of the plan.
Prompt(plan) ==
  [stage |-> "prompt", effort |-> plan.effort, model |-> plan.model,
   hint |-> IF plan.provider = "claude" THEN NoRunner ELSE plan.provider]

\* build_prompt: a task is selected, claimed and planned.  (The exclusion is worked
\* out a moment before, of the same reading here.)
BuildPrompt ==
  /\ agent = NoAgent /\ row.status = "todo" /\ ~Excluded
  /\ agent' = Prompt(ExecutionPlan(config, row.model, account.out, account.dark))
  /\ row' = [row EXCEPT !.status = "in_progress"]
  /\ UNCHANGED <<config, prd, crashed, channels, account, ghost, disturbed>>

\* The valve reads tasks.model once more, and the agent starts on the plan made of
\* the first reading.  The sequential path puts the model override over the plan, the
\* wave path does not.
Spawn ==
  /\ agent.stage = "prompt"
  /\ Valve
  /\ LET escalated == IF crashed THEN Escalated(config, agent.model) ELSE {}
         planned == Pick(escalated, agent.model)
         e == IF effort' # "unset" THEN effort' ELSE agent.effort
     IN agent' =
        IF Path = "sequential"
        THEN LET m == IF model' # Unset THEN model' ELSE planned
             IN Attempt(e, m, RunnerFor(runner', FinalHint(agent.hint, m, agent.model), m))
        ELSE LET kept == IF escalated = {} THEN agent.hint ELSE NoRunner
             IN Attempt(e, planned, RunnerFor(runner', kept, planned))
  /\ ghost' = [ghost EXCEPT !.moved = ~Edited /\ @, !.tried = IF Edited THEN {} ELSE @]
  /\ UNCHANGED <<config, prd, row, crashed, account, disturbed>>

-----------------------------------------------------------------------------
(* After the agent.                                                        *)

Recovered(r) == IF r.status = "in_progress" THEN [r EXCEPT !.status = "todo"] ELSE r
Parked(r) == IF r.status = "in_progress" THEN [r EXCEPT !.status = "blocked"] ELSE r

\* overflow_target_rung_blacked
Lit(p, m) == \A t \in TierOf(config, p, m) : <<p, t>> \notin account.dark

\* The models rungs 2 and 3 of the ladder lead to, and where rung 4 goes.
OneTierUpOrSame(a) == {m \in EscalateTier(config, a.runner, a.model) : Lit(a.runner, m)}
OneTierUp(a) == {m \in EscalateBelowCeiling(config, a.runner, a.model) : Lit(a.runner, m)}
Wider(a) == IF a.runner = "claude" THEN {m \in To1M(a.model) : Lit(a.runner, m)} ELSE {}
FallbackModel(a, p) ==
  LET m == ModelFor(config, p, Pick(TierOf(config, a.runner, a.model), config.anchor))
  IN IF m = Null THEN Blank ELSE m

\* promote_once: a task that was moved once is not moved again.
MoveToAgain(a) == config.fallback[a.runner]
MoveTo(a) == IF runner = NoRunner THEN config.fallback[a.runner] ELSE {}

\* The column at the first overflow, whatever the rung: the model has not moved yet.
CapturedOnMove == IF snapshot = Unset /\ runner' # runner THEN row.model ELSE snapshot
Captured == IF snapshot = Unset THEN row.model ELSE snapshot

\* handle_overflow: less effort, else a higher tier, else the wider window, else
\* another provider, else blocked; the pipeline then notes a crash.
Overflow ==
  /\ agent.stage = "running"
  /\ IF agent.effort = "xhigh"
     THEN effort' = "high" /\ row' = Recovered(row) /\ UNCHANGED <<model, runner>>
     ELSE /\ UNCHANGED effort
          /\ IF OneTierUp(agent) \cup Wider(agent) # {}
             THEN /\ model' = Pick(OneTierUp(agent), Pick(Wider(agent), Null))
                  /\ row' = Recovered(row) /\ UNCHANGED runner
             ELSE IF MoveTo(agent) # {}
             THEN LET p == Pick(MoveTo(agent), NoRunner) IN
                  /\ runner' = p /\ model' = FallbackModel(agent, p)
                  /\ row' = IF row.status = "in_progress"
                            THEN [Recovered(row) EXCEPT !.model = model'] ELSE row
             ELSE row' = Parked(row) /\ UNCHANGED <<model, runner>>
  /\ snapshot' = Captured
  /\ crashed' = TRUE
  /\ agent' = [agent EXCEPT !.stage = "overflowed"]
  /\ ghost' = [ghost EXCEPT
       !.tried = @ \cup {<<agent.effort, agent.model, agent.runner>>},
       !.left = IF runner' # runner THEN @ \cup {agent.runner} ELSE @]
  /\ UNCHANGED <<config, prd, account, disturbed>>

\* The other outcomes: crashes and failures count against the task, a lapsed
\* login only as a crash, a limit not at all and the row goes back.
Crash ==
  /\ agent.stage = "running"
  /\ crashed' = TRUE
  /\ agent' \in {[agent EXCEPT !.stage = "failed"], NoAgent}
  /\ UNCHANGED <<config, prd, row, channels, account, ghost, disturbed>>

Fail ==
  /\ agent.stage = "running"
  /\ crashed' = FALSE
  /\ agent' = [agent EXCEPT !.stage = "failed"]
  /\ UNCHANGED <<config, prd, row, channels, account, ghost, disturbed>>

Limited ==
  /\ agent.stage = "running"
  /\ crashed' = FALSE
  /\ row' = Recovered(row)
  /\ agent' = NoAgent
  /\ UNCHANGED <<config, prd, channels, account, ghost, disturbed>>

Complete ==
  /\ agent.stage = "running"
  /\ crashed' = FALSE
  /\ row' = [row EXCEPT !.status = "closed", !.fails = 0]
  /\ agent' = NoAgent
  /\ UNCHANGED <<config, prd, channels, account, ghost, disturbed>>

\* More than FailsCap failures are as FailsCap.
FailsCap == IF config.maxRetries > 2 THEN config.maxRetries ELSE 2
ShouldAutoBlock(n) == config.maxRetries > 0 /\ n >= config.maxRetries
\* An escalation moves the snapshot along, if there is one.
Absorbed(up) == IF snapshot = Unset THEN Unset ELSE Pick(up, snapshot)

\* handle_task_failure_with_runner
TrackFailure ==
  /\ agent.stage \in {"overflowed", "failed"}
  /\ agent' = NoAgent
  /\ IF row.status \in {"blocked", "closed"}
     THEN UNCHANGED <<row, snapshot>>
     ELSE LET n == row.fails + 1
              up == IF n >= 2 /\ ~ShouldAutoBlock(n) /\ agent.runner # "codex"
                    THEN Escalated(config, row.model) ELSE {}
              counted == [row EXCEPT !.fails = IF n > FailsCap THEN FailsCap ELSE n,
                                     !.model = Pick(up, @)]
          IN /\ row' = IF ShouldAutoBlock(n) THEN Parked(counted) ELSE counted
             /\ snapshot' = Absorbed(up)
  /\ UNCHANGED <<config, prd, crashed, effort, model, runner, account, ghost, disturbed>>

\* A claim whose agent is gone is handed back.
Reclaim ==
  /\ agent = NoAgent /\ row.status = "in_progress"
  /\ row' = Recovered(row)
  /\ UNCHANGED <<config, prd, crashed, channels, agent, account, ghost, disturbed>>
-----------------------------------------------------------------------------
(* Everybody else.  MaxDisturbances bounds these, except for the account.   *)

Disturb == disturbed < MaxDisturbances /\ disturbed' = disturbed + 1

\* task-mgr update, at any time; the loop's copy of the PRD file may be another.
OperatorEdits(m) ==
  /\ Disturb
  /\ m # row.model
  /\ row' = [row EXCEPT !.model = m]
  /\ prd' \in {prd, m}
  /\ ghost' = [ghost EXCEPT !.moved = snapshot # Unset, !.left = {}]
  /\ UNCHANGED <<config, crashed, channels, agent, account>>

\* The PRD file changed, whatever in it: every task's model is imported again.
Reimport ==
  /\ Disturb
  /\ agent = NoAgent /\ row.model # prd
  /\ row' = [row EXCEPT !.model = prd]
  /\ ghost' = [ghost EXCEPT !.moved = snapshot # Unset, !.left = {}]
  /\ UNCHANGED <<config, prd, crashed, channels, agent, account>>

\* unblock, reset and the decay of old blocks: the count of failures stays.
Reopen ==
  /\ Disturb
  /\ row.status = "blocked"
  /\ row' = [row EXCEPT !.status = "todo"]
  /\ ghost' = [ghost EXCEPT !.tried = {}]
  /\ UNCHANGED <<config, prd, crashed, channels, agent, account>>

\* A new run of the loop: the channels are gone, the PRD file is imported.
Restart ==
  /\ Disturb
  /\ row' = [Recovered(row) EXCEPT !.model = prd]
  /\ crashed' = FALSE
  /\ effort' = "unset" /\ model' = Unset /\ runner' = NoRunner /\ snapshot' = Unset
  /\ agent' = NoAgent
  /\ ghost' = NoGhost
  /\ UNCHANGED <<config, prd, account>>

AccountChanges ==
  /\ account' \in Accounts \ {account}
  /\ UNCHANGED <<config, prd, row, crashed, channels, agent, ghost, disturbed>>

-----------------------------------------------------------------------------
(* The loop runs as long as the task is open, and agents end.              *)

AgentEnds == Overflow \/ Crash \/ Fail \/ Limited \/ Complete
Next ==
  \/ BuildPrompt \/ Spawn \/ AgentEnds \/ TrackFailure \/ Reclaim
  \/ \E m \in EditModels : OperatorEdits(m)
  \/ Reimport \/ Reopen \/ Restart \/ AccountChanges

Fairness ==
  /\ WF_vars(BuildPrompt) /\ WF_vars(Spawn) /\ WF_vars(AgentEnds)
  /\ WF_vars(TrackFailure) /\ WF_vars(Reclaim)
Steps == Init /\ [][Next]_vars
Spec == Steps /\ Fairness

-----------------------------------------------------------------------------
(* Properties.                                                             *)

Agents == [stage : Stages, effort : Efforts, model : Columns, runner : Providers]
Prompts == [stage : {"prompt"}, effort : Efforts, model : Columns,
            hint : (Providers \ {"claude"}) \cup {NoRunner}]

\* Every variable stays within its type; in particular tasks.model is always a
\* model, NULL or the empty string, and an agent has a runner.
TypeOK ==
  /\ config \in Configs /\ prd \in Columns
  /\ row \in [status : Statuses, model : Columns, fails : 0 .. FailsCap]
  /\ crashed \in BOOLEAN
  /\ effort \in {"unset", "high"} /\ model \in Columns \cup {Unset}
  /\ runner \in Providers \cup {NoRunner} /\ snapshot \in Columns \cup {Unset}
  /\ agent \in Agents \cup Prompts \cup {NoAgent}
  /\ account \in Accounts /\ disturbed \in 0 .. MaxDisturbances
  /\ ghost \in [moved : BOOLEAN, left : SUBSET Providers,
                tried : SUBSET (Efforts \X Columns \X Providers)]

\* The escape valve can always work: whenever a recovery override is in force,
\* there is a snapshot to tell an edit of tasks.model by.  The ladder fills the
\* channels one by one and the valve must clear them together.
OverridesWatched ==
  effort # "unset" \/ model # Unset \/ runner # NoRunner => snapshot # Unset

\* The valve never takes the loop's own writes for an edit: it clears the overrides
\* only when an operator or a re-import moved tasks.model since the snapshot.  The
\* ladder and the failure count write the same column in two different ways, and
\* each must leave a trace the valve understands.
ValveOnlyForEdits == [][Spawn /\ Edited => ghost.moved]_vars

\* An agent is started with a model of its own provider: on a ladder, one whose
\* ladder has it, and off every ladder one whose name says so.  Plan, crash
\* escalation, override, pin and hint are five sources that must agree, and on the
\* sequential path do, where the names on a ladder tell its provider.  The PRD's
\* default_model is the exception: it lets a hint outlive the model it was for.
OnLadder(m) == {p \in Providers : TierOf(config, p, m) # {}}
ModelFitsRunner ==
  agent.stage \in Stages /\ Named(agent.model) /\ agent.model \notin config.defaultModel =>
    agent.runner \in IF OnLadder(agent.model) = {} THEN {ProviderOf(agent.model)}
                     ELSE OnLadder(agent.model)

\* An attempt that overflowed, this effort with this model on this runner, is not
\* made again until somebody intervenes: every overflow leads on.  (Under the same
\* proviso, and unless a default_model sends an override to another provider.)
NoAttemptTwice ==
  [][Spawn => <<agent'.effort, agent'.model, agent'.runner>> \notin ghost'.tried]_vars

\* A task cannot overflow again and again: the ladder ends in success or in a block,
\* whatever else happens to the task, unless the whole loop stops at an overflow.
LadderEnds ==
  []<>(agent.stage = "overflowed") => <>[](agent.stage = "overflowed")

\* A task that was moved to another provider never goes back to one it left
\* (post_output.rs: it "never bounces back to the runner it came from"), unless an
\* operator, or a re-import of the PRD, wrote tasks.model since.
NoBounce == agent.stage = "running" => agent.runner \notin ghost.left
=============================================================================
