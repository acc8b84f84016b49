------------------------- MODULE ModelRecoveryProofs -------------------------
(***************************************************************************)
(* The types of ModelRecovery, what its escape valve does, that a task     *)
(* stays where it was moved, and that models fit their runners, for any    *)
(* configurations, models, limits and disturbances.                        *)
(***************************************************************************)
EXTENDS ModelRecovery, TLAPS

\* The rungs of a ladder are tiers, each with a model of a column.
LEMMA Ladders ==
  ASSUME NEW c \in Configurations, NEW p \in Providers, NEW u \in Rungs(c, p)
  PROVE  c.ladder[p][u] \in Columns
<1> DEFINE Rows == [name : Names, wide : {FALSE}] \cup {Null}
<1>1. c.ladder \in [Providers -> UNION {[S -> Rows] : S \in SUBSET Tiers}]
  BY DEF Configurations
<1>3. c.ladder[p] \in UNION {[S -> Rows] : S \in SUBSET Tiers}
  BY <1>1
<1> HIDE DEF Rows
<1>4. PICK S \in SUBSET Tiers : c.ladder[p] \in [S -> Rows]
  BY <1>3
<1>2. c.ladder[p][u] \in Rows
  BY <1>4 DEF Rungs
<1> QED
  BY <1>2 DEF Columns, Models, Rows

LEMMA NamesOfNothing ==
  /\ Unset \notin Columns /\ Opus \in Columns /\ Null # Blank /\ Opus # Null
  /\ NoRunner \notin Providers
BY RoutingAssumption DEF Unset, Columns, Models, Opus, Null, Blank, Model, NoRunner, Providers

LEMMA Picked ==
  ASSUME NEW options, NEW otherwise
  PROVE  /\ options # {} => Pick(options, otherwise) \in options
         /\ options = {} => Pick(options, otherwise) = otherwise
BY DEF Pick

LEMMA ModelForIsColumn ==
  ASSUME NEW c \in Configurations, NEW p \in Providers, NEW t
  PROVE  ModelFor(c, p, t) \in Columns
<1>1. CASE NearestRungs(c, p, t) = {}
  BY <1>1 DEF ModelFor, Columns
<1>2. CASE NearestRungs(c, p, t) # {}
  <2> DEFINE u == CHOOSE u \in NearestRungs(c, p, t) : TRUE
  <2>1. u \in NearestRungs(c, p, t)
    BY <1>2
  <2>2. u \in Rungs(c, p)
    BY <2>1 DEF NearestRungs
  <2>3. c.ladder[p][u] \in Columns
    BY <2>2, Ladders
  <2> QED
    BY <1>2, <2>3 DEF ModelFor
<1> QED
  BY <1>1, <1>2

\* A step up the ladder leads to a model, never to none.
LEMMA StepsUp ==
  ASSUME NEW c \in Configurations, NEW p \in Providers, NEW m
  PROVE  /\ EscalateBelowCeiling(c, p, m) \subseteq Columns \ {Null}
         /\ EscalateTier(c, p, m) \subseteq Columns \ {Null}
<1>1. \A t : NextAbove(c, p, t) \subseteq Rungs(c, p)
  BY DEF NextAbove
<1>2. TierOf(c, p, m) \subseteq Rungs(c, p)
  BY DEF TierOf
<1>3. \A u \in Rungs(c, p) : c.ladder[p][u] \in Columns
  BY Ladders
<1>4. EscalateBelowCeiling(c, p, m) \subseteq Columns \ {Null}
  BY <1>1, <1>3 DEF EscalateBelowCeiling
<1>5. UNION {IF NextAbove(c, p, t) = {} THEN {t} ELSE NextAbove(c, p, t) : t \in TierOf(c, p, m)}
        \subseteq Rungs(c, p)
  BY <1>1, <1>2
<1>6. EscalateTier(c, p, m) \subseteq Columns \ {Null}
  BY <1>3, <1>5 DEF EscalateTier
<1> QED
  BY <1>4, <1>6

LEMMA EscalatedModels ==
  ASSUME NEW c \in Configurations, NEW m
  PROVE  Escalated(c, m) \subseteq Columns \ {Null}
BY StepsUp, NamesOfNothing DEF Escalated, Providers

LEMMA WideModels ==
  ASSUME NEW m \in Columns
  PROVE  To1M(m) \subseteq Columns \ {Null}
<1> SUFFICES ASSUME Named(m) PROVE [m EXCEPT !.wide = TRUE] \in Columns \ {Null}
  BY DEF To1M
<1>1. m \in Models
  BY DEF Columns, Named
<1>2. [m EXCEPT !.wide = TRUE] \in Models
  BY <1>1 DEF Models
<1>3. Null \notin Models
  BY RoutingAssumption DEF Null, Model, Models
<1> QED
  BY <1>2, <1>3 DEF Columns

\* Every plan has a provider, an effort, and a model of a column.
Planned(plan) == plan.provider \in Providers /\ plan.model \in Columns /\ plan.effort \in Efforts

LEMMA PlanParts ==
  ASSUME NEW c \in Configurations, NEW p \in Providers, NEW t, NEW m \in Columns
  PROVE  Planned(Plan(c, p, t, m))
<1>1. c.effort \in [Providers -> Efforts]
  BY DEF Configurations
<1> QED
  BY <1>1 DEF Planned, Plan

LEMMA FinalizedPlans ==
  ASSUME NEW c \in Configurations, NEW p \in Providers, NEW t
  PROVE  Planned(Finalized(c, p, t))
BY PlanParts, ModelForIsColumn DEF Finalized

LEMMA Roles ==
  ASSUME NEW c \in Configurations
  PROVE  /\ c.primary \in Providers /\ c.enabled \subseteq Providers
         /\ c.byIdPrefix \subseteq Providers \X SUBSET Tiers
         /\ \A p \in Providers : c.fallback[p] \subseteq Providers
BY DEF Configurations

LEMMA PrefixPlans ==
  ASSUME NEW c \in Configurations
  PROVE  Planned(PrefixPlan(c))
<1> DEFINE route == Pick(c.byIdPrefix, <<c.primary, {}>>)
<1>1. route \in Providers \X SUBSET Tiers
  BY Roles, Picked
<1>2. route[1] \in Providers
  BY <1>1
<1> HIDE DEF route
<1>3. Planned(Finalized(c, route[1], Pick(route[2], AnchoredTier(c))))
  BY <1>2, FinalizedPlans
<1> QED
  BY <1>3 DEF PrefixPlan, route

LEMMA ClassPlans ==
  ASSUME NEW c \in Configurations
  PROVE  Planned(ClassPlan(c))
<1>1. Preferred(c) \subseteq c.enabled
  BY DEF Preferred
<1>2. Pick(Preferred(c), c.primary) \in Providers
  BY <1>1, Roles, Picked
<1> QED
  BY <1>2, FinalizedPlans DEF ClassPlan

LEMMA ReroutedIsProvider ==
  ASSUME NEW c \in Configurations, NEW out
  PROVE  Rerouted(c, out) \in Providers
<1> DEFINE lit == c.enabled \ out
           first == {p \in lit : \A q \in lit : Order[p] <= Order[q]}
<1>1. Pick(first, c.primary) \in Providers
  BY Roles, Picked
<1> HIDE DEF first
<1>2. Pick(c.fallback[c.primary] \cap lit, Pick(first, c.primary)) \in Providers
  BY <1>1, Roles, Picked
<1> QED
  BY <1>2, Roles DEF Rerouted, first

LEMMA UnclampedPlans ==
  ASSUME NEW c \in Configurations, NEW m \in Columns, NEW out
  PROVE  Planned(Unclamped(c, m, out))
<1>1. ProviderOf(m) \in Providers
  BY DEF ProviderOf, Providers
<1>2. Planned(ExplicitPlan(c, m))
  BY <1>1, PlanParts DEF ExplicitPlan
<1> QED
  BY <1>2, PrefixPlans, ClassPlans, ReroutedIsProvider, FinalizedPlans DEF Unclamped

LEMMA ExecutionPlans ==
  ASSUME NEW c \in Configurations, NEW m \in Columns, NEW out, NEW dark
  PROVE  Planned(ExecutionPlan(c, m, out, dark))
<1> DEFINE plan == Unclamped(c, m, out)
<1>1. Planned(plan)
  BY UnclampedPlans
<1> HIDE DEF plan
<1>2. ASSUME NEW t \in Lower(c, plan, dark)
      PROVE  Planned(Plan(c, plan.provider, t, c.ladder[plan.provider][t]))
  <2>1. t \in Rungs(c, plan.provider)
    BY DEF Lower
  <2>2. plan.provider \in Providers
    BY <1>1 DEF Planned
  <2> QED
    BY <2>1, <2>2, Ladders, PlanParts
<1> DEFINE clamp == IF <<plan.provider, plan.tier>> \in dark /\ MayClamp(c, Named(m))
                    THEN Lower(c, plan, dark) ELSE {}
           t == CHOOSE t \in clamp : TRUE
<1>3. ExecutionPlan(c, m, out, dark) =
        IF clamp = {} THEN plan ELSE Plan(c, plan.provider, t, c.ladder[plan.provider][t])
  BY DEF ExecutionPlan, plan
<1>4. clamp # {} => t \in Lower(c, plan, dark)
  BY DEF clamp
<1> HIDE DEF clamp, t
<1> QED
  BY <1>1, <1>2, <1>3, <1>4

-----------------------------------------------------------------------------
(* Types.                                                                  *)

LEMMA Configured ==
  ASSUME config \in Configs
  PROVE  config \in Configurations
BY RecoveryAssumption

LEMMA StagesOfAgents ==
  ASSUME TypeOK
  PROVE  /\ agent.stage = "running" => agent \in Agents
         /\ agent.stage = "prompt" => agent \in Prompts
         /\ agent.stage \in Stages => agent \in Agents
<1>1. agent \in Agents \/ agent \in Prompts \/ agent = NoAgent
  BY DEF TypeOK
<1>2. "prompt" \notin Stages /\ "none" \notin Stages /\ "running" \in Stages
  BY DEF Stages
<1> QED
  BY <1>1, <1>2 DEF Agents, Prompts, NoAgent

LEMMA RowsKeepType ==
  ASSUME TypeOK
  PROVE  /\ Recovered(row) \in [status : Statuses, model : Columns, fails : 0 .. FailsCap]
         /\ Recovered(row).model = row.model
         /\ Parked(row) \in [status : Statuses, model : Columns, fails : 0 .. FailsCap]
         /\ Parked(row).model = row.model
<1> USE DEF TypeOK, Recovered, Parked, Statuses
<1>1. CASE row.status = "in_progress"
  BY <1>1
<1>2. CASE row.status # "in_progress"
  BY <1>2
<1> QED
  BY <1>1, <1>2

LEMMA CapturedIsColumn ==
  ASSUME TypeOK
  PROVE  Captured \in Columns
BY DEF TypeOK, Captured

\* What rung 4 writes is the empty string or a model, and its runner is a provider.
LEMMA Moves ==
  ASSUME TypeOK, agent \in Agents
  PROVE  /\ MoveTo(agent) \subseteq Providers
         /\ \A p \in Providers : FallbackModel(agent, p) \in Columns \ {Null}
<1>1. agent.runner \in Providers /\ config \in Configurations
  BY Configured DEF TypeOK, Agents
<1>2. MoveTo(agent) \subseteq Providers
  BY <1>1, Roles DEF MoveTo
<1>3. ASSUME NEW p \in Providers PROVE FallbackModel(agent, p) \in Columns \ {Null}
  <2> DEFINE t == Pick(TierOf(config, agent.runner, agent.model), config.anchor)
  <2>1. ModelFor(config, p, t) \in Columns
    BY <1>1, ModelForIsColumn
  <2> HIDE DEF t
  <2>2. Blank \in Columns
    BY DEF Columns
  <2>3. FallbackModel(agent, p) =
          IF ModelFor(config, p, t) = Null THEN Blank ELSE ModelFor(config, p, t)
    BY DEF FallbackModel, t
  <2> QED
    BY <2>1, <2>2, <2>3, NamesOfNothing
<1> QED
  BY <1>2, <1>3

LEMMA Rungs2And3 ==
  ASSUME TypeOK, agent \in Agents
  PROVE  OneTierUp(agent) \cup Wider(agent) \subseteq Columns \ {Null}
<1>1. agent.runner \in Providers /\ agent.model \in Columns /\ config \in Configurations
  BY Configured DEF TypeOK, Agents
<1>2. OneTierUp(agent) \subseteq Columns \ {Null}
  BY <1>1, StepsUp DEF OneTierUp
<1>3. Wider(agent) \subseteq Columns \ {Null}
  BY <1>1, WideModels DEF Wider
<1> QED
  BY <1>2, <1>3

\* An agent that is started has a runner, an effort and a model of a column.
LEMMA SpawnedAgents ==
  ASSUME TypeOK, Spawn, model' \in Columns \cup {Unset},
         runner' \in Providers \cup {NoRunner}, effort' \in {"unset", "high"}
  PROVE  agent' \in Agents /\ agent'.stage = "running"
<1> DEFINE escalated == IF crashed THEN Escalated(config, agent.model) ELSE {}
           planned == Pick(escalated, agent.model)
           e == IF effort' # "unset" THEN effort' ELSE agent.effort
           m == IF model' # Unset THEN model' ELSE planned
           kept == IF escalated = {} THEN agent.hint ELSE NoRunner
<1>1. config \in Configurations
  BY Configured DEF TypeOK
<1>2. agent \in Prompts
  BY StagesOfAgents DEF Spawn
<1>3. agent' = IF Path = "sequential"
               THEN Attempt(e, m, RunnerFor(runner', FinalHint(agent.hint, m, agent.model), m))
               ELSE Attempt(e, planned, RunnerFor(runner', kept, planned))
  BY DEF Spawn
<1>4. agent.hint \in Providers \cup {NoRunner} /\ agent.model \in Columns
  BY <1>2 DEF Prompts
<1>5. e \in Efforts
  BY <1>2 DEF Prompts, Efforts
<1>6. escalated \subseteq Columns
  BY <1>1, EscalatedModels
<1> HIDE DEF e, escalated
<1>7. planned \in Columns
  BY <1>4, <1>6, Picked
<1>8. kept \in Providers \cup {NoRunner}
  BY <1>4
<1> HIDE DEF planned, kept
<1>9. m \in Columns
  BY <1>7
<1> HIDE DEF m
<1>10. \A h \in Providers \cup {NoRunner} : \A n : RunnerFor(runner', h, n) \in Providers
  BY DEF RunnerFor, ProviderOf, Providers, NoRunner
<1>11. FinalHint(agent.hint, m, agent.model) \in Providers \cup {NoRunner}
  BY <1>4 DEF FinalHint
<1>12. \A n \in Columns, r \in Providers :
          Attempt(e, n, r) \in Agents /\ Attempt(e, n, r).stage = "running"
  BY <1>5 DEF Attempt, Agents, Stages
<1> QED
  BY <1>3, <1>7, <1>8, <1>9, <1>10, <1>11, <1>12

LEMMA ValveTypes ==
  ASSUME TypeOK, Valve
  PROVE  /\ effort' \in {"unset", "high"} /\ model' \in Columns \cup {Unset}
         /\ runner' \in Providers \cup {NoRunner} /\ snapshot' \in Columns \cup {Unset}
BY DEF TypeOK, Valve

LEMMA TypeBuildPrompt ==
  ASSUME TypeOK, BuildPrompt
  PROVE  TypeOK' /\ agent'.stage = "prompt"
<1> DEFINE plan == ExecutionPlan(config, row.model, account.out, account.dark)
<1>1. Planned(plan)
  BY Configured, ExecutionPlans DEF TypeOK
<1> HIDE DEF plan
<1>2. (IF plan.provider = "claude" THEN NoRunner ELSE plan.provider)
        \in (Providers \ {"claude"}) \cup {NoRunner}
  BY <1>1 DEF Planned
<1>3. Prompt(plan) \in Prompts /\ Prompt(plan).stage = "prompt"
  BY <1>1, <1>2 DEF Planned, Prompt, Prompts
<1>4. agent' = Prompt(plan)
  BY DEF BuildPrompt, plan
<1>5. row' \in [status : Statuses, model : Columns, fails : 0 .. FailsCap]
  BY DEF TypeOK, BuildPrompt, Statuses
<1> QED
  BY <1>3, <1>4, <1>5 DEF TypeOK, BuildPrompt, FailsCap, channels

LEMMA TypeSpawn ==
  ASSUME TypeOK, Spawn
  PROVE  TypeOK'
<1>1. /\ effort' \in {"unset", "high"} /\ model' \in Columns \cup {Unset}
      /\ runner' \in Providers \cup {NoRunner} /\ snapshot' \in Columns \cup {Unset}
  BY ValveTypes DEF Spawn
<1>2. agent' \in Agents
  BY <1>1, SpawnedAgents
<1>3. row' \in [status : Statuses, model : Columns, fails : 0 .. FailsCap]
  BY DEF TypeOK, Spawn, Statuses
<1>4. ghost' \in [moved : BOOLEAN, left : SUBSET Providers,
                 tried : SUBSET (Efforts \X Columns \X Providers)]
  BY DEF TypeOK, Spawn
<1> QED
  BY <1>1, <1>2, <1>3, <1>4 DEF TypeOK, Spawn, FailsCap

LEMMA TypeOverflow ==
  ASSUME TypeOK, Overflow
  PROVE  TypeOK'
<1>1. agent \in Agents
  BY StagesOfAgents DEF Overflow
<1> DEFINE Rows == [status : Statuses, model : Columns, fails : 0 .. FailsCap]
<1>2. /\ effort' \in {"unset", "high"} /\ model' \in Columns \cup {Unset}
      /\ runner' \in Providers \cup {NoRunner} /\ row' \in Rows
  <2>1. CASE agent.effort = "xhigh"
    BY <2>1, RowsKeepType DEF Overflow, TypeOK
  <2>2. CASE agent.effort # "xhigh" /\ OneTierUp(agent) \cup Wider(agent) # {}
    <3>1. Pick(OneTierUp(agent), Pick(Wider(agent), Null)) \in Columns
      BY <1>1, <2>2, Rungs2And3, Picked
    <3> QED
      BY <2>2, <3>1, RowsKeepType DEF Overflow, TypeOK
  <2>3. CASE /\ agent.effort # "xhigh" /\ ~(OneTierUp(agent) \cup Wider(agent) # {})
             /\ MoveTo(agent) # {}
    <3> DEFINE p == Pick(MoveTo(agent), NoRunner)
    <3>1. p \in Providers /\ FallbackModel(agent, p) \in Columns
      BY <1>1, <2>3, Moves, Picked
    <3>2. /\ runner' = p /\ model' = FallbackModel(agent, p) /\ UNCHANGED effort
          /\ row' = IF row.status = "in_progress"
                    THEN [Recovered(row) EXCEPT !.model = model'] ELSE row
      BY <2>3 DEF Overflow
    <3> HIDE DEF p
    <3>3. row' \in Rows
      BY <3>1, <3>2, RowsKeepType DEF TypeOK
    <3> QED
      BY <3>1, <3>2, <3>3 DEF TypeOK
  <2>4. CASE /\ agent.effort # "xhigh" /\ ~(OneTierUp(agent) \cup Wider(agent) # {})
             /\ ~(MoveTo(agent) # {})
    BY <2>4, RowsKeepType DEF Overflow, TypeOK
  <2> QED
    BY <2>1, <2>2, <2>3, <2>4
<1>3. snapshot' \in Columns \cup {Unset}
  BY CapturedIsColumn DEF Overflow
<1>4. agent' \in Agents
  BY <1>1 DEF Overflow, Agents, Stages
<1>5. <<agent.effort, agent.model, agent.runner>> \in Efforts \X Columns \X Providers
  BY <1>1 DEF Agents
<1>6. ghost' \in [moved : BOOLEAN, left : SUBSET Providers,
                 tried : SUBSET (Efforts \X Columns \X Providers)]
  BY <1>1, <1>5 DEF TypeOK, Overflow, Agents
<1> QED
  BY <1>2, <1>3, <1>4, <1>6 DEF TypeOK, Overflow, FailsCap

LEMMA TypeTrackFailure ==
  ASSUME TypeOK, TrackFailure
  PROVE  TypeOK'
<1>1. CASE row.status \in {"blocked", "closed"}
  BY <1>1 DEF TypeOK, TrackFailure, FailsCap
<1>2. CASE row.status \notin {"blocked", "closed"}
  <2> DEFINE n == row.fails + 1
             up == IF n >= 2 /\ ~ShouldAutoBlock(n) /\ agent.runner # "codex"
                   THEN Escalated(config, row.model) ELSE {}
             counted == [row EXCEPT !.fails = IF n > FailsCap THEN FailsCap ELSE n,
                                    !.model = Pick(up, @)]
  <2>1. /\ row' = IF ShouldAutoBlock(n) THEN Parked(counted) ELSE counted
        /\ snapshot' = Absorbed(up)
    BY <1>2 DEF TrackFailure
  <2>2. up \subseteq Columns
    BY Configured, EscalatedModels DEF TypeOK
  <2> HIDE DEF up
  <2>3. Pick(up, row.model) \in Columns /\ Absorbed(up) \in Columns \cup {Unset}
    BY <2>2, Picked DEF TypeOK, Absorbed
  <2>4. FailsCap \in Nat
    BY Configured DEF TypeOK, FailsCap, Configurations
  <2>5. (IF n > FailsCap THEN FailsCap ELSE n) \in 0 .. FailsCap
    BY <2>4 DEF TypeOK
  <2>6. counted \in [status : Statuses, model : Columns, fails : 0 .. FailsCap]
    BY <2>3, <2>5 DEF TypeOK
  <2> HIDE DEF counted, n
  <2>7. row' \in [status : Statuses, model : Columns, fails : 0 .. FailsCap]
    BY <2>1, <2>6 DEF Parked, Statuses
  <2> QED
    BY <2>1, <2>3, <2>7 DEF TypeOK, TrackFailure, FailsCap
<1> QED
  BY <1>1, <1>2

LEMMA TypeOthers ==
  ASSUME TypeOK,
         \/ Crash \/ Fail \/ Limited \/ Complete \/ Reclaim
         \/ (\E m \in EditModels : OperatorEdits(m))
         \/ Reimport \/ Reopen \/ Restart \/ AccountChanges
  PROVE  TypeOK'
<1> DEFINE Rows(cap) == [status : Statuses, model : Columns, fails : 0 .. cap]
           Ghosts == [moved : BOOLEAN, left : SUBSET Providers,
                      tried : SUBSET (Efforts \X Columns \X Providers)]
<1>0. /\ row \in Rows(FailsCap) /\ ghost \in Ghosts
      /\ prd \in Columns /\ agent \in Agents \cup Prompts \cup {NoAgent}
  BY DEF TypeOK
<1>1. CASE Crash \/ Fail
  <2>1. agent \in Agents
    BY <1>1, StagesOfAgents DEF Crash, Fail
  <2>2. [agent EXCEPT !.stage = "failed"] \in Agents
    BY <2>1 DEF Agents, Stages
  <2>3. agent' \in Agents \cup {NoAgent} /\ crashed' \in BOOLEAN
    BY <1>1, <2>2 DEF Crash, Fail
  <2> QED
    BY <1>1, <2>3 DEF TypeOK, Crash, Fail, FailsCap, channels
<1>2. CASE Limited \/ Reclaim
  BY <1>2, RowsKeepType DEF TypeOK, Limited, Reclaim, FailsCap, channels
<1>3. CASE Complete
  <2>1. FailsCap \in Nat
    BY Configured DEF TypeOK, Configurations, FailsCap
  <2>2. 0 \in 0 .. FailsCap
    BY <2>1
  <2>3. row' = [row EXCEPT !.status = "closed", !.fails = 0] /\ "closed" \in Statuses
    BY <1>3 DEF Complete, Statuses
  <2>4. row' \in Rows(FailsCap)
    BY <1>0, <2>2, <2>3
  <2> QED
    BY <1>3, <2>4 DEF TypeOK, Complete, FailsCap, channels
<1>4. ASSUME Disturb PROVE disturbed' \in 0 .. MaxDisturbances
  BY <1>4, RecoveryAssumption DEF TypeOK, Disturb
<1>5. CASE \E m \in EditModels : OperatorEdits(m)
  <2>1. PICK m \in EditModels : OperatorEdits(m)
    BY <1>5
  <2>2. m \in Columns
    BY RecoveryAssumption
  <2>3. row' \in Rows(FailsCap) /\ prd' \in Columns
    BY <1>0, <2>1, <2>2 DEF OperatorEdits
  <2>4. ghost' \in Ghosts
    BY <1>0, <2>1 DEF OperatorEdits
  <2> QED
    BY <1>4, <2>1, <2>3, <2>4 DEF TypeOK, OperatorEdits, FailsCap, channels
<1>6. CASE Reimport
  <2>1. row' \in Rows(FailsCap) /\ ghost' \in Ghosts
    BY <1>0, <1>6 DEF Reimport
  <2> QED
    BY <1>4, <1>6, <2>1 DEF TypeOK, Reimport, FailsCap, channels
<1>7. CASE Reopen
  <2>1. row' \in Rows(FailsCap) /\ ghost' \in Ghosts
    BY <1>0, <1>7 DEF Reopen, Statuses
  <2> QED
    BY <1>4, <1>7, <2>1 DEF TypeOK, Reopen, FailsCap, channels
<1>8. CASE Restart
  <2>1. Recovered(row) \in Rows(FailsCap)
    BY RowsKeepType
  <2>2. row' \in Rows(FailsCap) /\ ghost' \in Ghosts
    BY <1>0, <1>8, <2>1 DEF Restart, NoGhost
  <2> QED
    BY <1>4, <1>8, <2>2 DEF TypeOK, Restart, FailsCap
<1>9. CASE AccountChanges
  BY <1>9 DEF TypeOK, AccountChanges, FailsCap, channels
<1> QED
  BY <1>1, <1>2, <1>3, <1>5, <1>6, <1>7, <1>8, <1>9

LEMMA TypeStutter ==
  ASSUME TypeOK, UNCHANGED vars
  PROVE  TypeOK'
BY DEF TypeOK, vars, channels, FailsCap

\* Every reachable state has its type, for any configurations: in particular every
\* agent has a runner and a model that tasks.model could hold, and so has every write.
THEOREM TypeCorrect == Steps => []TypeOK
<1>1. Init => TypeOK
  <2> SUFFICES ASSUME Init PROVE TypeOK
    OBVIOUS
  <2>1. FailsCap \in Nat
    BY Configured DEF Init, Configurations, FailsCap
  <2>2. 0 \in 0 .. FailsCap /\ 0 \in 0 .. MaxDisturbances /\ prd \in Columns
    BY <2>1, RecoveryAssumption DEF Init
  <2>3. row \in [status : Statuses, model : Columns, fails : 0 .. FailsCap]
    BY <2>2 DEF Init, Statuses
  <2>4. ghost \in [moved : BOOLEAN, left : SUBSET Providers,
                  tried : SUBSET (Efforts \X Columns \X Providers)]
    BY DEF Init, NoGhost
  <2> QED
    BY <2>2, <2>3, <2>4 DEF Init, TypeOK
<1>2. TypeOK /\ [Next]_vars => TypeOK'
  BY TypeBuildPrompt, TypeSpawn, TypeOverflow, TypeTrackFailure, TypeOthers, TypeStutter
     DEF Next, AgentEnds
<1> QED
  BY <1>1, <1>2, PTL DEF Steps

-----------------------------------------------------------------------------
(* The escape valve.                                                       *)

\* What a snapshot says of tasks.model as long as only the loop writes it: the same
\* while an agent runs, and otherwise the same or the model the ladder recorded.
InStep ==
  /\ snapshot # Unset
  /\ IF agent.stage = "running" THEN row.model = snapshot ELSE row.model = snapshot \/ OwnWrite

\* The steps of the loop keep the two in step, and a spawn that finds no edit or the
\* first overflow brings them in step.
LEMMA StepSpawn ==
  ASSUME TypeOK, Spawn, ~Edited, snapshot # Unset
  PROVE  InStep' /\ agent'.stage = "running" /\ UNCHANGED <<effort, model, runner>>
<1>1. row.model \in Columns /\ row' = row
  BY DEF TypeOK, Spawn
<1>2. agent'.stage = "running"
  BY ValveTypes, SpawnedAgents DEF Spawn
<1>3. /\ snapshot' = IF Diverged THEN row.model ELSE snapshot
      /\ UNCHANGED <<effort, model, runner>>
  BY DEF Spawn, Valve
<1>4. row'.model = snapshot' /\ snapshot' # Unset
  BY <1>1, <1>3, NamesOfNothing DEF Diverged
<1> QED
  BY <1>2, <1>3, <1>4 DEF InStep

\* What an overflow writes to tasks.model is the model of its override, and it
\* writes it when it moves the task to another runner.
LEMMA OverflowWrites ==
  ASSUME TypeOK, Overflow
  PROVE  /\ row'.model = row.model \/ OwnWrite'
         /\ runner' # runner /\ row.status = "in_progress" => OwnWrite'
<1>1. agent \in Agents
  BY StagesOfAgents DEF Overflow
<1>2. CASE agent.effort = "xhigh"
  BY <1>2, RowsKeepType DEF Overflow
<1>3. CASE agent.effort # "xhigh" /\ OneTierUp(agent) \cup Wider(agent) # {}
  BY <1>3, RowsKeepType DEF Overflow
<1>4. CASE /\ agent.effort # "xhigh" /\ ~(OneTierUp(agent) \cup Wider(agent) # {})
           /\ MoveTo(agent) # {}
  <2> DEFINE p == Pick(MoveTo(agent), NoRunner)
  <2>1. p \in Providers /\ FallbackModel(agent, p) # Null
    BY <1>1, <1>4, Moves, Picked
  <2>2. /\ model' = FallbackModel(agent, p)
        /\ row' = IF row.status = "in_progress"
                  THEN [Recovered(row) EXCEPT !.model = model'] ELSE row
    BY <1>4 DEF Overflow
  <2> HIDE DEF p
  <2>3. row.status = "in_progress" => row'.model = model'
    BY <2>2, RowsKeepType
  <2> QED
    BY <2>1, <2>2, <2>3 DEF OwnWrite
<1>5. CASE /\ agent.effort # "xhigh" /\ ~(OneTierUp(agent) \cup Wider(agent) # {})
           /\ ~(MoveTo(agent) # {})
  BY <1>5, RowsKeepType DEF Overflow
<1> QED
  BY <1>2, <1>3, <1>4, <1>5

LEMMA StepOverflow ==
  ASSUME TypeOK, Overflow, InStep \/ snapshot = Unset
  PROVE  InStep'
<1>1. agent \in Agents /\ agent'.stage = "overflowed"
  BY StagesOfAgents DEF Overflow, Agents
<1>2. snapshot' = Captured /\ Captured # Unset
  BY CapturedIsColumn, NamesOfNothing DEF Overflow
<1>3. row.model = snapshot'
  BY <1>2 DEF InStep, Captured, Overflow
<1> QED
  BY <1>1, <1>2, <1>3, OverflowWrites DEF InStep

LEMMA StepTrackFailure ==
  ASSUME TypeOK, TrackFailure
  PROVE  IF snapshot = Unset THEN snapshot' = Unset ELSE snapshot' # Unset /\ (InStep => InStep')
<1>1. agent.stage # "running" /\ agent'.stage # "running"
  BY DEF TrackFailure, NoAgent
<1>2. CASE row.status \in {"blocked", "closed"}
  BY <1>1, <1>2 DEF TrackFailure, InStep, OwnWrite
<1>3. CASE row.status \notin {"blocked", "closed"}
  <2> DEFINE n == row.fails + 1
             up == IF n >= 2 /\ ~ShouldAutoBlock(n) /\ agent.runner # "codex"
                   THEN Escalated(config, row.model) ELSE {}
             fails == IF n > FailsCap THEN FailsCap ELSE n
             counted == [row EXCEPT !.fails = fails, !.model = Pick(up, @)]
  <2>1. /\ row' = IF ShouldAutoBlock(n) THEN Parked(counted) ELSE counted
        /\ snapshot' = Absorbed(up)
    BY <1>3 DEF TrackFailure
  <2>2. up \subseteq Columns
    BY Configured, EscalatedModels DEF TypeOK
  <2> HIDE DEF up, n, fails
  <2>3. counted.model = Pick(up, row.model) /\ Parked(counted).model = counted.model
    BY DEF TypeOK, Parked
  <2>4. row'.model = Pick(up, row.model)
    BY <2>1, <2>3
  <2>5. CASE up = {}
    <3>1. row'.model = row.model /\ snapshot' = snapshot
      BY <2>1, <2>4, <2>5, Picked DEF Absorbed
    <3> QED
      BY <1>1, <3>1 DEF TrackFailure, InStep, OwnWrite
  <2>6. CASE up # {}
    <3>1. Pick(up, row.model) \in Columns /\ Pick(up, row.model) = Pick(up, snapshot)
      BY <2>2, <2>6 DEF Pick
    <3>2. IF snapshot = Unset THEN snapshot' = Unset
          ELSE snapshot' = row'.model /\ snapshot' # Unset
      BY <2>1, <2>4, <3>1, NamesOfNothing DEF Absorbed
    <3> QED
      BY <1>1, <3>2 DEF InStep
  <2> QED
    BY <2>5, <2>6
<1> QED
  BY <1>2, <1>3

\* The steps that leave the snapshot, the channels and tasks.model alone.
Quiet ==
  BuildPrompt \/ Crash \/ Fail \/ Limited \/ Complete \/ Reclaim \/ Reopen \/ AccountChanges

\* A task that is being worked on is claimed.
Claimed == agent.stage \in {"prompt", "running"} => row.status = "in_progress"

LEMMA QuietSteps ==
  ASSUME TypeOK, Quiet
  PROVE  /\ UNCHANGED channels /\ row'.model = row.model
         /\ agent'.stage = "running" => agent' = agent
         /\ Claimed => Claimed'
         /\ ghost'.moved = ghost.moved /\ ghost'.left = ghost.left /\ config' = config
<1>1. CASE Crash \/ Fail
  <2>1. agent \in Agents
    BY <1>1, StagesOfAgents DEF Crash, Fail
  <2>2. [agent EXCEPT !.stage = "failed"].stage = "failed"
    BY <2>1 DEF Agents
  <2>3. agent'.stage \notin {"prompt", "running"}
    <3>1. agent' = [agent EXCEPT !.stage = "failed"] \/ agent' = NoAgent
      BY <1>1 DEF Crash, Fail
    <3>2. NoAgent.stage = "none"
      BY DEF NoAgent
    <3>3. agent'.stage \in {"failed", "none"}
      BY <2>2, <3>1, <3>2, Zenon
    <3> QED
      BY <3>3
  <2> QED
    BY <1>1, <2>3 DEF Crash, Fail, Claimed
<1>2. CASE Limited
  BY <1>2, RowsKeepType DEF Limited, NoAgent, Claimed
<1>3. CASE Complete
  BY <1>3 DEF Complete, NoAgent, TypeOK, Claimed
<1>4. CASE Reclaim
  BY <1>4, RowsKeepType DEF Reclaim, NoAgent, Claimed
<1>5. CASE Reopen
  BY <1>5 DEF Reopen, TypeOK, Claimed
<1>6. CASE AccountChanges
  BY <1>6 DEF AccountChanges, Claimed
<1>7. CASE BuildPrompt
  <2>1. row'.model = row.model /\ row'.status = "in_progress"
    BY <1>7 DEF BuildPrompt, TypeOK
  <2> QED
    BY <1>7, <2>1, TypeBuildPrompt DEF BuildPrompt, Claimed
<1> QED
  BY <1>1, <1>2, <1>3, <1>4, <1>5, <1>6, <1>7 DEF Quiet

LEMMA StepQuiet ==
  ASSUME TypeOK, Quiet, InStep
  PROVE  InStep'
<1>1. /\ snapshot' = snapshot /\ model' = model /\ row'.model = row.model
      /\ agent'.stage = "running" => agent.stage = "running"
  BY QuietSteps DEF channels
<1> QED
  BY <1>1 DEF InStep, OwnWrite

\* While nobody else moved tasks.model, a snapshot is in step with it.
Steady == ~ghost.moved /\ snapshot # Unset => InStep

ValveInv == TypeOK /\ OverridesWatched /\ Steady

LEMMA ValveStep ==
  ASSUME TypeOK, OverridesWatched, Steady, [Next]_vars
  PROVE  OverridesWatched' /\ Steady'
<1>1. CASE Spawn
  <2>1. CASE Edited
    BY <1>1, <2>1 DEF Spawn, Valve, OverridesWatched, Steady
  <2>2. CASE ~Edited /\ snapshot = Unset
    BY <1>1, <2>2 DEF Spawn, Valve, Diverged, OverridesWatched, Steady
  <2>3. CASE ~Edited /\ snapshot # Unset
    BY <1>1, <2>3, StepSpawn DEF InStep, OverridesWatched, Steady
  <2> QED
    BY <2>1, <2>2, <2>3
<1>2. CASE Overflow
  <2>1. snapshot' # Unset
    BY <1>2, CapturedIsColumn, NamesOfNothing DEF Overflow
  <2>2. ghost'.moved = ghost.moved
    BY <1>2 DEF TypeOK, Overflow
  <2> QED
    BY <1>2, <2>1, <2>2, StepOverflow DEF OverridesWatched, Steady
<1>3. CASE TrackFailure
  BY <1>3, StepTrackFailure DEF TrackFailure, InStep, OverridesWatched, Steady
<1>4. CASE Quiet
  <2>1. UNCHANGED channels /\ ghost'.moved = ghost.moved
    BY <1>4, QuietSteps
  <2> QED
    BY <1>4, <2>1, StepQuiet DEF channels, OverridesWatched, Steady
<1>5. CASE (\E m \in EditModels : OperatorEdits(m)) \/ Reimport
  <2>1. UNCHANGED channels /\ ghost'.moved = (snapshot # Unset)
    BY <1>5 DEF OperatorEdits, Reimport, TypeOK
  <2> QED
    BY <2>1 DEF channels, OverridesWatched, Steady
<1>6. CASE Restart
  BY <1>6 DEF Restart, OverridesWatched, Steady
<1>7. CASE UNCHANGED vars
  BY <1>7 DEF vars, channels, OverridesWatched, Steady, InStep, OwnWrite
<1> QED
  BY <1>1, <1>2, <1>3, <1>4, <1>5, <1>6, <1>7 DEF Next, AgentEnds, Quiet

LEMMA ValveInvariant == Steps => []ValveInv
<1>1. Init => OverridesWatched /\ Steady
  BY DEF Init, OverridesWatched, Steady
<1>2. TypeOK /\ OverridesWatched /\ Steady /\ [Next]_vars => OverridesWatched' /\ Steady'
  BY ValveStep
<1> QED
  BY <1>1, <1>2, TypeCorrect, PTL DEF Steps, ValveInv

\* Whenever a recovery override is in force there is a snapshot to judge edits of
\* tasks.model by, for any configurations, limits, edits and restarts.
THEOREM Watched == Steps => []OverridesWatched
BY ValveInvariant, PTL DEF ValveInv

\* The valve clears overrides only when somebody else moved tasks.model since the
\* snapshot: no write of the ladder's or of the failure count is taken for an edit.
THEOREM ClearedForEdits == Steps => ValveOnlyForEdits
<1>1. ValveInv /\ [Next]_vars => [Spawn /\ Edited => ghost.moved]_vars
  <2> SUFFICES ASSUME ValveInv, Spawn, Edited PROVE ghost.moved
    OBVIOUS
  <2>1. agent.stage # "running" /\ ghost.moved \in BOOLEAN
    BY DEF Spawn, ValveInv, TypeOK
  <2> QED
    BY <2>1 DEF ValveInv, Steady, InStep, Edited, Diverged
<1> QED
  BY <1>1, ValveInvariant, PTL DEF Steps, ValveOnlyForEdits

-----------------------------------------------------------------------------
(* The pin.                                                                *)

\* A running agent's row is its claim, and a pinned task runs where it is pinned.
Pinned == Claimed /\ (agent.stage = "running" /\ runner # NoRunner => agent.runner = runner)

LEMMA PinnedStep ==
  ASSUME TypeOK, Pinned, [Next]_vars
  PROVE  Pinned'
<1>1. CASE Spawn
  <2>1. agent'.runner = runner' \/ runner' = NoRunner
    BY <1>1 DEF Spawn, Attempt, RunnerFor
  <2>2. row'.status = "in_progress"
    BY <1>1 DEF Spawn, Pinned, Claimed
  <2> QED
    BY <2>1, <2>2 DEF Pinned, Claimed
<1>2. CASE Overflow
  <2>1. agent'.stage = "overflowed"
    BY <1>2, StagesOfAgents DEF Overflow, Agents
  <2> QED
    BY <2>1 DEF Pinned, Claimed
<1>3. CASE TrackFailure \/ Restart
  BY <1>3 DEF TrackFailure, Restart, NoAgent, Pinned, Claimed
<1>4. CASE Quiet
  BY <1>4, QuietSteps DEF channels, Pinned
<1>5. CASE (\E m \in EditModels : OperatorEdits(m)) \/ Reimport
  <2>1. UNCHANGED <<channels, agent>> /\ row'.status = row.status
    BY <1>5 DEF OperatorEdits, Reimport, TypeOK
  <2> QED
    BY <2>1 DEF channels, Pinned, Claimed
<1>6. CASE UNCHANGED vars
  BY <1>6 DEF vars, channels, Pinned, Claimed
<1> QED
  BY <1>1, <1>2, <1>3, <1>4, <1>5, <1>6 DEF Next, AgentEnds, Quiet

\* A task that left a provider is pinned to another, and the valve sees no edit.
Settled == ghost.left # {} => runner \in Providers \ ghost.left /\ InStep

LEMMA SettledOverflow ==
  ASSUME TypeOK, Pinned, OverridesWatched, Settled, Overflow
  PROVE  Settled'
<1>1. agent \in Agents
  BY StagesOfAgents DEF Overflow
<1>2. CASE runner' = runner
  <2>1. ghost'.left = ghost.left
    BY <1>2 DEF Overflow, TypeOK
  <2> QED
    BY <1>2, <2>1, StepOverflow DEF Settled
<1>3. CASE runner' # runner
  <2>1. MoveTo(agent) # {} /\ runner' = Pick(MoveTo(agent), NoRunner)
    BY <1>3 DEF Overflow
  <2>2. runner = NoRunner /\ runner' \in config.fallback[agent.runner]
    BY <2>1, Picked DEF MoveTo
  <2>3. ghost.left = {}
    BY <2>2, NamesOfNothing DEF Settled
  <2>4. ghost'.left = {agent.runner}
    BY <1>3, <2>3 DEF Overflow, TypeOK
  <2>5. runner' \in Providers \ {agent.runner}
    BY <1>1, <2>2, RecoveryAssumption, Roles DEF TypeOK, Validated, Agents
  <2>6. OwnWrite'
    BY <1>3, OverflowWrites DEF Pinned, Claimed, Overflow
  <2>7. agent'.stage # "running"
    BY <1>1 DEF Overflow, Agents
  <2>8. snapshot' # Unset
    BY CapturedIsColumn, NamesOfNothing DEF Overflow
  <2> QED
    BY <2>4, <2>5, <2>6, <2>7, <2>8 DEF Settled, InStep
<1> QED
  BY <1>2, <1>3

LEMMA SettledStep ==
  ASSUME TypeOK, Pinned, OverridesWatched, Settled, [Next]_vars
  PROVE  Settled'
<1>1. CASE Spawn
  <2>1. ghost'.left = ghost.left
    BY <1>1 DEF Spawn, TypeOK
  <2>2. ghost.left # {} => ~Edited /\ snapshot # Unset
    BY <1>1 DEF Settled, InStep, Edited, Diverged, Spawn
  <2> QED
    BY <1>1, <2>1, <2>2, StepSpawn DEF Settled
<1>2. CASE Overflow
  BY <1>2, SettledOverflow
<1>3. CASE TrackFailure
  BY <1>3, StepTrackFailure DEF TrackFailure, InStep, Settled
<1>4. CASE Quiet
  BY <1>4, QuietSteps, StepQuiet DEF channels, Settled
<1>5. CASE (\E m \in EditModels : OperatorEdits(m)) \/ Reimport \/ Restart
  <2>1. ghost'.left = {}
    <3>1. CASE Restart
      BY <3>1 DEF Restart, NoGhost
    <3>2. CASE (\E m \in EditModels : OperatorEdits(m)) \/ Reimport
      BY <3>2 DEF OperatorEdits, Reimport, TypeOK
    <3> QED
      BY <1>5, <3>1, <3>2
  <2> QED
    BY <2>1 DEF Settled
<1>6. CASE UNCHANGED vars
  BY <1>6 DEF vars, channels, Settled, InStep, OwnWrite
<1> QED
  BY <1>1, <1>2, <1>3, <1>4, <1>5, <1>6 DEF Next, AgentEnds, Quiet

LEMMA PinInvariant == Steps => [](Pinned /\ Settled)
<1>1. Init => Pinned /\ Settled
  BY DEF Init, Pinned, Claimed, Settled, NoAgent, NoGhost
<1>2. ValveInv /\ Pinned /\ Settled /\ [Next]_vars => Pinned' /\ Settled'
  BY PinnedStep, SettledStep DEF ValveInv
<1> QED
  BY <1>1, <1>2, ValveInvariant, PTL DEF Steps

\* A task that the ladder moved to another provider never runs on the one it left,
\* for any validated configurations, on either path, until tasks.model is written by
\* somebody else: the pin outlives every escalation, crash, failure and blackout.
THEOREM NeverBack == Steps => []NoBounce
<1>1. TypeOK /\ Pinned /\ Settled => NoBounce
  BY NamesOfNothing DEF Pinned, Settled, NoBounce
<1> QED
  BY <1>1, PinInvariant, TypeCorrect, PTL

-----------------------------------------------------------------------------
(* Models and runners.                                                     *)

\* Every named rung of a ladder has a name that tells its provider.  So it is with the
\* built-in ladders, and Codex, which no name tells, then has rungs without a model.
LadderTells(c) ==
  \A p \in Providers : \A t \in Rungs(c, p) :
    Named(c.ladder[p][t]) => ProviderOf(c.ladder[p][t]) = p

Told(m, p) == Named(m) => ProviderOf(m) = p

LEMMA ModelsForTell ==
  ASSUME NEW c \in Configurations, LadderTells(c), NEW p \in Providers, NEW t
  PROVE  Told(ModelFor(c, p, t), p)
<1>1. CASE NearestRungs(c, p, t) = {}
  BY <1>1 DEF ModelFor, Told, Named
<1>2. CASE NearestRungs(c, p, t) # {}
  <2> DEFINE u == CHOOSE u \in NearestRungs(c, p, t) : TRUE
  <2>1. u \in NearestRungs(c, p, t)
    BY <1>2
  <2>2. u \in Rungs(c, p)
    BY <2>1 DEF NearestRungs
  <2>3. Told(c.ladder[p][u], p)
    BY <2>2 DEF LadderTells, Told
  <2> QED
    BY <1>2, <2>3 DEF ModelFor
<1> QED
  BY <1>1, <1>2

LEMMA PlansTell ==
  ASSUME NEW c \in Configurations, LadderTells(c), NEW m \in Columns, NEW out, NEW dark
  PROVE  LET plan == ExecutionPlan(c, m, out, dark) IN Told(plan.model, plan.provider)
<1> DEFINE Tells(plan) == Told(plan.model, plan.provider)
           plan == Unclamped(c, m, out)
<1>1. ASSUME NEW p \in Providers, NEW t
      PROVE  Tells(Finalized(c, p, t))
  BY <1>1, ModelsForTell DEF Finalized, Plan
<1>2. Tells(ExplicitPlan(c, m))
  BY DEF ExplicitPlan, Plan, Told
<1>3. Tells(PrefixPlan(c))
  <2> DEFINE route == Pick(c.byIdPrefix, <<c.primary, {}>>)
  <2>1. route[1] \in Providers
    BY Roles, Picked
  <2> HIDE DEF route, Tells
  <2>2. Tells(Finalized(c, route[1], Pick(route[2], AnchoredTier(c))))
    BY <1>1, <2>1
  <2> QED
    BY <2>2 DEF PrefixPlan, route
<1>4. Tells(ClassPlan(c))
  <2>1. Preferred(c) \subseteq c.enabled
    BY DEF Preferred
  <2>2. Pick(Preferred(c), c.primary) \in Providers
    BY <2>1, Roles, Picked
  <2> HIDE DEF Tells
  <2> QED
    BY <1>1, <2>2 DEF ClassPlan
<1>5. Tells(Finalized(c, Rerouted(c, out), AnchoredTier(c)))
  BY <1>1, ReroutedIsProvider
<1>6. Tells(plan)
  <2> HIDE DEF Tells
  <2> QED
    BY <1>2, <1>3, <1>4, <1>5 DEF Unclamped
<1>7. plan.provider \in Providers
  BY UnclampedPlans DEF Planned
<1> HIDE DEF plan
<1> DEFINE clamp == IF <<plan.provider, plan.tier>> \in dark /\ MayClamp(c, Named(m))
                    THEN Lower(c, plan, dark) ELSE {}
           t == CHOOSE t \in clamp : TRUE
<1>8. ExecutionPlan(c, m, out, dark) =
        IF clamp = {} THEN plan ELSE Plan(c, plan.provider, t, c.ladder[plan.provider][t])
  BY DEF ExecutionPlan, plan
<1>9. clamp # {} => t \in Rungs(c, plan.provider)
  <2>1. clamp # {} => t \in Lower(c, plan, dark)
    OBVIOUS
  <2> QED
    BY <2>1 DEF Lower
<1> HIDE DEF clamp, t
<1>10. clamp # {} => Tells(Plan(c, plan.provider, t, c.ladder[plan.provider][t]))
  BY <1>7, <1>9 DEF LadderTells, Told, Plan
<1> HIDE DEF Tells
<1>11. Tells(ExecutionPlan(c, m, out, dark))
  BY <1>6, <1>8, <1>10
<1> QED
  BY <1>11 DEF Tells

\* The model recorded for a pinned task is one of the runner it is pinned to.
PinFits == runner # NoRunner => model # Unset /\ Told(model, runner)

LEMMA OverflowTells ==
  ASSUME TypeOK, Pinned, LadderTells(config), PinFits, Overflow
  PROVE  PinFits'
<1>1. /\ agent \in Agents /\ agent.runner \in Providers
      /\ config \in Configurations /\ agent.stage = "running"
  BY Configured, StagesOfAgents DEF TypeOK, Overflow, Agents
<1>2. CASE agent.effort = "xhigh"
  BY <1>2 DEF Overflow, PinFits
<1>3. CASE agent.effort # "xhigh" /\ OneTierUp(agent) \cup Wider(agent) # {}
  <2>1. model' = Pick(OneTierUp(agent), Pick(Wider(agent), Null)) /\ runner' = runner
    BY <1>3 DEF Overflow
  <2>2. model' \in OneTierUp(agent) \cup Wider(agent)
    BY <1>3, <2>1, Picked
  <2>3. model' # Unset
    BY <1>1, <2>2, Rungs2And3, NamesOfNothing
  <2>4. runner # NoRunner => agent.runner = runner
    BY <1>1 DEF Pinned
  <2>5. CASE model' \in OneTierUp(agent)
    <3>1. \A t : NextAbove(config, agent.runner, t) \subseteq Rungs(config, agent.runner)
      BY DEF NextAbove
    <3>2. PICK u \in Rungs(config, agent.runner) : model' = config.ladder[agent.runner][u]
      BY <2>5, <3>1 DEF OneTierUp, EscalateBelowCeiling
    <3>3. Told(model', agent.runner)
      BY <1>1, <3>2 DEF LadderTells, Told
    <3> QED
      BY <2>1, <2>3, <2>4, <3>3 DEF PinFits
  <2>6. CASE model' \in Wider(agent)
    <3>1. agent.runner = "claude" /\ model' \in To1M(agent.model)
      BY <2>6 DEF Wider
    <3>2. /\ ProviderOf(agent.model) = "claude" /\ model' = [agent.model EXCEPT !.wide = TRUE]
          /\ agent.model \in Models
      BY <1>1, <3>1 DEF To1M, Named, Agents, Columns
    <3>3. model'.name = agent.model.name
      BY <3>2 DEF Models
    <3>4. Told(model', agent.runner)
      BY <3>1, <3>2, <3>3 DEF Told, ProviderOf
    <3> QED
      BY <2>1, <2>3, <2>4, <3>4 DEF PinFits
  <2> QED
    BY <2>2, <2>5, <2>6
<1>4. CASE /\ agent.effort # "xhigh" /\ ~(OneTierUp(agent) \cup Wider(agent) # {})
           /\ MoveTo(agent) # {}
  <2> DEFINE p == Pick(MoveTo(agent), NoRunner)
             rung == Pick(TierOf(config, agent.runner, agent.model), config.anchor)
  <2>1. p \in Providers /\ FallbackModel(agent, p) \in Columns
    BY <1>1, <1>4, Moves, Picked
  <2>2. runner' = p /\ model' = FallbackModel(agent, p)
    BY <1>4 DEF Overflow
  <2> HIDE DEF p
  <2>3. Told(ModelFor(config, p, rung), p)
    BY <1>1, <2>1, ModelsForTell
  <2> HIDE DEF rung
  <2>4. FallbackModel(agent, p) = IF ModelFor(config, p, rung) = Null THEN Blank
                                  ELSE ModelFor(config, p, rung)
    BY DEF FallbackModel, rung
  <2>5. Told(FallbackModel(agent, p), p)
    BY <2>3, <2>4 DEF Told, Named
  <2> QED
    BY <2>1, <2>2, <2>5, NamesOfNothing DEF PinFits
<1>5. CASE /\ agent.effort # "xhigh" /\ ~(OneTierUp(agent) \cup Wider(agent) # {})
           /\ ~(MoveTo(agent) # {})
  BY <1>5 DEF Overflow, PinFits
<1> QED
  BY <1>2, <1>3, <1>4, <1>5

LEMMA PinFitsStep ==
  ASSUME TypeOK, Pinned, LadderTells(config), PinFits, [Next]_vars
  PROVE  PinFits'
<1>1. CASE Spawn
  BY <1>1 DEF Spawn, Valve, PinFits
<1>2. CASE Overflow
  BY <1>2, OverflowTells
<1>3. CASE TrackFailure
  BY <1>3 DEF TrackFailure, PinFits
<1>4. CASE Quiet
  BY <1>4, QuietSteps DEF channels, PinFits
<1>5. CASE (\E m \in EditModels : OperatorEdits(m)) \/ Reimport
  <2>1. UNCHANGED channels
    BY <1>5 DEF OperatorEdits, Reimport
  <2> QED
    BY <2>1 DEF channels, PinFits
<1>6. CASE Restart
  BY <1>6 DEF Restart, PinFits
<1>7. CASE UNCHANGED vars
  BY <1>7 DEF vars, channels, PinFits
<1> QED
  BY <1>1, <1>2, <1>3, <1>4, <1>5, <1>6, <1>7 DEF Next, AgentEnds, Quiet

\* A prompt's hint is the provider its model tells.
PromptFits == agent.stage = "prompt" /\ agent.hint # NoRunner => Told(agent.model, agent.hint)

LEMMA PromptFitsStep ==
  ASSUME TypeOK, LadderTells(config), PromptFits, [Next]_vars
  PROVE  PromptFits'
<1>1. CASE BuildPrompt
  <2> DEFINE plan == ExecutionPlan(config, row.model, account.out, account.dark)
  <2>1. Told(plan.model, plan.provider)
    BY Configured, PlansTell DEF TypeOK
  <2>2. agent' = Prompt(plan)
    BY <1>1 DEF BuildPrompt
  <2> HIDE DEF plan
  <2>3. Prompt(plan).hint # NoRunner => Told(Prompt(plan).model, Prompt(plan).hint)
    BY <2>1 DEF Prompt
  <2> QED
    BY <2>2, <2>3 DEF PromptFits
<1>2. ASSUME agent' = agent \/ agent'.stage # "prompt"
      PROVE  PromptFits'
  BY <1>2 DEF PromptFits
<1>3. CASE Spawn
  BY <1>2, <1>3 DEF Spawn, Attempt
<1>4. CASE Overflow \/ Crash \/ Fail
  <2>1. agent \in Agents
    BY <1>4, StagesOfAgents DEF Overflow, Crash, Fail
  <2> DEFINE At(s) == [agent EXCEPT !.stage = s]
  <2>2. ASSUME NEW s PROVE At(s).stage = s
    BY <2>1 DEF Agents
  <2>3. agent' = NoAgent \/ agent' = At("failed") \/ agent' = At("overflowed")
    BY <1>4 DEF Overflow, Crash, Fail
  <2> HIDE DEF At
  <2>4. agent'.stage \in {"none", "failed", "overflowed"}
    BY <2>2, <2>3 DEF NoAgent
  <2> QED
    BY <1>2, <2>4
<1>5. CASE Limited \/ Complete \/ TrackFailure \/ Restart
  BY <1>2, <1>5 DEF Limited, Complete, TrackFailure, Restart, NoAgent
<1>6. CASE Reclaim \/ Reimport \/ Reopen \/ AccountChanges \/ UNCHANGED vars
  BY <1>2, <1>6 DEF Reclaim, Reimport, Reopen, AccountChanges, vars
<1>7. CASE \E m \in EditModels : OperatorEdits(m)
  BY <1>2, <1>7 DEF OperatorEdits
<1> QED
  BY <1>1, <1>3, <1>4, <1>5, <1>6, <1>7 DEF Next, AgentEnds

\* An agent runs where the name of its model says, the default model aside.
AgentFits ==
  agent.stage \in Stages /\ agent.model \notin config.defaultModel
    => Told(agent.model, agent.runner)

LEMMA SpawnFits ==
  ASSUME TypeOK, Path = "sequential", PinFits, PromptFits, Spawn
  PROVE  AgentFits'
<1> DEFINE escalated == IF crashed THEN Escalated(config, agent.model) ELSE {}
           m == IF model' # Unset THEN model' ELSE Pick(escalated, agent.model)
           final == FinalHint(agent.hint, m, agent.model)
<1>1. /\ agent'.model = m /\ agent'.runner = RunnerFor(runner', final, m)
      /\ config' = config
  BY DEF Spawn, Attempt
<1>2. agent.hint # NoRunner => Told(agent.model, agent.hint)
  BY DEF Spawn, PromptFits
<1>3. runner' # NoRunner => runner' = runner /\ model' = model
  BY DEF Spawn, Valve
<1>4. CASE runner' # NoRunner
  <2>1. m = model /\ agent'.runner = runner /\ Told(model, runner)
    BY <1>1, <1>3, <1>4 DEF PinFits, RunnerFor
  <2> QED
    BY <1>1, <2>1 DEF AgentFits
<1>5. CASE runner' = NoRunner
  <2> HIDE DEF m
  <2>1. agent'.runner = IF final # NoRunner THEN final ELSE ProviderOf(m)
    BY <1>1, <1>5 DEF RunnerFor
  <2>2. final # NoRunner /\ m \notin config.defaultModel
          => m = agent.model /\ final = agent.hint
    BY DEF FinalHint
  <2>3. m \notin config.defaultModel => Told(m, agent'.runner)
    BY <1>2, <2>1, <2>2 DEF Told
  <2> QED
    BY <1>1, <2>3 DEF AgentFits
<1> QED
  BY <1>4, <1>5

LEMMA AgentFitsStep ==
  ASSUME TypeOK, Path = "sequential", PinFits, PromptFits, AgentFits, [Next]_vars
  PROVE  AgentFits'
<1>1. CASE Spawn
  BY <1>1, SpawnFits
<1>2. ASSUME /\ \/ agent'.stage \notin Stages \/ agent' = agent
                \/ /\ agent.stage \in Stages
                   /\ agent'.model = agent.model /\ agent'.runner = agent.runner
             /\ config' = config
      PROVE  AgentFits'
  BY <1>2 DEF AgentFits
<1>3. CASE Overflow \/ Crash \/ Fail
  <2>1. agent \in Agents
    BY <1>3, StagesOfAgents DEF Overflow, Crash, Fail
  <2> DEFINE At(s) == [agent EXCEPT !.stage = s]
  <2>2. ASSUME NEW s PROVE At(s).model = agent.model /\ At(s).runner = agent.runner
    BY <2>1 DEF Agents
  <2>3. /\ agent' = NoAgent \/ agent' = At("failed") \/ agent' = At("overflowed")
        /\ config' = config
    BY <1>3 DEF Overflow, Crash, Fail
  <2> HIDE DEF At
  <2>4. \/ agent' = NoAgent
        \/ agent'.model = agent.model /\ agent'.runner = agent.runner
    BY <2>2, <2>3
  <2>5. NoAgent.stage \notin Stages /\ agent.stage \in Stages
    BY <2>1 DEF NoAgent, Stages, Agents
  <2> QED
    BY <1>2, <2>3, <2>4, <2>5
<1>4. CASE Limited \/ Complete \/ TrackFailure \/ Reclaim
  BY <1>2, <1>4 DEF Limited, Complete, TrackFailure, Reclaim, NoAgent, Stages
<1>5. CASE (\E m \in EditModels : OperatorEdits(m)) \/ Reimport \/ Reopen \/ Restart
  BY <1>2, <1>5 DEF OperatorEdits, Reimport, Reopen, Restart, NoAgent, Stages
<1>6. CASE AccountChanges \/ UNCHANGED vars
  BY <1>2, <1>6 DEF AccountChanges, vars
<1>7. CASE BuildPrompt
  BY <1>2, <1>7, TypeBuildPrompt DEF BuildPrompt, Stages
<1> QED
  BY <1>1, <1>3, <1>4, <1>5, <1>6, <1>7 DEF Next, AgentEnds

LEMMA FitsInvariant ==
  ASSUME Path = "sequential", \A c \in Configs : LadderTells(c)
  PROVE  Steps => [](PinFits /\ AgentFits)
<1>1. TypeOK => LadderTells(config)
  BY DEF TypeOK
<1>2. Init => PinFits /\ PromptFits /\ AgentFits
  BY DEF Init, PinFits, PromptFits, AgentFits, NoAgent, Stages
<1>3. TypeOK /\ Pinned /\ PinFits /\ PromptFits /\ AgentFits /\ [Next]_vars
        => PinFits' /\ PromptFits' /\ AgentFits'
  BY <1>1, PinFitsStep, PromptFitsStep, AgentFitsStep
<1> QED
  BY <1>2, <1>3, TypeCorrect, PinInvariant, PTL DEF Steps

\* On the sequential path, and where the ladders tell, every agent is started with a
\* model of its own provider: whatever plan, crash escalation, override, pin and hint
\* came together, whoever edited the task meanwhile, whatever was blacked out.
THEOREM RunnersFit ==
  ASSUME Path = "sequential", \A c \in Configs : LadderTells(c)
  PROVE  Steps => []ModelFitsRunner
<1>1. TypeOK => LadderTells(config)
  BY DEF TypeOK
<1>2. TypeOK /\ AgentFits => ModelFitsRunner
  <2> SUFFICES ASSUME TypeOK, AgentFits, agent.stage \in Stages, Named(agent.model),
                      agent.model \notin config.defaultModel
               PROVE  agent.runner \in IF OnLadder(agent.model) = {}
                                       THEN {ProviderOf(agent.model)} ELSE OnLadder(agent.model)
    BY DEF ModelFitsRunner
  <2> DEFINE m == agent.model
  <2>1. agent.runner = ProviderOf(m) /\ m \in Models
    BY StagesOfAgents DEF AgentFits, Told, Agents, Columns, Named
  <2>2. Base(m) \in Models /\ Base(m).name = m.name
    BY <2>1 DEF Base, Models
  <2>3. Named(Base(m)) /\ ProviderOf(Base(m)) = ProviderOf(m)
    BY <2>2, RoutingAssumption DEF Named, Models, Null, Blank, Model, ProviderOf
  <2>4. OnLadder(m) \subseteq {ProviderOf(m)}
    <3> SUFFICES ASSUME NEW p \in OnLadder(m) PROVE p = ProviderOf(m)
      OBVIOUS
    <3>1. PICK t \in Rungs(config, p) : config.ladder[p][t] = Base(m)
      BY DEF OnLadder, TierOf
    <3> QED
      BY <1>1, <2>3, <3>1 DEF LadderTells, OnLadder
  <2> QED
    BY <2>1, <2>4
<1> QED
  BY <1>2, FitsInvariant, TypeCorrect, PTL

-----------------------------------------------------------------------------
(* The climb.                                                              *)

LEMMA LadderRows ==
  ASSUME NEW c \in Configurations, NEW p \in Providers
  PROVE  /\ Rungs(c, p) \subseteq Nat
         /\ \A u \in Rungs(c, p) :
              \/ c.ladder[p][u] = Null
              \/ c.ladder[p][u] \in Models /\ Base(c.ladder[p][u]) = c.ladder[p][u]
<1> DEFINE Rows == [name : Names, wide : {FALSE}] \cup {Null}
<1>1. c.ladder \in [Providers -> UNION {[S -> Rows] : S \in SUBSET Tiers}]
  BY DEF Configurations
<1>2. c.ladder[p] \in UNION {[S -> Rows] : S \in SUBSET Tiers}
  BY <1>1
<1> HIDE DEF Rows
<1>3. PICK S \in SUBSET Tiers : c.ladder[p] \in [S -> Rows]
  BY <1>2
<1>4. Rungs(c, p) \subseteq Nat
  <2>1. Rungs(c, p) = S
    BY <1>3 DEF Rungs
  <2> QED
    BY <2>1 DEF Tiers
<1>5. ASSUME NEW u \in Rungs(c, p), c.ladder[p][u] # Null
      PROVE  c.ladder[p][u] \in Models /\ Base(c.ladder[p][u]) = c.ladder[p][u]
  <2> DEFINE x == c.ladder[p][u]
  <2>1. x \in [name : Names, wide : {FALSE}]
    BY <1>3, <1>5 DEF Rungs, Rows
  <2> HIDE DEF x
  <2>2. x \in Models /\ Base(x) = x
    BY <2>1 DEF Models, Base
  <2> QED
    BY <2>2 DEF x
<1> QED
  BY <1>4, <1>5

\* y is further up than x for provider p: on a higher rung, or the same model, wider.
Less(c, p, x, y) ==
  \/ \E t, u \in Rungs(c, p) : t < u /\ c.ladder[p][t] = Base(x) /\ c.ladder[p][u] = Base(y)
  \/ Base(x) = Base(y) /\ ~x.wide /\ y.wide

LEMMA NamedBase ==
  ASSUME NEW x \in Columns, Named(x)
  PROVE  Base(x) # Null /\ x \in Models
<1>1. x \in Models
  BY DEF Columns, Named
<1>2. Base(x) \in Models
  BY <1>1 DEF Models, Base
<1> QED
  BY <1>1, <1>2, RoutingAssumption DEF Models, Null, Model

LEMMA LessIsAnOrder ==
  ASSUME NEW c \in Configurations, Validated(c), NEW p \in Providers,
         NEW x, NEW y \in Columns, NEW z, Named(y)
  PROVE  /\ ~Less(c, p, y, y)
         /\ Less(c, p, x, y) /\ Less(c, p, y, z) => Less(c, p, x, z)
<1>1. ASSUME NEW t \in Rungs(c, p), NEW u \in Rungs(c, p),
             c.ladder[p][t] = Base(y), c.ladder[p][u] = Base(y)
      PROVE  t = u
  BY <1>1, NamedBase DEF Validated, Rungs
<1>2. Rungs(c, p) \subseteq Nat
  BY LadderRows
<1>3. ~Less(c, p, y, y)
  BY <1>1, <1>2 DEF Less
<1>4. ASSUME Less(c, p, x, y), Less(c, p, y, z) PROVE Less(c, p, x, z)
  <2>1. CASE Base(x) = Base(y) /\ ~x.wide /\ y.wide
    BY <1>4, <2>1 DEF Less
  <2>2. CASE Base(y) = Base(z) /\ ~y.wide /\ z.wide
    BY <1>4, <2>2 DEF Less
  <2>3. CASE /\ ~(Base(x) = Base(y) /\ ~x.wide /\ y.wide)
             /\ ~(Base(y) = Base(z) /\ ~y.wide /\ z.wide)
    <3>1. PICK t, u \in Rungs(c, p) :
            t < u /\ c.ladder[p][t] = Base(x) /\ c.ladder[p][u] = Base(y)
      BY <1>4, <2>3 DEF Less
    <3>2. PICK v, w \in Rungs(c, p) :
            v < w /\ c.ladder[p][v] = Base(y) /\ c.ladder[p][w] = Base(z)
      BY <1>4, <2>3 DEF Less
    <3>3. u = v
      BY <1>1, <3>1, <3>2
    <3>4. t < w
      BY <1>2, <3>1, <3>2, <3>3
    <3> QED
      BY <3>1, <3>2, <3>4 DEF Less
  <2> QED
    BY <2>1, <2>2, <2>3
<1> QED
  BY <1>3, <1>4

\* Rungs 2 and 3 of the overflow ladder lead up, to a named model.
LEMMA StepsLeadUp ==
  ASSUME NEW c \in Configurations, NEW p \in Providers, NEW x \in Columns,
         NEW y \in EscalateBelowCeiling(c, p, x) \cup To1M(x)
  PROVE  Named(x) /\ Named(y) /\ Less(c, p, x, y)
<1>1. CASE y \in EscalateBelowCeiling(c, p, x)
  <2>1. PICK t \in TierOf(c, p, x), u \in Rungs(c, p) :
          u \in NextAbove(c, p, t) /\ y = c.ladder[p][u] /\ y # Null
    BY <1>1 DEF EscalateBelowCeiling, NextAbove
  <2>2. t \in Rungs(c, p) /\ Named(x) /\ c.ladder[p][t] = Base(x)
    BY <2>1 DEF TierOf
  <2>3. t < u
    BY <2>1, <2>2, LadderRows DEF NextAbove
  <2>4. y \in Models /\ Base(y) = y
    BY <2>1, LadderRows
  <2>5. Named(y)
    BY <2>4, RoutingAssumption DEF Models, Named, Null, Blank, Model
  <2> QED
    BY <2>1, <2>2, <2>3, <2>4, <2>5 DEF Less
<1>2. CASE y \in To1M(x)
  <2>1. Named(x) /\ ~x.wide /\ y = [x EXCEPT !.wide = TRUE]
    BY <1>2 DEF To1M
  <2>2. x \in Models
    BY <2>1, NamedBase
  <2>3. y \in Models /\ y.wide /\ Base(y) = Base(x)
    BY <2>1, <2>2 DEF Models, Base
  <2>4. Named(y)
    BY <2>3, RoutingAssumption DEF Models, Named, Null, Blank, Model
  <2> QED
    BY <2>1, <2>3, <2>4 DEF Less
<1> QED
  BY <1>1, <1>2

\* On the sequential path the agent of a task with an override runs that model.
Follows == agent.stage = "running" /\ model # Unset => agent.model = model

LEMMA FollowsStep ==
  ASSUME TypeOK, Path = "sequential", Follows, [Next]_vars
  PROVE  Follows'
<1>1. CASE Spawn
  BY <1>1 DEF Spawn, Attempt, Follows
<1>2. CASE Overflow
  <2>1. agent'.stage = "overflowed"
    BY <1>2, StagesOfAgents DEF Overflow, Agents
  <2> QED
    BY <2>1 DEF Follows
<1>3. CASE TrackFailure \/ Restart
  BY <1>3 DEF TrackFailure, Restart, NoAgent, Follows
<1>4. CASE Quiet
  BY <1>4, QuietSteps DEF channels, Follows
<1>5. CASE (\E m \in EditModels : OperatorEdits(m)) \/ Reimport
  <2>1. UNCHANGED <<channels, agent>>
    BY <1>5 DEF OperatorEdits, Reimport
  <2> QED
    BY <2>1 DEF channels, Follows
<1>6. CASE UNCHANGED vars
  BY <1>6 DEF vars, channels, Follows
<1> QED
  BY <1>1, <1>2, <1>3, <1>4, <1>5, <1>6 DEF Next, AgentEnds, Quiet

\* What the channels say against a repetition of the attempt a: the effort is lower,
\* the task was moved off its runner, or the override is further up.
Behind(a) ==
  IF a[1] = "xhigh" THEN effort = "high"
  ELSE /\ model # Unset
       /\ IF runner = NoRunner
          THEN a[3] = ProviderOf(model) /\ Named(model) /\ Less(config, a[3], a[2], model)
          ELSE a[3] = runner => Named(model) /\ Less(config, a[3], a[2], model)

\* Every attempt that overflowed is behind, as long as the task is open.
Open(r) == r.status \in {"todo", "in_progress"}
Climbing == Open(row) => \A a \in ghost.tried : Behind(a)

LEMMA ClimbingOverflow ==
  ASSUME TypeOK, LadderTells(config), config.defaultModel = {}, Pinned, AgentFits, Follows,
         PinFits', Climbing, Overflow
  PROVE  Climbing'
<1> DEFINE e == agent.effort
           m == agent.model
           r == agent.runner
<1>1. /\ agent \in Agents /\ e \in Efforts /\ m \in Columns /\ r \in Providers
      /\ config \in Configurations /\ Validated(config) /\ agent.stage = "running"
  BY Configured, RecoveryAssumption, StagesOfAgents DEF TypeOK, Overflow, Agents
<1>2. /\ row.status = "in_progress"
      /\ (runner # NoRunner => r = runner) /\ (model # Unset => m = model)
  BY <1>1 DEF Pinned, Claimed, Follows
<1>3. Told(m, r)
  BY <1>1 DEF AgentFits, Stages
<1>4. /\ ghost'.tried = ghost.tried \cup {<<e, m, r>>} /\ config' = config
      /\ ghost.tried \subseteq Efforts \X Columns \X Providers
  BY DEF Overflow, TypeOK
<1>5. \A a \in ghost.tried : Behind(a)
  BY <1>2 DEF Climbing, Open
<1>6. SUFFICES ASSUME NEW a \in ghost.tried \cup {<<e, m, r>>}, Open(row')
               PROVE  Behind(a)'
  BY <1>4 DEF Climbing
<1>7. /\ a[1] = "xhigh" => effort = "high" \/ e = "xhigh"
      /\ a[1] # "xhigh" =>
           /\ a[3] = r => a[2] = m \/ (Named(m) /\ Less(config, r, a[2], m))
           /\ runner = NoRunner => a[3] = r
  <2>1. CASE a \in ghost.tried
    BY <1>2, <1>3, <1>5, <2>1 DEF Behind, Told
  <2>2. CASE a = <<e, m, r>>
    BY <2>2
  <2> QED
    BY <2>1, <2>2
<1> HIDE DEF e, m, r
<1>8. CASE e = "xhigh"
  <2>1. effort' = "high" /\ UNCHANGED <<model, runner>>
    BY <1>8 DEF Overflow, e
  <2>2. CASE a[1] = "xhigh"
    BY <2>1, <2>2 DEF Behind
  <2>3. CASE a[1] # "xhigh"
    <3>1. a \in ghost.tried
      BY <1>8, <2>3
    <3> QED
      BY <1>4, <1>5, <2>1, <2>3, <3>1 DEF Behind
  <2> QED
    BY <2>2, <2>3
<1>9. CASE e # "xhigh" /\ OneTierUp(agent) \cup Wider(agent) # {}
  <2>1. /\ model' = Pick(OneTierUp(agent), Pick(Wider(agent), Null))
        /\ runner' = runner /\ effort' = effort
    BY <1>9 DEF Overflow, e
  <2>2. model' \in OneTierUp(agent) \cup Wider(agent)
    BY <1>9, <2>1, Picked
  <2>3. /\ model' \in EscalateBelowCeiling(config, r, m) \cup To1M(m)
        /\ model' \notin EscalateBelowCeiling(config, r, m) => r = "claude"
    BY <2>2 DEF OneTierUp, Wider, r, m
  <2>4. Named(m) /\ Named(model') /\ Less(config, r, m, model')
    BY <1>1, <2>3, StepsLeadUp
  <2>5. model' # Unset
    BY <1>1, <2>2, Rungs2And3, NamesOfNothing
  <2>6. ProviderOf(model') = r
    <3>1. CASE model' \in EscalateBelowCeiling(config, r, m)
      <4>1. PICK u \in Rungs(config, r) : model' = config.ladder[r][u]
        BY <3>1 DEF EscalateBelowCeiling, NextAbove
      <4> QED
        BY <1>1, <2>4, <4>1 DEF LadderTells
    <3>2. CASE model' \in To1M(m)
      <4>1. model' = [m EXCEPT !.wide = TRUE] /\ m \in Models
        BY <1>1, <2>4, <3>2, NamedBase DEF To1M
      <4>2. model'.name = m.name
        BY <4>1 DEF Models
      <4> QED
        BY <1>3, <2>4, <4>2 DEF Told, ProviderOf
    <3> QED
      BY <2>3, <3>1, <3>2
  <2>7. a[1] # "xhigh" /\ a[3] = r => Less(config, r, a[2], model')
    BY <1>1, <1>7, <2>4, LessIsAnOrder
  <2> QED
    BY <1>2, <1>4, <1>7, <1>9, <2>1, <2>4, <2>5, <2>6, <2>7 DEF Behind
<1>10. CASE e # "xhigh" /\ ~(OneTierUp(agent) \cup Wider(agent) # {}) /\ MoveTo(agent) # {}
  <2> DEFINE p == Pick(MoveTo(agent), NoRunner)
  <2>1. p \in Providers /\ FallbackModel(agent, p) \in Columns
    BY <1>1, <1>10, Moves, Picked
  <2>2. p \in config.fallback[r] /\ runner = NoRunner
    BY <1>10, Picked DEF MoveTo, r
  <2>3. runner' = p /\ model' = FallbackModel(agent, p) /\ effort' = effort
    BY <1>10 DEF Overflow, e
  <2> HIDE DEF p
  <2>4. runner' # NoRunner /\ runner' # r /\ model' # Unset
    BY <1>1, <2>1, <2>2, <2>3, NamesOfNothing DEF Validated
  <2> QED
    BY <1>7, <1>10, <2>2, <2>3, <2>4 DEF Behind
<1>11. CASE /\ e # "xhigh" /\ ~(OneTierUp(agent) \cup Wider(agent) # {})
            /\ ~(MoveTo(agent) # {})
  <2>1. row' = [row EXCEPT !.status = "blocked"]
    BY <1>2, <1>11 DEF Overflow, Parked, e
  <2>2. row'.status = "blocked"
    BY <2>1 DEF TypeOK
  <2> QED
    BY <1>6, <2>2 DEF Open
<1> QED
  BY <1>8, <1>9, <1>10, <1>11

LEMMA ClimbingStep ==
  ASSUME TypeOK, LadderTells(config), config.defaultModel = {}, Pinned, AgentFits, Follows,
         PinFits', Climbing, [Next]_vars
  PROVE  Climbing'
<1>1. ASSUME UNCHANGED <<config, effort, model, runner>>, ghost'.tried \subseteq ghost.tried,
             Open(row') => Open(row)
      PROVE  Climbing'
  BY <1>1 DEF Climbing, Behind
<1>2. CASE Spawn
  <2>1. CASE Edited
    <3>1. ghost'.tried = {}
      BY <1>2, <2>1 DEF Spawn, TypeOK
    <3> QED
      BY <3>1 DEF Climbing
  <2>2. CASE ~Edited
    <3>1. UNCHANGED <<config, effort, model, runner, row>>
      BY <1>2, <2>2 DEF Spawn, Valve
    <3>2. ghost'.tried = ghost.tried
      BY <1>2, <2>2 DEF Spawn, TypeOK
    <3> QED
      BY <1>1, <3>1, <3>2
  <2> QED
    BY <2>1, <2>2
<1>3. CASE Overflow
  BY <1>3, ClimbingOverflow
<1>4. CASE TrackFailure
  <2>1. CASE row.status \in {"blocked", "closed"}
    BY <1>1, <1>4, <2>1 DEF TrackFailure
  <2>2. CASE row.status \notin {"blocked", "closed"}
    <3>1. Open(row)
      BY <2>2 DEF TypeOK, Statuses, Open
    <3> QED
      BY <1>1, <1>4, <3>1 DEF TrackFailure
  <2> QED
    BY <2>1, <2>2
<1>5. CASE Crash \/ Fail \/ AccountChanges
  BY <1>1, <1>5 DEF Crash, Fail, AccountChanges, channels
<1>6. CASE Limited \/ Reclaim
  <2>1. Open(Recovered(row)) => Open(row)
    BY DEF Recovered, Open
  <2> QED
    BY <1>1, <1>6, <2>1 DEF Limited, Reclaim, channels
<1>7. CASE Complete
  <2>1. row'.status = "closed"
    BY <1>7 DEF Complete, TypeOK
  <2> QED
    BY <2>1 DEF Climbing, Open
<1>8. CASE Reopen \/ Restart
  <2>1. CASE Reopen
    BY <2>1 DEF Reopen, TypeOK, Climbing
  <2>2. CASE Restart
    BY <2>2 DEF Restart, NoGhost, Climbing
  <2> QED
    BY <1>8, <2>1, <2>2
<1>9. CASE (\E m \in EditModels : OperatorEdits(m)) \/ Reimport
  <2>1. UNCHANGED <<config, channels>> /\ row'.status = row.status /\ ghost'.tried = ghost.tried
    BY <1>9 DEF OperatorEdits, Reimport, TypeOK
  <2> QED
    BY <1>1, <2>1 DEF channels, Open
<1>10. CASE UNCHANGED vars
  BY <1>1, <1>10 DEF vars, channels
<1>11. CASE BuildPrompt
  BY <1>1, <1>11 DEF BuildPrompt, channels, Open
<1> QED
  BY <1>2, <1>3, <1>4, <1>5, <1>6, <1>7, <1>8, <1>9, <1>10, <1>11 DEF Next, AgentEnds

LEMMA SpawnsAnew ==
  ASSUME TypeOK, Path = "sequential", Pinned, Climbing, Spawn
  PROVE  <<agent'.effort, agent'.model, agent'.runner>> \notin ghost'.tried
<1>1. CASE Edited
  <2>1. ghost'.tried = {}
    BY <1>1 DEF Spawn, TypeOK
  <2> QED
    BY <2>1
<1>2. CASE ~Edited
  <2>1. /\ UNCHANGED <<effort, model, runner>>
        /\ ghost'.tried = ghost.tried
    BY <1>2 DEF Spawn, Valve, TypeOK
  <2>2. /\ effort # "unset" => agent'.effort = effort
        /\ model # Unset => agent'.model = model
        /\ runner # NoRunner => agent'.runner = runner
    BY <2>1 DEF Spawn, Attempt, RunnerFor
  <2> SUFFICES ASSUME NEW a \in ghost.tried, a = <<agent'.effort, agent'.model, agent'.runner>>
               PROVE  FALSE
    BY <2>1
  <2>3. Behind(a)
    BY DEF Climbing, Open, Pinned, Claimed, Spawn
  <2>4. a[1] = agent'.effort /\ a[2] = agent'.model /\ a[3] = agent'.runner
    OBVIOUS
  <2>5. a[1] # "xhigh"
    BY <2>2, <2>3, <2>4 DEF Behind
  <2>6. model # Unset /\ a[2] = model /\ Named(model) /\ Less(config, a[3], model, model)
    BY <2>2, <2>3, <2>4, <2>5 DEF Behind
  <2>7. a[3] \in Providers /\ model \in Columns
    BY <2>6 DEF TypeOK
  <2> QED
    BY <2>6, <2>7, Configured, RecoveryAssumption, LessIsAnOrder DEF TypeOK
<1> QED
  BY <1>1, <1>2

\* On the sequential path, where the ladders tell and the PRD has no default model, no
\* attempt that overflowed is made again before somebody intervenes: the rungs of the
\* ladder only lead up, across every crash, failure, blackout and edit between them.
\* (A default model lets a hint send the override of one provider to another, and the
\* ladder then climbs back to where the task has been.)
THEOREM EveryOverflowLeadsOn ==
  ASSUME Path = "sequential", \A c \in Configs : LadderTells(c) /\ c.defaultModel = {}
  PROVE  Steps => NoAttemptTwice
<1>1. TypeOK => LadderTells(config) /\ config.defaultModel = {}
  BY DEF TypeOK
<1>2. Steps => [](PinFits /\ AgentFits)
  BY FitsInvariant
<1>3. Init => Follows /\ Climbing
  BY DEF Init, Follows, Climbing, NoGhost, NoAgent
<1>4. TypeOK /\ Pinned /\ PinFits' /\ AgentFits /\ Follows /\ Climbing /\ [Next]_vars
        => Follows' /\ Climbing'
  BY <1>1, FollowsStep, ClimbingStep
<1>5. Steps => []Climbing
  BY <1>2, <1>3, <1>4, TypeCorrect, PinInvariant, PTL DEF Steps
<1>6. TypeOK /\ Pinned /\ Climbing /\ [Next]_vars
        => [Spawn => <<agent'.effort, agent'.model, agent'.runner>> \notin ghost'.tried]_vars
  BY SpawnsAnew
<1> QED
  BY <1>5, <1>6, TypeCorrect, PinInvariant, PTL DEF Steps, NoAttemptTwice
=============================================================================
