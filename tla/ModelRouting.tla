---------------------------- MODULE ModelRouting ----------------------------
(***************************************************************************)
(* Which provider, tier, model and effort a task gets: the resolution      *)
(* chain both prompt builders share, and the steps up the ladder that the  *)
(* recovery paths take.  Pure operators over a configuration c, for one    *)
(* task.  Strings are left abstract: a model is its base name and whether  *)
(* it carries the [1m] suffix.  An Option is the set of its values.        *)
(***************************************************************************)
EXTENDS Naturals, FiniteSets, Sequences

CONSTANTS
  Names,        \* base names of models, the operator's own included
  GrokNames     \* those with a token "grok"

Providers == {"claude", "codex", "grok"}
NoRunner == "none"

\* CapabilityTier: Cheapest = 0, CostEfficient = 1, Standard = 2, Frontier = 3.
Tiers == 0 .. 3
Frontier == 3

Model(n) == [name |-> n, wide |-> FALSE]
Null == Model("null")      \* SQL NULL, None: no --model flag
Blank == Model("blank")    \* the empty string
Opus == Model("opus")      \* OPUS_MODEL
Models == [name : Names, wide : BOOLEAN]
Columns == Models \cup {Null, Blank}   \* what tasks.model may hold
Efforts == {"xhigh", "high"}           \* "high" stands for every other level
Ranks == [low |-> 0, medium |-> 1, high |-> 2]
Levels == DOMAIN Ranks
Difficulties == Levels \cup {"unranked"}   \* none, or a word that is no level

ASSUME RoutingAssumption ==
  /\ "opus" \in Names \ GrokNames /\ GrokNames \subseteq Names
  /\ {"null", "blank", "unset"} \cap Names = {}

\* The resolved configuration, with what it says of the one task at hand.
Configurations ==
  [ladder : [Providers -> UNION {[S -> [name : Names, wide : {FALSE}] \cup {Null}] :
                                   S \in SUBSET Tiers}],
   enabled : SUBSET Providers, primary : Providers, anchor : Tiers,
   fallback : [Providers -> SUBSET Providers],
   effort : [Providers -> Efforts],          \* for the task's difficulty
   difficulty : Difficulties, review : BOOLEAN,
   byIdPrefix : SUBSET (Providers \X SUBSET Tiers),
   preference : Seq(Providers), forceTier : SUBSET Tiers,
   spillover : SUBSET Levels,          \* maxDifficulty
   tierFallback : SUBSET [max : Levels, review : BOOLEAN, forced : BOOLEAN],
   family : [Names -> SUBSET Tiers],         \* what a HUD label would say
   defaultModel : SUBSET Models,             \* the PRD's default_model
   maxRetries : Nat]

\* What validate_models_config demands of them beyond their types.
Validated(c) ==
  /\ c.primary \in c.enabled
  /\ \A p \in Providers : c.fallback[p] \subseteq c.enabled \ {p}
  /\ \A route \in c.byIdPrefix : route[1] \in c.enabled
  /\ \A i \in DOMAIN c.preference : c.preference[i] \in c.enabled
  /\ \A p \in {"codex", "grok"} : c.effort[p] # "xhigh"
  /\ \A p \in Providers : \A t, u \in DOMAIN c.ladder[p] :
        c.ladder[p][t] = c.ladder[p][u] => t = u \/ c.ladder[p][t] = Null

-----------------------------------------------------------------------------
(* Models and tiers.                                                       *)

Named(m) == m \notin {Null, Blank}
Base(m) == [m EXCEPT !.wide = FALSE]

\* Codex is chosen by a hint, never by a name.
ProviderOf(m) == IF m.name \in GrokNames THEN "grok" ELSE "claude"

Rungs(c, p) == DOMAIN c.ladder[p]

\* The nearest defined rung, the cheaper one of two; a null rung has no model.
Distance(t, u) == IF t <= u THEN u - t ELSE t - u
NearestRungs(c, p, t) ==
  {u \in Rungs(c, p) : \A v \in Rungs(c, p) \ {u} :
     \/ Distance(t, u) < Distance(t, v)
     \/ Distance(t, u) = Distance(t, v) /\ u < v}
ModelFor(c, p, t) == IF NearestRungs(c, p, t) = {} THEN Null
                     ELSE c.ladder[p][CHOOSE u \in NearestRungs(c, p, t) : TRUE]

\* The tier a model is configured for, exactly, the suffix aside.
TierOf(c, p, m) == {t \in Rungs(c, p) : Named(m) /\ c.ladder[p][t] = Base(m)}

NextAbove(c, p, t) == {u \in Rungs(c, p) : u > t /\ \A v \in Rungs(c, p) : v > t => u <= v}

\* One defined rung up, none at the ceiling.
EscalateBelowCeiling(c, p, m) ==
  {c.ladder[p][u] : u \in UNION {NextAbove(c, p, t) : t \in TierOf(c, p, m)}} \ {Null}

\* One defined rung up, the same rung at the ceiling, none off the ladder.
EscalateTier(c, p, m) ==
  {c.ladder[p][u] : u \in UNION {IF NextAbove(c, p, t) = {} THEN {t}
                                 ELSE NextAbove(c, p, t) : t \in TierOf(c, p, m)}}
    \ {Null}

\* What both escalations make of a model: none known counts as the baseline.
Escalated(c, m) == IF Named(m) THEN EscalateTier(c, "claude", m) ELSE {Opus}

To1M(m) == IF Named(m) /\ ProviderOf(m) = "claude" /\ ~m.wide
           THEN {[m EXCEPT !.wide = TRUE]} ELSE {}

\* No maximum keeps a task out whose difficulty has no rank.
AtMost(d, max) == d \in Levels => Ranks[d] <= Ranks[max]

\* The anchor, a tier down for low and up for high difficulty, within the ladder.
AnchoredTier(c) ==
  LET up == c.anchor + IF c.difficulty \in Levels THEN Ranks[c.difficulty] ELSE 1 IN
  IF up = 0 THEN 0 ELSE IF up - 1 > Frontier THEN Frontier ELSE up - 1

-----------------------------------------------------------------------------
(* The resolution chain.  out is the set of blacked out providers, dark    *)
(* the set of unavailable rungs.                                           *)

Pick(options, otherwise) == IF options = {} THEN otherwise
                            ELSE CHOOSE x \in options : TRUE

Plan(c, p, t, m) == [provider |-> p, tier |-> t, model |-> m, effort |-> c.effort[p]]
Finalized(c, p, t) == Plan(c, p, t, ModelFor(c, p, t))

ExplicitPlan(c, m) ==
  LET p == ProviderOf(m)
      labelled == IF TierOf(c, p, m) # {} THEN TierOf(c, p, m) ELSE c.family[m.name]
  IN Plan(c, p, Pick(labelled, AnchoredTier(c)), m)

PrefixPlan(c) ==
  LET route == Pick(c.byIdPrefix, <<c.primary, {}>>)
  IN Finalized(c, route[1], Pick(route[2], AnchoredTier(c)))

\* The first enabled provider the class prefers; a review is always frontier.
Preferred(c) ==
  {c.preference[i] : i \in {i \in DOMAIN c.preference :
     /\ c.preference[i] \in c.enabled
     /\ \A j \in 1 .. i - 1 : c.preference[j] \notin c.enabled}}
ForcedTier(c) == IF c.review THEN {Frontier} ELSE c.forceTier
ClassPlan(c) ==
  Finalized(c, Pick(Preferred(c), c.primary), Pick(ForcedTier(c), AnchoredTier(c)))

\* Off a blacked out provider, if the task may: to the fallback, else to the
\* first enabled provider by name.
Spillable(c) == ~c.review /\ \E max \in c.spillover : AtMost(c.difficulty, max)
Order == [claude |-> 1, codex |-> 2, grok |-> 3]
Rerouted(c, out) ==
  LET lit == c.enabled \ out
      first == {p \in lit : \A q \in lit : Order[p] <= Order[q]}
  IN IF c.primary \notin out \/ ~Spillable(c) THEN c.primary
     ELSE Pick(c.fallback[c.primary] \cap lit, Pick(first, c.primary))

Unclamped(c, m, out) ==
  IF Named(m) THEN ExplicitPlan(c, m)
  ELSE IF c.byIdPrefix # {} THEN PrefixPlan(c)
  ELSE IF Preferred(c) # {} \/ ForcedTier(c) # {} THEN ClassPlan(c)
  ELSE Finalized(c, Rerouted(c, out), AnchoredTier(c))

\* Down, never up, off an unavailable rung, where tierFallback allows it.
MayClamp(c, explicit) ==
  \E fb \in c.tierFallback : /\ explicit => fb.forced
                             /\ c.review => fb.review
                             /\ AtMost(c.difficulty, fb.max)
Lower(c, plan, dark) ==
  LET lit == {t \in Rungs(c, plan.provider) :
                /\ t < plan.tier /\ c.ladder[plan.provider][t] # Null
                /\ <<plan.provider, t>> \notin dark}
  IN {t \in lit : \A u \in lit : u <= t}

\* resolve_execution_plan
ExecutionPlan(c, m, out, dark) ==
  LET plan == Unclamped(c, m, out)
      clamp == IF <<plan.provider, plan.tier>> \in dark /\ MayClamp(c, Named(m))
               THEN Lower(c, plan, dark) ELSE {}
  IN IF clamp = {} THEN plan
     ELSE LET t == CHOOSE t \in clamp : TRUE
          IN Plan(c, plan.provider, t, c.ladder[plan.provider][t])
=============================================================================
