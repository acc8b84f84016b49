--------------------------- MODULE MCModelRecovery ---------------------------
(* Instances of ModelRecovery for TLC: a Claude ladder of three rungs, and    *)
(* one configuration for each provider a task may start on.                   *)
EXTENDS ModelRecovery

mcNames == {"sonnet", "opus", "fable", "grok", "other"}
mcGrokNames == {"grok"}

Three == [t \in 1 .. 3 |-> Model(CASE t = 1 -> "sonnet" [] t = 2 -> "opus" [] t = 3 -> "fable")]
Rung(m) == [t \in {2} |-> m]
NoFallback == [p \in Providers |-> {}]

\* Claude first, and Grok, here without a name of a model, as each other's fallback.
ClaudeFirst ==
  [ladder |-> [claude |-> Three, codex |-> Rung(Null), grok |-> Rung(Null)],
   enabled |-> Providers, primary |-> "claude", anchor |-> 1,
   fallback |-> [NoFallback EXCEPT !["claude"] = {"grok"}, !["grok"] = {"claude"}],
   effort |-> [claude |-> "xhigh", codex |-> "high", grok |-> "high"],
   difficulty |-> "high", review |-> FALSE,
   byIdPrefix |-> {}, preference |-> <<>>, forceTier |-> {},
   spillover |-> {"high"},
   tierFallback |-> {[max |-> "high", review |-> FALSE, forced |-> FALSE]},
   family |-> [n \in mcNames |-> {}], defaultModel |-> {}, maxRetries |-> 3]

\* Grok by its name, Claude as its fallback, and no limit on failures.
GrokFirst ==
  [ClaudeFirst EXCEPT
     !.ladder["grok"] = Rung(Model("grok")), !.primary = "grok", !.anchor = 2,
     !.fallback = [NoFallback EXCEPT !["grok"] = {"claude"}],
     !.spillover = {}, !.maxRetries = 0]

\* Codex for this class of tasks, chosen by the hint alone.
CodexFirst ==
  [ClaudeFirst EXCEPT
     !.preference = <<"codex", "grok">>, !.forceTier = {2},
     !.fallback = [NoFallback EXCEPT !["codex"] = {"claude"}], !.maxRetries = 2]

\* The same, in a PRD that still has a default_model.
CodexDefaulted == [CodexFirst EXCEPT !.defaultModel = {Opus}]

\* Grok with Codex, which has no name of its own, as its fallback.
GrokToCodex == [GrokFirst EXCEPT !.fallback = [NoFallback EXCEPT !["grok"] = {"codex"}]]

\* A review on the frontier rung, with nowhere to go.
ReviewOnly == [ClaudeFirst EXCEPT !.review = TRUE, !.fallback = NoFallback, !.difficulty = "medium"]

\* A task without a difficulty, on the frontier rung: no maximum applies to it.
Unranked ==
  [ClaudeFirst EXCEPT
     !.difficulty = "unranked", !.anchor = 3, !.spillover = {"low"},
     !.tierFallback = {[max |-> "low", review |-> FALSE, forced |-> FALSE]}]

mcConfigs ==
  {ClaudeFirst, GrokFirst, GrokToCodex, CodexFirst, CodexDefaulted, ReviewOnly, Unranked}
mcClaude == {ClaudeFirst}

mcPrdModels == {Null, Model("sonnet")}
mcNull == {Null}
mcEdits == {Null, Model("grok"), Model("other")}
mcNone == {}

Calm == [out |-> {}, dark |-> {}]
mcCalm == {Calm}
mcAccounts == {Calm, [out |-> {"claude"}, dark |-> {}], [out |-> {}, dark |-> {<<"claude", 3>>}]}
=============================================================================
