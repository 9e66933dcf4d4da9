----------------------------- MODULE PublicApi ------------------------------
(***************************************************************************)
(* pkg/rlm: New applies its options, in order and the last of a kind wins, *)
(* to defaults, and makes an RLM of the outcome.  The instances of         *)
(* Completion and Subcalls take their fields from here.                    *)
(***************************************************************************)
EXTENDS Integers, SequencesExt

CONSTANT NoLimit    \* the nil of a limit

Defaults ==
  [maxDepth |-> 2, maxIterations |-> 30, maxConcurrentSubcalls |-> 4,
   maxErrors |-> 3, maxBudget |-> NoLimit, maxTimeout |-> NoLimit, maxTokens |-> NoLimit]

\* An option is a function on the configuration, here the field it sets and the value.
Option(field, value) == [field |-> field, value |-> value]
WithMaxDepth(n) == Option("maxDepth", n)
WithMaxIterations(n) == Option("maxIterations", n)
WithMaxBudget(budget) == Option("maxBudget", budget)
WithMaxTimeout(seconds) == Option("maxTimeout", seconds)
WithMaxTokens(n) == Option("maxTokens", n)
WithMaxErrors(n) == Option("maxErrors", IF n <= 0 THEN NoLimit ELSE n)

Apply(cfg, option) == [cfg EXCEPT ![option.field] = option.value]
New(options) == FoldLeft(Apply, Defaults, options)

\* The depth cap EnvFactory hands to every container: the option, never the RLM's default.
ScriptCap(cfg) == cfg.maxDepth
=============================================================================
