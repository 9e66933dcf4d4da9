----------------------------- MODULE MCSubcalls -----------------------------
(* Instances of Subcalls for TLC: the trees its configurations share.      *)
EXTENDS Subcalls

\* Two siblings below the root, and one more query below the first.
Fork == {"r", "a", "b", "g"}
ForkParent == [n \in {"a", "b", "g"} |-> IF n = "g" THEN "a" ELSE "r"]
ForkDepth == [n \in Fork |-> IF n = "r" THEN 0 ELSE IF n = "g" THEN 2 ELSE 1]
ForkBelow == [n \in Fork |-> IF n = "r" THEN Fork ELSE IF n = "a" THEN {"a", "g"} ELSE {n}]

\* An RLM as New makes it, with limits that inherit.
Api == INSTANCE PublicApi
Shared ==
  Api!New(<<Api!WithMaxDepth(2), Api!WithMaxIterations(2), Api!WithMaxBudget(2),
            Api!WithMaxTokens(4)>>)
SharedDepth == Shared.maxDepth
SharedScriptDepth == Api!ScriptCap(Shared)
SharedIterations == Shared.maxIterations
SharedBudget == Shared.maxBudget
SharedTokens == Shared.maxTokens
SharedTimeout == Shared.maxTimeout

\* A child, a grandchild and one query below that.
Chain == {"r", "a", "g", "h"}
ChainParent == [n \in {"a", "g", "h"} |-> IF n = "a" THEN "r" ELSE IF n = "g" THEN "a" ELSE "g"]
ChainDepth == [n \in Chain |-> CASE n = "r" -> 0 [] n = "a" -> 1 [] n = "g" -> 2 [] n = "h" -> 3]
ChainBelow == [n \in Chain |-> {m \in Chain : ChainDepth[m] >= ChainDepth[n]}]
=============================================================================
