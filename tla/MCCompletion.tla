---------------------------- MODULE MCCompletion ----------------------------
(* Instances of Completion for TLC: the values its configurations share.   *)
EXTENDS Completion

\* An RLM as New makes it: a MaxDepth of 0, which Completion takes for 2, and every limit.
Api == INSTANCE PublicApi
Limited ==
  Api!New(<<Api!WithMaxDepth(0), Api!WithMaxIterations(30), Api!WithMaxIterations(3),
            Api!WithMaxErrors(2), Api!WithMaxBudget(1), Api!WithMaxTokens(2),
            Api!WithMaxTimeout(0)>>)
LimitedDepth == Limited.maxDepth
LimitedIterations == Limited.maxIterations
LimitedErrors == Limited.maxErrors
LimitedBudget == Limited.maxBudget
LimitedTokens == Limited.maxTokens
LimitedTimeout == Limited.maxTimeout

\* Usage of one LM call: none, of both, or of tokens alone.
FreeOrNot == {[cost |-> 0, tokens |-> 0], [cost |-> 1, tokens |-> 1], [cost |-> 0, tokens |-> 2]}
NoUsage == {[cost |-> 0, tokens |-> 0]}
=============================================================================
