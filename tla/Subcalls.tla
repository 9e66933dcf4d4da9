------------------------------ MODULE Subcalls ------------------------------
(***************************************************************************)
(* The tree of RLMs that recursive sub-calls grow: RLM.Subcall of          *)
(* internal/rlm/orchestrator.go served by RLMHandler.SubcallBatched of     *)
(* internal/server/server.go.  Each node runs the loop of Completion.tla,  *)
(* reduced here to what its children see: a model call, code that asks for *)
(* sub-calls, the limit check.  One LM call costs one unit and one token,  *)
(* so spent[n] is both lmHandler totals of node n.                         *)
(***************************************************************************)
EXTENDS Integers, FiniteSets

CONSTANTS
  Nodes, Root, Parent, DepthOf, Below,  \* the sub-calls the code may make, as a tree
  MaxDepth, ScriptMaxDepth,   \* the RLM field, and the MAX_DEPTH EnvFactory gives the script
  MaxIterations, MaxConcurrentSubcalls,
  MaxBudget, MaxTokens, MaxTimeout, NoLimit,
  ClockBound                  \* bound: ticks of the clock

Limits == Int \cup {NoLimit}
Children(n) == {c \in Nodes \ {Root} : Parent[c] = n}

ASSUME TreeAssumption ==
  /\ Root \in Nodes /\ IsFiniteSet(Nodes)
  /\ Parent \in [Nodes \ {Root} -> Nodes]
  /\ DepthOf \in [Nodes -> Nat] /\ DepthOf[Root] = 0
  /\ \A c \in Nodes \ {Root} : DepthOf[c] = DepthOf[Parent[c]] + 1
  /\ Below \in [Nodes -> SUBSET Nodes]
  /\ \A n, c \in Nodes : c \in Below[n] <=> c = n \/ (c # Root /\ Parent[c] \in Below[n])
ASSUME SizesAssumption ==
  /\ MaxIterations \in Nat \ {0} /\ MaxConcurrentSubcalls \in Nat \ {0}
  /\ ClockBound \in Nat /\ MaxDepth \in Int /\ ScriptMaxDepth \in Int
ASSUME LimitsAssumption ==
  /\ NoLimit \notin Int
  /\ {MaxBudget, MaxTokens, MaxTimeout} \subseteq Limits

EffectiveDepth == IF MaxDepth <= 0 THEN 2 ELSE MaxDepth

VARIABLES
  phase,       \* where node n's goroutine is, from the sub-call to its response
  batch,       \* the batch, hence the errgroup, the sub-call n belongs to
  budget, timeout, tokens,    \* the MaxBudget, MaxTimeout and MaxTokens fields of n
  grant,       \* what Subcall read of the parent under its lock
  spent,       \* n's own LM calls, as its LMHandler counts them
  cumulative,  \* n's cumulativeCost
  started,     \* n's completionStartTime
  iteration,   \* n's iterations
  dead,        \* n's context is done
  answer,      \* what the sub-call n responds
  total,       \* ghost: what n and all below it have really spent
  now          \* the clock

vars == <<phase, batch, budget, timeout, tokens, grant, spent, cumulative, started, iteration,
          dead, answer, total, now>>
fields == <<budget, timeout, tokens>>
spending == <<spent, total>>

Phases == {"idle", "asked", "gated", "setup", "model", "exec", "limits", "adding", "done"}
Active == {"gated", "setup", "model", "exec", "limits", "adding"}
Pending == Active \cup {"asked"}
Running == {"setup", "model", "exec", "limits"}
Answers == {"none", "result", "lm", "refused", "failed"}
Exceeds(n, limit) == limit # NoLimit /\ n > limit
Exhausted(limit) == limit # NoLimit /\ limit <= 0
Less(limit, n) == IF limit = NoLimit THEN NoLimit ELSE limit - n

Init ==
  /\ phase = [n \in Nodes |-> IF n = Root THEN "setup" ELSE "idle"]
  /\ batch = [n \in Nodes |-> {n}]
  /\ budget = [n \in Nodes |-> IF n = Root THEN MaxBudget ELSE NoLimit]
  /\ timeout = [n \in Nodes |-> IF n = Root THEN MaxTimeout ELSE NoLimit]
  /\ tokens = [n \in Nodes |-> IF n = Root THEN MaxTokens ELSE NoLimit]
  /\ grant = [n \in Nodes |-> [budget |-> NoLimit, timeout |-> NoLimit]]
  /\ spent = [n \in Nodes |-> 0] /\ cumulative = [n \in Nodes |-> 0]
  /\ started = [n \in Nodes |-> 0] /\ iteration = [n \in Nodes |-> 0]
  /\ dead = [n \in Nodes |-> FALSE] /\ answer = [n \in Nodes |-> "none"]
  /\ total = [n \in Nodes |-> 0] /\ now = 0

MoveTo(n, p) == phase' = [phase EXCEPT ![n] = p]
Respond(c, a) == MoveTo(c, "done") /\ answer' = [answer EXCEPT ![c] = a]
TotalUp(n) == total' = [m \in Nodes |-> IF n \in Below[m] THEN total[m] + 1 ELSE total[m]]
Spend(n) == spent' = [spent EXCEPT ![n] = @ + 1] /\ TotalUp(n)

\* Code of n waits for the sub-calls it made, until they respond or their client gives up.
Waiting(n) == \E c \in Children(n) : phase[c] \in Pending /\ ~dead[c]

----------------------------------------------------------------------------
\* rlm_query and rlm_query_batched in the container: one batch at a time, a DEPTH one below n.
ScriptAtCap(n) == DepthOf[n] + 1 >= ScriptMaxDepth

Ask(n) ==
  /\ phase[n] = "exec" /\ ~Waiting(n) /\ ~ScriptAtCap(n)
  /\ \E asked \in SUBSET {c \in Children(n) : phase[c] = "idle"} :
       /\ asked # {}
       /\ phase' = [c \in Nodes |-> IF c \in asked THEN "asked" ELSE phase[c]]
       /\ batch' = [c \in Nodes |-> IF c \in asked THEN asked ELSE batch[c]]
  /\ UNCHANGED <<fields, grant, spending, cumulative, started, iteration, dead, answer, now>>

\* At MAX_DEPTH the script asks n's own LMHandler instead of the RLMService.
AskPlain(n) ==
  /\ phase[n] = "exec" /\ ~Waiting(n) /\ ScriptAtCap(n)
  /\ \E c \in Children(n) : phase[c] = "idle" /\ Respond(c, "lm")
  /\ Spend(n) \/ UNCHANGED spending
  /\ UNCHANGED <<batch, fields, grant, cumulative, started, iteration, dead, now>>

\* The errgroup of the batch has a free slot: Subcall reads the remaining limits under the lock.
FreeSlotOfAll(c) == Cardinality({d \in Nodes \ {Root} : phase[d] \in Active}) < MaxConcurrentSubcalls
FreeSlotOneMore(c) == Cardinality({d \in batch[c] : phase[d] \in Active}) <= MaxConcurrentSubcalls
FreeSlot(c) == Cardinality({d \in batch[c] : phase[d] \in Active}) < MaxConcurrentSubcalls
RemainingBudgetWhole(n) == budget[n]
RemainingBudget(n) == Less(budget[n], cumulative[n])
RemainingTimeout(n) == Less(timeout[n], now - started[n])

Gate(c) ==
  /\ phase[c] = "asked" /\ FreeSlot(c)
  /\ MoveTo(c, "gated")
  /\ grant' = [grant EXCEPT ![c] = [budget |-> RemainingBudget(Parent[c]),
                                    timeout |-> RemainingTimeout(Parent[c])]]
  /\ UNCHANGED <<batch, fields, spending, cumulative, started, iteration, dead, answer, now>>

AtCap(c) == DepthOf[c] >= EffectiveDepth
Exhausts(c) == Exhausted(grant[c].budget) \/ Exhausted(grant[c].timeout)

\* fallbackLMCall: a client of its own, whose usage no one adds up; a failure is a response too.
Fallback(c) ==
  /\ phase[c] = "gated" /\ AtCap(c)
  /\ (~dead[c] /\ TotalUp(c)) \/ UNCHANGED total
  /\ Respond(c, "lm")
  /\ UNCHANGED <<batch, fields, grant, spent, cumulative, started, iteration, dead, now>>

Refuse(c) ==
  /\ phase[c] = "gated" /\ ~AtCap(c) /\ Exhausts(c)
  /\ Respond(c, "refused")
  /\ UNCHANGED <<batch, fields, grant, spending, cumulative, started, iteration, dead, now>>

\* The child's fields: what remains of the budget and the time, and all of the token limit.
Spawn(c) ==
  /\ phase[c] = "gated" /\ ~AtCap(c) /\ ~Exhausts(c)
  /\ budget' = [budget EXCEPT ![c] = grant[c].budget]
  /\ timeout' = [timeout EXCEPT ![c] = grant[c].timeout]
  /\ tokens' = [tokens EXCEPT ![c] = tokens[Parent[c]]]
  /\ MoveTo(c, "setup")
  /\ UNCHANGED <<batch, grant, spending, cumulative, started, iteration, dead, answer, now>>

----------------------------------------------------------------------------
\* Completion of node n: the clock of its timeout starts when its container is up.
SetUp(n) ==
  /\ phase[n] = "setup"
  /\ started' = [started EXCEPT ![n] = now]
  /\ MoveTo(n, "model")
  /\ UNCHANGED <<batch, fields, grant, spending, cumulative, iteration, dead, answer, now>>

\* A timeout, a dead context and a failing LM are Fail.
ModelCall(n) ==
  /\ phase[n] = "model" /\ ~dead[n] /\ ~Exceeds(now - started[n], timeout[n])
  /\ Spend(n)
  /\ MoveTo(n, "exec")
  /\ UNCHANGED <<batch, fields, grant, cumulative, started, iteration, dead, answer, now>>

\* docker exec ends with the code, or at once under a dead context.
ExecReturn(n) ==
  /\ phase[n] = "exec" /\ (~Waiting(n) \/ dead[n])
  /\ MoveTo(n, "limits")
  /\ UNCHANGED <<batch, fields, grant, spending, cumulative, started, iteration, dead, answer, now>>

\* checkIterationLimits puts the handler's cost in the place of cumulativeCost.
StoreCostAdding(n) ==
  cumulative' = IF budget[n] = NoLimit THEN cumulative ELSE [cumulative EXCEPT ![n] = @ + spent[n]]
StoreRemaining(n) ==
  cumulative' = IF budget[n] = NoLimit THEN cumulative
                ELSE [cumulative EXCEPT ![n] = budget[n] - spent[n]]
StoreCost(n) ==
  cumulative' = IF budget[n] = NoLimit THEN cumulative ELSE [cumulative EXCEPT ![n] = spent[n]]
OverLimit(n) == Exceeds(spent[n], budget[n]) \/ Exceeds(spent[n], tokens[n])
LastIteration(n) == iteration[n] + 1 = MaxIterations

\* Completion returns a and stops n's server, which ends the contexts of the sub-calls in flight.
EndKeepsContexts(n, a) ==
  /\ MoveTo(n, IF n = Root THEN "done" ELSE "adding")
  /\ answer' = [answer EXCEPT ![n] = a]
  /\ UNCHANGED dead
End(n, a) ==
  /\ MoveTo(n, IF n = Root THEN "done" ELSE "adding")
  /\ answer' = [answer EXCEPT ![n] = a]
  /\ dead' = [c \in Nodes |-> dead[c] \/ (c \in Children(n) /\ phase[c] \in Pending)]

Continue(n) ==
  /\ phase[n] = "limits" /\ ~OverLimit(n) /\ ~LastIteration(n)
  /\ StoreCost(n)
  /\ iteration' = [iteration EXCEPT ![n] = @ + 1]
  /\ MoveTo(n, "model")
  /\ UNCHANGED <<batch, fields, grant, spending, started, dead, answer, now>>

\* A final answer, or after the last iteration one more LM call for the default answer.
Succeed(n) ==
  /\ phase[n] = "limits" /\ ~OverLimit(n)
  /\ StoreCost(n)
  /\ \/ UNCHANGED spending
     \/ LastIteration(n) /\ ~dead[n] /\ Spend(n)
  /\ End(n, "result")
  /\ UNCHANGED <<batch, fields, grant, started, iteration, now>>

\* An error: of the setup or the model, the timeout, the error threshold, a limit, the default answer.
Fail(n) ==
  /\ \/ phase[n] \in {"setup", "model", "limits"} /\ UNCHANGED cumulative
     \/ phase[n] = "limits" /\ (OverLimit(n) \/ LastIteration(n)) /\ StoreCost(n)
  /\ End(n, "failed")
  /\ UNCHANGED <<batch, fields, grant, spending, started, iteration, now>>

\* The tail of Subcall: a child that returned a result adds its handler's cost to the parent.
Add(c) ==
  /\ phase[c] = "adding"
  /\ cumulative' = IF answer[c] = "result"
                   THEN [cumulative EXCEPT ![Parent[c]] = @ + spent[c]] ELSE cumulative
  /\ Respond(c, answer[c])
  /\ UNCHANGED <<batch, fields, grant, spending, started, iteration, dead, now>>

\* The client's 600 s deadline for a batch, or the root's caller cancelling: the one who asked
\* goes on, the asked learn of it at their next use of their context.
GiveUp(c) ==
  /\ phase[c] \in Pending /\ ~dead[c]
  /\ dead' = [d \in Nodes |-> dead[d] \/ (d \in batch[c] /\ phase[d] \in Pending)]
  /\ UNCHANGED <<phase, batch, fields, grant, spending, cumulative, started, iteration, answer, now>>

Tick ==
  /\ now < ClockBound /\ now' = now + 1
  /\ UNCHANGED <<phase, batch, fields, grant, spending, cumulative, started, iteration, dead, answer>>

Loop(n) == SetUp(n) \/ ModelCall(n) \/ ExecReturn(n) \/ Continue(n) \/ Succeed(n) \/ Fail(n)
Serve(c) == Gate(c) \/ Fallback(c) \/ Refuse(c) \/ Spawn(c) \/ Add(c)
Step(n) == Loop(n) \/ (n # Root /\ Serve(n))

Next ==
  \/ \E n \in Nodes : Step(n) \/ Ask(n) \/ AskPlain(n) \/ GiveUp(n)
  \/ Tick

Spec == Init /\ [][Next]_vars

\* Every goroutine runs on, the LM answers or fails, and code in a container ends.
FairSpec == Spec /\ \A n \in Nodes : WF_vars(Step(n))

----------------------------------------------------------------------------
(* Properties *)

\* Every variable keeps its type.
TypeOK ==
  /\ phase \in [Nodes -> Phases] /\ batch \in [Nodes -> SUBSET Nodes]
  /\ budget \in [Nodes -> Limits] /\ timeout \in [Nodes -> Limits] /\ tokens \in [Nodes -> Limits]
  /\ grant \in [Nodes -> [budget : Limits, timeout : Limits]]
  /\ spent \in [Nodes -> Nat] /\ cumulative \in [Nodes -> Nat] /\ total \in [Nodes -> Nat]
  /\ started \in [Nodes -> Nat] /\ iteration \in [Nodes -> Nat] /\ now \in Nat
  /\ dead \in [Nodes -> BOOLEAN] /\ answer \in [Nodes -> Answers]

\* A child runs below the depth cap, inside its parent's budget and time, with some of each.  As
\* long as the parent's code waits for it, the child has what was left of them when Subcall read
\* them: no less than is left by now, and no more than the iterations behind the parent left.
AtMost(a, b) == IF b = NoLimit THEN a = NoLimit ELSE a # NoLimit /\ 0 < a /\ a <= b
RunsInside(c) ==
  /\ AtMost(budget[c], budget[Parent[c]]) /\ AtMost(timeout[c], timeout[Parent[c]])
  /\ DepthOf[c] < EffectiveDepth
Awaited(c) == phase[Parent[c]] = "exec" /\ ~dead[c]
LeftOf(n, b, t) ==
  /\ budget[n] # NoLimit => RemainingBudget(n) <= b /\ b <= budget[n] - iteration[n]
  /\ timeout[n] # NoLimit => RemainingTimeout(n) <= t
InheritsRemaining ==
  \A c \in Nodes \ {Root} : phase[c] \in Running =>
    /\ RunsInside(c)
    /\ Awaited(c) => LeftOf(Parent[c], budget[c], timeout[c])

\* What makes the first part inductive: a node's fields are settled before its code can ask for
\* sub-calls, and what Subcall read of the parent under its lock stays within the parent's fields.
Within(a, b) == IF b = NoLimit THEN a = NoLimit ELSE a # NoLimit /\ a <= b
Settled == Running \cup {"adding", "done"}
LimitsInv ==
  /\ \A n \in Nodes : started[n] <= now
  /\ \A c \in Nodes \ {Root} :
       /\ phase[c] # "idle" => phase[Parent[c]] \in Settled
       /\ phase[c] = "gated" => /\ Within(grant[c].budget, budget[Parent[c]])
                               /\ Within(grant[c].timeout, timeout[Parent[c]])
       /\ phase[c] \in Running => RunsInside(c)

\* And the second: each iteration behind a node has been paid for, a node goes on to its next
\* iteration without live sub-calls, and the grant itself is what was left.
CallsOf(n) == IF phase[n] \in {"exec", "limits"} THEN iteration[n] + 1 ELSE iteration[n]
CallsInv ==
  \A n \in Nodes :
    /\ CallsOf(n) <= spent[n]
    /\ phase[n] \in {"idle", "asked", "gated"} => iteration[n] = 0
    /\ budget[n] # NoLimit => iteration[n] <= cumulative[n]
AskedInv ==
  \A c \in Nodes \ {Root} :
    phase[c] \in Pending /\ ~dead[c] => phase[Parent[c]] = "exec" \/ dead[Parent[c]]
GrantInv ==
  \A c \in Nodes \ {Root} : Awaited(c) =>
    /\ phase[c] = "gated" => LeftOf(Parent[c], grant[c].budget, grant[c].timeout)
    /\ phase[c] \in Running => LeftOf(Parent[c], budget[c], timeout[c])
InheritInv == CallsInv /\ AskedInv /\ GrantInv

\* cumulativeCost never counts a unit twice: no sub-call is refused for money not spent, although
\* the limit check and the tails of sub-calls, late ones too, write it in any order.
NeverOvercharged == \A n \in Nodes : cumulative[n] <= total[n]

\* No sub-call outlives its parent's Completion with a live context.
NoLiveOrphan ==
  \A c \in Nodes \ {Root} : phase[c] \in Pending /\ phase[Parent[c]] \in {"adding", "done"} => dead[c]

\* A batch never has more sub-calls under way than MaxConcurrentSubcalls.
BatchBounded ==
  \A c \in Nodes : Cardinality({d \in batch[c] : phase[d] \in Active}) <= MaxConcurrentSubcalls

\* What makes it inductive: batches are disjoint, and a node not asked for is in one of its own.
BatchInv ==
  /\ \A c \in Nodes : c \in batch[c] /\ (phase[c] = "idle" => batch[c] = {c})
  /\ \A c, d \in Nodes : d \in batch[c] => batch[d] = batch[c]
  /\ BatchBounded

\* Every sub-call is answered in the end, with sub-calls of its own waiting for slots too: a batch
\* waits for its own slots only, so nested batches cannot starve one another.
EverySubcallResponds == \A c \in Nodes : phase[c] = "asked" ~> phase[c] = "done"

----------------------------------------------------------------------------
(* What documents of the repository say, and the code does not do *)

\* spec.md:81, RO-8: children inherit the remaining budget: what has been spent stays spent.
RemainingNeverGrows ==
  [][\A n \in Nodes : budget[n] # NoLimit /\ budget'[n] = budget[n]
                      => RemainingBudget(n)' <= RemainingBudget(n)]_vars
=============================================================================
