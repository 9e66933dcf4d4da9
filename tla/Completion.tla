----------------------------- MODULE Completion -----------------------------
(***************************************************************************)
(* One RLM value of internal/rlm/orchestrator.go serving Completion calls  *)
(* one after the other: setup with its deferred releases, the              *)
(* prompt-code-execute loop with its four limits, the default answer, and  *)
(* the unwinding of the defers on every return path.  The model, the       *)
(* container, the clock and the caller's cancellation are its environment. *)
(* Nothing here serves rlm_query: see Subcalls.tla, which also holds       *)
(* cumulativeCost, since only Subcall reads it.                            *)
(***************************************************************************)
EXTENDS Integers, Sequences

CONSTANTS
  Depths, MaxDepth, MaxIterations,    \* depths an RLM may have; its fields, before defaulting
  MaxErrors, MaxBudget, MaxTokens, MaxTimeout,  \* the *limits, or NoLimit
  NoLimit,
  Answers,         \* non-empty answers code can submit
  NoAnswer,        \* the empty string: no answer, blank response, no partial
  CallUsage,       \* [cost, tokens] records one LM call may add
  MaxBlocks,       \* bound: repl blocks in a response
  CallsBound,      \* bound: Completion calls on the same RLM
  ElapsedBound,    \* bound: clock ticks in a call
  TokensBound      \* bound: tokens after which code in the container stops asking

Limits == Nat \cup {NoLimit}
Usage == [cost : Nat, tokens : Nat]

ASSUME FieldsAssumption == Depths \subseteq Nat /\ {MaxDepth, MaxIterations} \subseteq Int
ASSUME LimitsAssumption ==
  /\ {MaxErrors, MaxBudget, MaxTokens, MaxTimeout} \subseteq Limits
  /\ NoLimit \notin Nat
ASSUME AnswersAssumption == NoAnswer \notin Answers
ASSUME UsageAssumption == CallUsage \subseteq Usage
ASSUME BoundsAssumption == {MaxBlocks, CallsBound, ElapsedBound, TokensBound} \subseteq Nat

OrDefault(n, default) == IF n <= 0 THEN default ELSE n
EffectiveDepth == OrDefault(MaxDepth, 2)
Iterations == OrDefault(MaxIterations, 30)

VARIABLES
  depth,              \* the RLM's own depth, fixed when it is made
  pc,                 \* where the calling goroutine is in Completion
  calls,              \* Completion calls begun on this RLM
  cancelled,          \* the caller's context is done
  deferred,           \* the defer stack, latest last
  server,             \* the gRPC server serves
  workspace,          \* this call's temp directory: none, made, or left where RemoveAll failed
  container,          \* docker's view of this call's container
  executing,          \* the exec script runs in the container
  elapsed,            \* ticks since completionStartTime
  iteration,          \* the loop variable i
  turn,               \* the RLMIteration being built, and its blocks left
  consecutiveErrors, bestPartialAnswer,   \* the RLM's tracking fields
  usage,              \* lmHandler.GetUsageSummary(), totalled
  outcome,            \* the return value
  history             \* ghost: the iterations completed in this call

vars == <<depth, pc, calls, cancelled, deferred, server, workspace, container, executing,
          elapsed, iteration, turn, consecutiveErrors, bestPartialAnswer, usage,
          outcome, history>>
resources == <<deferred, server, workspace, container>>
tracking == <<consecutiveErrors, bestPartialAnswer>>
loop == <<iteration, turn, history>>

\* A response is identified by the call and the turn it belongs to, all but the blank one.
Responses == (Nat \X Nat) \cup {NoAnswer}
FinalAnswers == Answers \cup {NoAnswer}
EmptyTurn == [response |-> NoAnswer, blocks |-> 0, results |-> <<>>]
Results == [failed : BOOLEAN, answer : FinalAnswers]
Turns == [response : Responses, blocks : Nat, results : Seq(Results)]
Zero == [cost |-> 0, tokens |-> 0]
Plus(u, v) == [cost |-> u.cost + v.cost, tokens |-> u.tokens + v.tokens]
LimitKinds == {"timeout", "errors", "budget", "tokens"}
OutcomeKinds == LimitKinds \cup {"pending", "fallback", "failed", "answer", "default"}
Outcomes == [kind : OutcomeKinds, answer : FinalAnswers \cup Responses]
Outcome(kind, answer) == [kind |-> kind, answer |-> answer]
Pending == Outcome("pending", NoAnswer)
Exceeds(n, limit) == limit # NoLimit /\ n > limit
Looping == pc \in {"check", "model", "exec", "running", "default"}
AtCap == depth >= EffectiveDepth
InCall == pc \notin {"idle", "returned"}

Init ==
  /\ depth \in Depths
  /\ pc = "idle" /\ calls = 0 /\ cancelled = FALSE
  /\ deferred = <<>> /\ server = FALSE /\ workspace = "none" /\ container = "none"
  /\ executing = FALSE
  /\ elapsed = 0 /\ iteration = 0 /\ turn = EmptyTurn
  /\ consecutiveErrors = 0 /\ bestPartialAnswer = NoAnswer
  /\ usage = Zero /\ outcome = Pending /\ history = <<>>

\* Every return statement after the defers were pushed: run them, then return.
ReturnWith(kind, answer) == pc' = "unwinding" /\ outcome' = Outcome(kind, answer)

----------------------------------------------------------------------------
\* A call begins: the depth check, then resetTracking when a loop will run.
ResetTrackingKeepsPartial == consecutiveErrors' = 0 /\ UNCHANGED bestPartialAnswer
ResetTracking == consecutiveErrors' = 0 /\ bestPartialAnswer' = NoAnswer

Begin ==
  /\ ~InCall /\ calls < CallsBound
  /\ calls' = calls + 1 /\ cancelled' = FALSE
  /\ workspace' = "none" /\ container' = "none" /\ executing' = FALSE /\ usage' = Zero
  /\ elapsed' = 0 /\ iteration' = 0 /\ turn' = EmptyTurn /\ history' = <<>>
  /\ outcome' = Pending
  /\ IF AtCap
       THEN pc' = "fallback" /\ UNCHANGED tracking
       ELSE pc' = "client" /\ ResetTracking
  /\ UNCHANGED <<depth, deferred, server>>

\* fallbackAnswer: a plain LM call at the recursion cap.
Fallback ==
  /\ pc = "fallback"
  /\ \/ ~cancelled /\ ReturnWith("fallback", NoAnswer)
        /\ \E u \in CallUsage : usage' = Plus(usage, u)
     \/ ReturnWith("failed", NoAnswer) /\ UNCHANGED usage
  /\ UNCHANGED <<depth, calls, cancelled, resources, executing, elapsed, loop, tracking>>

NewClient ==
  /\ pc = "client"
  /\ \/ pc' = "services" /\ UNCHANGED outcome
     \/ ReturnWith("failed", NoAnswer)
  /\ UNCHANGED <<depth, calls, cancelled, resources, executing, elapsed, loop, tracking, usage>>

StartServices ==
  /\ pc = "services"
  /\ \/ /\ pc' = "workspace" /\ server' = TRUE
        /\ deferred' = Append(deferred, "stopServer") /\ UNCHANGED outcome
     \/ ReturnWith("failed", NoAnswer) /\ UNCHANGED <<server, deferred>>
  /\ UNCHANGED <<depth, calls, cancelled, workspace, container, executing, elapsed, loop,
                 tracking, usage>>

MakeWorkspace ==
  /\ pc = "workspace"
  /\ \/ pc' = "environment" /\ workspace' = "made" /\ UNCHANGED outcome
     \/ ReturnWith("failed", NoAnswer) /\ UNCHANGED workspace
  /\ UNCHANGED <<depth, calls, cancelled, deferred, server, container, executing, elapsed, loop,
                 tracking, usage>>

\* os.RemoveAll may fail, and both its callers go on: what the container wrote as root, say.
RemoveAll == workspace' \in {"none", "left"}

\* EnvFactory starts the container under context.Background(): ctx plays no part.
NewEnvironmentKeepsDirectory ==
  /\ pc = "environment"
  /\ \/ /\ pc' = "context" /\ container' = "up"
        /\ deferred' = Append(deferred, "cleanup") /\ UNCHANGED outcome
     \/ ReturnWith("failed", NoAnswer) /\ UNCHANGED <<container, deferred>>
  /\ UNCHANGED <<depth, calls, cancelled, server, workspace, executing, elapsed, loop, tracking,
                 usage>>

NewEnvironment ==
  /\ pc = "environment"
  /\ \/ /\ pc' = "context" /\ container' = "up"
        /\ deferred' = Append(deferred, "cleanup") /\ UNCHANGED <<workspace, outcome>>
     \/ ReturnWith("failed", NoAnswer) /\ RemoveAll /\ UNCHANGED <<container, deferred>>
  /\ UNCHANGED <<depth, calls, cancelled, server, executing, elapsed, loop, tracking, usage>>

\* LoadContext, NewQueryMetadata and buildInitialMessages, then setStartTime.
LoadContext ==
  /\ pc = "context"
  /\ \/ pc' = "check" /\ elapsed' = 0 /\ UNCHANGED outcome
     \/ ReturnWith("failed", NoAnswer) /\ UNCHANGED elapsed
  /\ UNCHANGED <<depth, calls, cancelled, resources, executing, loop, tracking, usage>>

----------------------------------------------------------------------------
\* checkTimeout, at the top of the loop and nowhere else.
CheckTimeout ==
  /\ pc = "check"
  /\ IF Exceeds(elapsed, MaxTimeout)
       THEN ReturnWith("timeout", bestPartialAnswer)
       ELSE pc' = "model" /\ UNCHANGED outcome
  /\ UNCHANGED <<depth, calls, cancelled, resources, executing, elapsed, loop, tracking, usage>>

\* completionTurn's LM call: a blank response has no code blocks.
ModelReply ==
  /\ pc = "model" /\ ~cancelled
  /\ \E u \in CallUsage, b \in 0..MaxBlocks :
       /\ usage' = Plus(usage, u)
       /\ \/ turn' = [response |-> <<calls, iteration>>, blocks |-> b, results |-> <<>>]
          \/ b = 0 /\ turn' = EmptyTurn
  /\ pc' = "exec"
  /\ UNCHANGED <<depth, calls, cancelled, resources, executing, elapsed, iteration, tracking,
                 outcome, history>>

ModelError ==
  /\ pc = "model"
  /\ ReturnWith("failed", NoAnswer)
  /\ UNCHANGED <<depth, calls, cancelled, resources, executing, elapsed, loop, tracking, usage>>

\* A block's result joins the turn; failed stands for a non-blank stderr.
Record(failed, answer) ==
  turn' = [turn EXCEPT !.blocks = @ - 1,
                       !.results = Append(@, [failed |-> failed, answer |-> answer])]

StartExecIgnoresContext ==
  /\ pc = "exec" /\ turn.blocks > 0
  /\ pc' = "running" /\ executing' = TRUE
  /\ UNCHANGED <<depth, calls, cancelled, resources, elapsed, loop, tracking, usage, outcome>>

StartExecUnguarded ==
  /\ pc = "exec" /\ ~cancelled
  /\ pc' = "running" /\ executing' = TRUE
  /\ UNCHANGED <<depth, calls, cancelled, resources, elapsed, loop, tracking, usage, outcome>>

StartExec ==
  /\ pc = "exec" /\ turn.blocks > 0 /\ ~cancelled
  /\ pc' = "running" /\ executing' = TRUE
  /\ UNCHANGED <<depth, calls, cancelled, resources, elapsed, loop, tracking, usage, outcome>>

\* exec.CommandContext starts nothing under a context that is done.
ExecRefusedRetries ==
  /\ pc = "exec" /\ turn.blocks > 0 /\ cancelled
  /\ UNCHANGED vars

ExecRefused ==
  /\ pc = "exec" /\ turn.blocks > 0 /\ cancelled
  /\ Record(TRUE, NoAnswer)
  /\ UNCHANGED <<pc, depth, calls, cancelled, resources, executing, elapsed, iteration, history,
                 tracking, usage, outcome>>

ExecReturn ==
  /\ pc = "running"
  /\ \E failed \in BOOLEAN, answer \in FinalAnswers : Record(failed, answer)
  /\ pc' = "exec" /\ executing' = FALSE
  /\ UNCHANGED <<depth, calls, cancelled, resources, elapsed, iteration, history, tracking, usage,
                 outcome>>

\* The docker client is killed; what it started in the container is not.
ExecAborted ==
  /\ pc = "running" /\ cancelled
  /\ Record(TRUE, NoAnswer)
  /\ pc' = "exec"
  /\ UNCHANGED <<depth, calls, cancelled, resources, executing, elapsed, iteration, history,
                 tracking, usage, outcome>>

----------------------------------------------------------------------------
\* checkIterationLimits and what the loop does with its verdict.
TurnDone == pc = "exec" /\ turn.blocks = 0
HadError(t) == \E k \in DOMAIN t.results : t.results[k].failed
Submits(t, k) == t.results[k].answer # NoAnswer
Submitted(t) == \E k \in DOMAIN t.results : Submits(t, k)
FinalAnswerOfLastBlock(t) ==
  t.results[CHOOSE k \in DOMAIN t.results :
              Submits(t, k) /\ \A j \in DOMAIN t.results : j > k => ~Submits(t, j)].answer
FinalAnswer(t) ==
  t.results[CHOOSE k \in DOMAIN t.results :
              Submits(t, k) /\ \A j \in 1..(k - 1) : ~Submits(t, j)].answer
ErrorCountNeverReset == IF HadError(turn) THEN consecutiveErrors + 1 ELSE consecutiveErrors
ErrorCount == IF HadError(turn) THEN consecutiveErrors + 1 ELSE 0
ErrorsReached(n) == MaxErrors # NoLimit /\ n >= MaxErrors
LimitHitNoTokens(n) ==
  IF ErrorsReached(n) THEN "errors"
  ELSE IF Exceeds(usage.cost, MaxBudget) THEN "budget"
  ELSE "none"
LimitHit(n) ==
  IF ErrorsReached(n) THEN "errors"
  ELSE IF Exceeds(usage.cost, MaxBudget) THEN "budget"
  ELSE IF Exceeds(usage.tokens, MaxTokens) THEN "tokens"
  ELSE "none"
CloseTurn == consecutiveErrors' = ErrorCount /\ history' = Append(history, turn)

StopAtLimit ==
  /\ TurnDone /\ LimitHit(ErrorCount) # "none"
  /\ CloseTurn
  /\ ReturnWith(LimitHit(ErrorCount), bestPartialAnswer)
  /\ UNCHANGED <<depth, calls, cancelled, resources, executing, elapsed, iteration, turn,
                 bestPartialAnswer, usage>>

SubmitAnswer ==
  /\ TurnDone /\ LimitHit(ErrorCount) = "none" /\ Submitted(turn)
  /\ CloseTurn
  /\ ReturnWith("answer", FinalAnswer(turn))
  /\ UNCHANGED <<depth, calls, cancelled, resources, executing, elapsed, iteration, turn,
                 bestPartialAnswer, usage>>

UpdateBestPartial(response) ==
  bestPartialAnswer' = IF response # NoAnswer THEN response ELSE bestPartialAnswer

NextIterationOneMore ==
  /\ TurnDone /\ LimitHit(ErrorCount) = "none" /\ ~Submitted(turn)
  /\ CloseTurn
  /\ UpdateBestPartial(turn.response)
  /\ iteration' = iteration + 1 /\ turn' = EmptyTurn
  /\ pc' = IF iteration < Iterations THEN "check" ELSE "default"
  /\ UNCHANGED <<depth, calls, cancelled, resources, executing, elapsed, usage, outcome>>

NextIteration ==
  /\ TurnDone /\ LimitHit(ErrorCount) = "none" /\ ~Submitted(turn)
  /\ CloseTurn
  /\ UpdateBestPartial(turn.response)
  /\ iteration' = iteration + 1 /\ turn' = EmptyTurn
  /\ pc' = IF iteration + 1 < Iterations THEN "check" ELSE "default"
  /\ UNCHANGED <<depth, calls, cancelled, resources, executing, elapsed, usage, outcome>>

\* One more LM call once the iterations are used up; no limit is checked after it.
DefaultAnswer ==
  /\ pc = "default"
  /\ \/ ~cancelled /\ ReturnWith("default", NoAnswer)
        /\ \E u \in CallUsage : usage' = Plus(usage, u)
     \/ ReturnWith("failed", NoAnswer) /\ UNCHANGED usage
  /\ UNCHANGED <<depth, calls, cancelled, resources, executing, elapsed, loop, tracking>>

----------------------------------------------------------------------------
\* The defers run last in, first out.
PopDeferredFirst(name) ==
  /\ pc = "unwinding" /\ deferred # <<>> /\ deferred[1] = name
  /\ deferred' = SubSeq(deferred, 2, Len(deferred))
PopDeferred(name) ==
  /\ pc = "unwinding" /\ deferred # <<>> /\ deferred[Len(deferred)] = name
  /\ deferred' = SubSeq(deferred, 1, Len(deferred) - 1)

\* env.Cleanup(ctx): docker stop runs only under a live ctx, RemoveAll under any.
CleanupNeverStops ==
  /\ PopDeferred("cleanup")
  /\ container' = "orphaned"
  /\ RemoveAll
  /\ UNCHANGED <<pc, depth, calls, cancelled, server, executing, elapsed, loop, tracking, usage,
                 outcome>>

Cleanup ==
  /\ PopDeferred("cleanup")
  /\ container' = IF cancelled THEN "orphaned" ELSE "stopped"
  /\ executing' = (executing /\ cancelled)
  /\ RemoveAll
  /\ UNCHANGED <<pc, depth, calls, cancelled, server, elapsed, loop, tracking, usage, outcome>>

StopServer ==
  /\ PopDeferred("stopServer")
  /\ server' = FALSE
  /\ UNCHANGED <<pc, depth, calls, cancelled, workspace, container, executing, elapsed, loop,
                 tracking, usage, outcome>>

Return ==
  /\ pc = "unwinding" /\ deferred = <<>>
  /\ pc' = "returned"
  /\ UNCHANGED <<depth, calls, cancelled, resources, executing, elapsed, loop, tracking, usage,
                 outcome>>

----------------------------------------------------------------------------
\* The environment: code in the container asks the LMHandler, time passes, the caller gives up.
ContainerQuery ==
  /\ executing /\ server /\ usage.tokens < TokensBound
  /\ \E u \in CallUsage : usage' = Plus(usage, u)
  /\ UNCHANGED <<pc, depth, calls, cancelled, resources, executing, elapsed, loop, tracking,
                 outcome>>

Tick ==
  /\ InCall /\ elapsed < ElapsedBound
  /\ elapsed' = elapsed + 1
  /\ UNCHANGED <<pc, depth, calls, cancelled, resources, executing, loop, tracking, usage, outcome>>

Cancel ==
  /\ InCall /\ ~cancelled
  /\ cancelled' = TRUE
  /\ UNCHANGED <<pc, depth, calls, resources, executing, elapsed, loop, tracking, usage, outcome>>

Setup == NewClient \/ StartServices \/ MakeWorkspace \/ NewEnvironment \/ LoadContext
Turn == CheckTimeout \/ ModelReply \/ ModelError \/ StartExec \/ ExecRefused \/ ExecAborted
Finish == StopAtLimit \/ SubmitAnswer \/ NextIteration \/ DefaultAnswer
Unwind == Cleanup \/ StopServer \/ Return
Host == Fallback \/ Setup \/ Turn \/ Finish \/ Unwind

Next == Begin \/ Host \/ ExecReturn \/ ContainerQuery \/ Tick \/ Cancel

Spec == Init /\ [][Next]_vars

\* The goroutine keeps running, the LM answers or fails, and code in the container ends.
FairSpec == Spec /\ WF_vars(Host \/ ExecReturn)

----------------------------------------------------------------------------
(* Properties *)

\* Every variable keeps its type.
TypeOK ==
  /\ depth \in Depths
  /\ pc \in {"idle", "fallback", "client", "services", "workspace", "environment", "context",
            "check", "model", "exec", "running", "default", "unwinding", "returned"}
  /\ calls \in Nat /\ elapsed \in Nat /\ iteration \in Nat /\ consecutiveErrors \in Nat
  /\ cancelled \in BOOLEAN /\ server \in BOOLEAN /\ executing \in BOOLEAN
  /\ workspace \in {"none", "made", "left"}
  /\ deferred \in Seq({"stopServer", "cleanup"})
  /\ container \in {"none", "up", "stopped", "orphaned"}
  /\ turn \in Turns /\ history \in Seq(Turns)
  /\ bestPartialAnswer \in Responses
  /\ usage \in Usage
  /\ outcome \in Outcomes

\* TypeOK with what makes it inductive: a block that runs is still to be counted off.
TypeInv == TypeOK /\ (pc = "running" => turn.blocks > 0)

\* Whichever of its dozen returns a call takes, it leaves no server behind, no directory it has
\* not tried to remove, and no running container unless its context was done by the time
\* Cleanup ran.
ReleasedOnReturn ==
  ~InCall =>
    /\ ~server /\ workspace # "made" /\ deferred = <<>>
    /\ container \in IF cancelled THEN {"none", "stopped", "orphaned"} ELSE {"none", "stopped"}

\* The container is never up without the server it calls and the directory it mounts:
\* the order of the defers, seen by code that still runs in the container.
ServedWhileUp ==
  /\ container = "up" => server /\ workspace = "made"
  /\ executing => container \in {"up", "orphaned"}
  /\ Looping => container = "up"

\* What makes the two inductive: the defer stack mirrors the resources, and the point the call
\* has reached fixes both until it unwinds.
BothDeferred == <<"stopServer", "cleanup">>
ScopeInv ==
  /\ deferred \in {<<>>, <<"stopServer">>, BothDeferred}
  /\ server <=> deferred # <<>>
  /\ container = "up" <=> deferred = BothDeferred
  /\ workspace = "made" <=> pc = "environment" \/ container = "up"
  /\ workspace = "left" => pc \in {"unwinding", "returned"}
  /\ container \in {"stopped", "orphaned"} => pc \in {"unwinding", "returned"}
  /\ container = "orphaned" => cancelled
  /\ executing => container \in {"up", "orphaned"}
  /\ pc \in {"idle", "fallback", "client", "services", "returned"} => deferred = <<>>
  /\ pc \in {"workspace", "environment"} => deferred = <<"stopServer">>
  /\ pc = "context" \/ Looping => container = "up"

\* consecutiveErrors is the length of the run of failing iterations that ends the history
\* of this call (not of an earlier one), and the loop goes on only while it is below MaxErrors.
Streak(n, h) ==
  /\ n <= Len(h)
  /\ \A k \in 1..Len(h) : k > Len(h) - n => HadError(h[k])
  /\ n < Len(h) => ~HadError(h[Len(h) - n])
ErrorStreak ==
  /\ Looping \/ outcome.kind \in {"errors", "answer"} => Streak(consecutiveErrors, history)
  /\ Looping => ~ErrorsReached(consecutiveErrors) \/ history = <<>>
  /\ outcome.kind = "errors" => ErrorsReached(consecutiveErrors)

\* The host asks the model again only within the budget and the token limit: it overspends by
\* at most what one iteration, with the code it ran, costs.
SpendingGatesModelCalls ==
  pc \in {"check", "model", "default"} /\ history # <<>> /\ ~executing =>
    ~Exceeds(usage.cost, MaxBudget) /\ ~Exceeds(usage.tokens, MaxTokens)

\* The first answer any code block of the call submits is the one returned, unless that very
\* iteration hits a limit: no later block, iteration, failure or cancellation replaces it.
FirstAnswerReturned ==
  \A i \in DOMAIN history : \A k \in DOMAIN history[i].results :
    Submits(history[i], k) /\ (\A j \in 1..(k - 1) : ~Submits(history[i], j)) =>
      /\ i = Len(history)
      /\ \/ outcome = Outcome("answer", history[i].results[k].answer)
         \/ outcome.kind \in LimitKinds

\* The partial answer of a limit error is never a response of an earlier call on the same RLM,
\* whose field it is; and a deadline's is the last non-blank response of all this call got.
Latest(h, n, r) ==
  \/ r = NoAnswer /\ \A k \in 1..n : h[k].response = NoAnswer
  \/ \E k \in 1..n : /\ r = h[k].response /\ r # NoAnswer
                     /\ \A j \in (k + 1)..n : h[j].response = NoAnswer
PartialIsCurrent ==
  outcome.kind \in LimitKinds =>
    /\ outcome.answer # NoAnswer => \E k \in DOMAIN history : outcome.answer = history[k].response
    /\ outcome.kind = "timeout" => Latest(history, Len(history), outcome.answer)

\* The default answer is asked for after exactly MaxIterations iterations, none of which
\* submitted an answer.
DefaultAfterAllIterations ==
  pc = "default" \/ outcome.kind = "default" =>
    Len(history) = Iterations /\ \A k \in DOMAIN history : ~Submitted(history[k])

\* Two processes of one call never run at once, and so never write its state file at once: one
\* that a cancelled docker exec left behind in the container is the last one started there.
OneProcessAtATime == [][pc # "running" /\ pc' = "running" => ~executing]_vars

\* Every call returns, if the model answers or fails and code in the container ends.
CallReturns == InCall ~> ~InCall

----------------------------------------------------------------------------
(* What documents and comments of the repository say, and the code does not do *)

\* spec.md:193, DR-7: Cleanup stops and removes the container.
CleanupStopsContainer == container # "orphaned"

\* types.go:85, LimitError: it "carries the best partial answer available when the limit was
\* reached", the response of the iteration that reached it included.
PartialIsBest ==
  outcome.kind \in LimitKinds => Latest(history, Len(history), outcome.answer)

\* The promise of the defers, stated without the program: see ScopedCall.tla.
Held == (IF server THEN <<"server">> ELSE <<>>)
        \o (IF workspace = "made" THEN <<"workspace">> ELSE <<>>)
        \o (IF container = "up" THEN <<"container">> ELSE <<>>)
Lost == (IF container = "orphaned" THEN {"container"} ELSE {})
        \cup (IF workspace = "left" THEN {"workspace"} ELSE {})
Phase == IF ~InCall THEN "idle"
         ELSE IF pc = "unwinding" THEN "closing" ELSE "active"
Scoped == INSTANCE ScopedCall WITH phase <- Phase, held <- Held, lost <- Lost
Implements == Scoped!Spec
=============================================================================
