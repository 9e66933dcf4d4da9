# golang-rlm: TLA+ models, checks and proofs

This directory is a verification project for the Recursive Language Model
runtime of this repository: a Go host (`internal/rlm`, `internal/server`,
`internal/environment`, `internal/client`) that asks a language model for Python
code, runs the code in a Docker container, and lets that code ask the host back
for LM answers (`llm_query`) and for whole recursive runs (`rlm_query`).

Paths below are relative to the repository's root.

## Inventory

| Component | Source | State it keeps | Operations |
|---|---|---|---|
| RLM completion loop | `internal/rlm/orchestrator.go` | the RLM fields (limits, depth), its tracking fields (`consecutiveErrors`, `bestPartialAnswer`, `cumulativeCost`, `completionStartTime`, under one mutex), the defer stack of a call | `Completion`, `Subcall`, their helpers |
| LM handler | `internal/rlm/handler.go` | default client, other backend, registry, under an RWMutex | `Complete`, `CompleteBatched`, `GetUsage`, `RegisterClient`, `Start`, `Stop` |
| Clients | `internal/client` | per-client usage, in all and of the last call, under a mutex | `Completion`, `GetUsageSummary`, `GetLastUsage` |
| gRPC server | `internal/server/server.go` | listener, handlers in flight, an errgroup per batch | `RegisterAndStart`, `Serve`, `Stop`, the two services' calls and batches |
| Docker REPL | `internal/environment/docker.go` | container id, workspace directory | `Setup`, `LoadContext`, `ExecuteCode`, `Cleanup` |
| Exec script | `internal/environment/execscript.go` | the dill state file; a process per block | load, run, save, report; `llm_query*`, `rlm_query*` |
| Iterations and prompts | `internal/rlm/iteration.go`, `internal/prompt` | none | parsing, formatting, metadata |
| Types | `internal/types` | none | totals of usage, `LimitError` |
| Public API, CLI, logger | `pkg/rlm`, `cmd/rlm`, `internal/logger` | configuration | construction, printing |

How they interact. `Completion` starts a gRPC server with two services, a
container, and a workspace, then loops: it calls the model *in process* through
its client, and the container through `docker exec`. The code in the container
calls the LM service or the RLM service over gRPC; the RLM service calls
`Subcall` on the RLM whose loop is waiting for that very code, which runs a
child's `Completion` to its end. So a tree of loops is alive at once: each node
blocked in `docker exec` on its children, its mutex-protected fields written by
its own loop and by the tails of its children's sub-calls, its client's usage
written by the loop and by every `llm_query` of its code.

What is hard about it:

- *Release on every path*: seven setup steps, each of which may fail, a loop
  with nine ways out, cancellation at any point, and defers that use the
  context that may be done.
- *Four limits*, checked in a fixed order at one place (and the deadline at
  another), before the answer of the same iteration is looked at.
- *Shared budget*: remaining limits are read under a lock, used after it, and
  the same counter is overwritten by the loop and added to by children.
- *The server's goroutine*: the port is handed out before a goroutine serves it;
  `Stop` may overtake it, and the handlers of calls that came in before.
- *Batches*: bounded errgroups, nested; failures that must stay with their item;
  a client (the script) that gives up after 600 s while the handler goes on.
- *Usage* read back in a second step after the client's mutex is released.
- *Session state* across processes that may raise, exit, or be killed while the
  state file is being rewritten, in a container that may die.

What makes each part correct:

- Loop: everything started is released, in reverse order, on every return; the
  container runs only while its server serves; counters and partial answers are
  those of this call; the first submitted answer is the one returned; the model
  is never asked again past a spending limit; every call returns.
- Sub-calls: a child gets what its parent has left; nothing is charged twice;
  no child outlives its parent with a live context; a batch keeps to its slots;
  every sub-call is answered.
- Server: each port is served by the server made for it; nothing listens once the
  call has returned; no late handler has a live context; responses stand in the
  places of their prompts; every caller hears, be it that the server is gone.
- LM handler: a failing prompt fails alone; every completion is counted once; a
  usage summary is neither ahead of the spending nor older than its request, and
  its cost is that of the names all of whose clients report costs; every batch is
  answered.
- REPL: a block starts from the last completed save, or from nothing when a later
  one was cut off, until `Cleanup`, after which nothing is left; the report carries
  the answer as the code left it, and every call that was answered.
- Turns: the code that runs is the code the model wrote; in the history each
  response is followed by the outputs of its own blocks; of every query that returns
  code is told one thing of each prompt.

## Modules

| Module | What it models |
|---|---|
| `Completion.tla` | one RLM value serving calls one after the other, in full control detail |
| `ScopedCall.tla` | abstract specification of a call: it acquires, runs, releases, returns; `Completion` implements it |
| `CompletionProofs.tla` | theorems about `Completion`: types, release of what was started, the counters, limits and answers of its loop |
| `ScopedCallProofs.tla` | the theorem that `Completion` implements `ScopedCall` |
| `Subcalls.tla` | the tree of RLMs: budgets, deadlines, batches, cancellation, late tails |
| `SubcallsProofs.tla` | theorems about `Subcalls` |
| `Sums.tla` | lemmas about the sum of a function over a finite set, for the two modules that count costs |
| `LMHandler.tla` | routing, batches, per-client usage and costs, usage summaries |
| `BatchedCall.tla` | abstract specification of what a service promises of the prompts sent to it; `LMHandler` implements it |
| `LMHandlerProofs.tla` | theorems about `LMHandler` |
| `Services.tla` | the gRPC server of a call: start, stop, the requests between |
| `ServicesProofs.tla` | theorems about `Services` |
| `ReplSession.tla` | a REPL over its life: container, workspace, state file, blocks |
| `ReplSessionProofs.tla` | theorems about `ReplSession` |
| `ReplBlocks.tla` | `FindCodeBlocks` on lines, and the documents that are its reference |
| `Turn.tla` | what travels in a turn: blocks, queries, the report of a block, the messages of the next turn |
| `TurnProofs.tla` | theorems about `Turn` and `ReplBlocks` |
| `PublicApi.tla` | `pkg/rlm`: defaults, options and the depth cap handed to containers, from which the instances take their limits |
| `MC*.tla` | constants for TLC: trees, usage records, prompts, names |

### Completion

`pc` is the place of the calling goroutine in `Completion`: `client`,
`services`, `workspace`, `environment`, `context` are the setup steps; `check`,
`model`, `exec`, `running`, `default` the loop; `unwinding` any return statement
until the defers have run. One action per step of the code. `depth` is chosen in
the initial state: a call below the recursion cap, or one at it. The defer stack is
data (`deferred`), so a return is one operator and the order of release is what
the stack gives. The environment is `Cancel` (the caller's context), `Tick` (the
clock), `ContainerQuery` (an `llm_query` of the running block, which spends), and
`ExecReturn` (the block ends, with or without stderr, with or without an
answer). `checkIterationLimits` is folded into the three actions that end a
turn (`StopAtLimit`, `SubmitAnswer`, `NextIteration`) because the code runs it
and acts on its verdict without giving up control.

`container` is docker's view: `docker stop` is started only under a context that
is not done (`exec.CommandContext`), so a cancelled call makes it `orphaned`.
`docker stop` under a live context is assumed to succeed. `os.RemoveAll` is not: the
code in the container runs as root, and what it wrote the host's user may not be
able to remove. `Cleanup` and `NewDockerREPL` then go on, and forget the directory
(`docker.go:363-367`): `workspace` is `left`, which `ReleasedOnReturn` and
`ScopedCall` allow on any path, where they allow the loss of a container only to a
cancelled call. A `docker exec` that is
cut off leaves its process running in the container (`executing`).
`cumulativeCost` is not here: only `Subcall` reads it. What a block and a model
call spend comes from `CallUsage`; how a summary prices it, or does not, is in
`LMHandler`.

### Subcalls

Nodes are the sub-calls code may make, as a constant tree; a node is used once.
`phase[n]` is where its goroutine is, from the script's request (`asked`) through
the errgroup's slot and the read under the lock (`gated`), the child's loop
(`setup`, `model`, `exec`, `limits`), the tail of `Subcall` (`adding`) to the
response (`done`). The loop is Completion's, reduced to what children see; one LM
call costs one unit and one token. A node asks for one batch at a time: Python
threads, or a script that its host has given up and that asks on, are outside the
model. `Gate` reads what remains into `grant`;
`Refuse`, `Fallback` and `Spawn` use it in a later step, as the code does after
unlocking. `End` is `srv.Stop()`: contexts of handlers in flight are done, the
handlers themselves go on to their own end (`dead`, still not `done`), so a late
`Add` may meet a parent that returned. `GiveUp` is the script's 600 s deadline.

### LMHandler

An item is a prompt; `BatchOf` groups items in calls. `Go` is the errgroup's
loop (items start in order when a slot is free), `Route` is `promptFromRequest`
and `GetClient`, `Completion` the LM's answer with `recordUsage` under the
client's mutex, `RespondContent` the second look at the client (`GetLastUsage`).
`BeginReport` and `MergeUsage` are `GetUsageSummary`, which reads one client after
another while holding the handler's lock against `RegisterClient`, which puts
a client under a name, or another one in its place (`Registrable`); the summary of a
client that was replaced is lost with it, so what a summary owes is counted over the
clients registered when it was asked for (`everyone`). Registered clients are distinct from one another and from the two given at construction in
the instance, as in the repository's tests. `OneNameEach` says so; it is a
hypothesis of the two theorems about summaries, since `GetUsageSummary` counts a
client that goes by two names under each of them. The other theorems do without it.

An item spends a token count, and its client reports that as the cost too, or
reports none (`Priced`, `NoCost`; the Ollama client reports none).
`AddModelUsage` drops the cost as soon as one side has none, so a client without
costs hides the costs of its own name, and `TotalCost` sums the names that have
one. A priced client is assumed to start from a cost of zero, not from nil.

`Promised` maps items to the prompts of `BatchedCall`: `outcome` to how a prompt
was settled, `gaveUp` to the calls given up. The map sees neither slots nor
clients nor neighbours, which is what the promise is about.

### Services

`owner` says who keeps the server. `server.Server`, which `startServices` uses,
gives its goroutine the server it made (`Captured`); `LMHandler.Start`, which only
tests use, has its goroutine read the field when it runs (`ReadField`), and by then
`Stop` may have cleared it or the next `Start` replaced it. `Start` opens the
port; `Serve` is the goroutine coming to `grpc.Server.Serve`, which refuses
on a stopped server. Stopping is three steps: `Stop` (`grpc.Server.Stop`, which
cuts off the callers being served), `ForgetServer`, and, for `server.Server`, the
`CloseListener` of `startServices`, without which a goroutine that has yet
to run leaves its port open. `n` numbers the starts, and with them ports, servers
and goroutines.

A call is `Send` to a port at any time, before the goroutine serves and after the
stop as well. It is accepted, refused, given up by its caller, or answered
(`Reply`). Its items run as in the two services' batches: `Go` admits them in order
on free slots, `BadPrompt` fails one whose JSON does not parse, `Dispatch` hands
one to its handler, `Return` puts its response in place `Index(i)`. A JSON prompt
of a *sub-call* ends the process in `Dispatch`: `RLM.Subcall` asserts a string in a
log line. The passing run sends none.

### ReplSession

`Setup`, `LoadContext` and `Cleanup` are the host's operations on a REPL, in any
order a caller may choose between blocks; `Refuse` is `ExecuteCode` without a
container to run in. `files` says which context files are in the workspace, and
`Contexts` what the script makes of them. `container` is `dead` when it went away
behind the REPL's back.

A block is a process: `Start` loads the state file and injects the context,
`Bind`, `WriteAnswer`, `RebindAnswer` are what code does, `Finish` copies names
back, `Raise`, `Exit`, `Kill` are the other ends, `Truncate` and `Dump` the two
halves of `save_state`, `Report` the JSON line. `_locals` and the namespace the
code runs in are two namespaces that share the answer dict (`same`) until code
puts another in its place or deletes the name (`Deleted`). `left`, `torn` and `ran`
are history: what the last completed save kept of what code left, whether a later one
was cut off, and whether a block has run since the last `Cleanup`. Values are
immutable here: what code does to an object in place, a list that it appends to and
then raises, say, is seen for the answer dict only. `Cleanup` forgets the workspace
directory whether or not it could be removed, so a later `Setup` makes a new one.

### Turn

`Completion` says where a call is, `Turn` what it carries. A response is rendered
from a *document*, a sequence of segments: prose, a `repl` block, a block of
another language, a block at which the response was cut off. `ReplBlocks` models
the regular expression on lines, of which it matters only which open a block, which
begin with three backquotes and which are blank; an opening is assumed to end its
line (an opening with code after it on the same line is no block). `BlocksAsWritten`
compares what the regular expression finds with the blocks of the document, and is
about documents that are `WellFormed`: no line of a segment begins with three
backquotes, a `repl` block has a line that is not blank, and only the last block can
be cut off. `Replies` may be any documents over any set of `Lines`; those of the
instance are checked to be well formed (`DocumentsAssumption`).

A prompt is its kind: a text, a list of
messages, an `object` (JSON the LM service takes for no prompt), or one with no JSON
form. `rlm_query` and its batch are covered for texts, where they differ from
`llm_query` only in the service called. A query returns the service's answers
(`QueryAnswered`), an error for each prompt (`QueryException`: the server is gone, the
deadline passed, or a prompt of a batch has no JSON form), or it raises
(`QueryRaises`): `llm_query` and `rlm_query` encode the prompt in a log line before
their `try`. `asked` and `got` record what the queries that return were asked and
told; `llmCalls` is the script's `_llm_calls`, which `EndBlock` reports
and `ParseExecOutput` reads. `answer` is the answer dict of the running process,
`saved` the one in the state file, so an answer is still there in the next block. An
output's length is a number, cut at `MaxChars` characters.

## Runs

Every passing run has a mutant per property: a plausible bug in the code, for
which TLC finds the property violated.

| Run | Question | Bounds |
|---|---|---|
| calls | release on every path, no model call past a spending limit, error counter, partial answer and first answer across turns and calls, one process at a time, every call returns (liveness); implements `ScopedCall` | 2 calls at depth 0 or 2, `MaxDepth` 0 and so the default cap of 2; 3 iterations, 2 blocks, 2 answers, all four limits, cancellation |
| siblings | costs, orphans, slots with two children, what a child is granted after an iteration that spent | 2 iterations, 1 slot, budget 2, tokens 4, script cap 2 |
| nested | three levels, the last at the host's cap: what a child is granted as the clock ticks, every sub-call answered (liveness) | 1 slot, budget 2, deadline 1 |
| completions | failures, usage and costs of a batch and a call beside it; implements `BatchedCall`, its liveness included | batch of 3 prompts on 2 slots and 1 call; 4 clients of 2 names, two without costs, one that replaces another |
| server | the server of a call serves its own port and leaves none open, no late handler is live, responses stand in place, every caller hears (liveness) | 2 starts by either owner, each stopped at any point; a batch of 3 on 2 slots, one malformed, and a query, to either port |
| session | what a block starts from and what its report says; nothing of one session in the next | `Setup`, `LoadContext`, `Cleanup` and kills in any order, 2 blocks, 3 names, 2 values |
| turn | the code written is the code run, outputs stand with their response, every prompt of a query that returns is answered, answered calls are reported | 2 turns, 7 documents of up to 3 segments, 2 prompts of 3 kinds a call, alone or in a batch, outputs at and past the cut |

The bounds are the smallest in which each hazard happens: two calls for state
that outlives a call, three iterations for a streak that is broken and resumed,
two siblings or a chain of three for everything between a node and the nodes
above and below it, three prompts on two slots so that one has to wait, a name
that is plain, private or injected, two turns so that one has a history before it, two starts so that a goroutine can
meet the server of the other. `calls`, `session` and `turn` have about a million states
each, the others between fifty and two hundred and forty thousand.
Costs are symmetric in their unit, so budgets
of two or three reach below, at and above the limit. `nested` sets the script's cap
above the host's, so that a sub-call reaches `Subcall` at the host's own cap: `New`
gives the two the same value, and then only a caller of the gRPC service itself, or an
`EnvFactory` of one's own, gets there.

Runs that show where the code departs from a document of the repository (TLC
finds the counterexample):

| Run | What the code does |
|---|---|
| leak | a cancelled call leaves its container running |
| partial_lost | the error of a limit carries the response before that of the iteration that reached it |
| budget_regained | the loop erases the cost children added |
| usage_mixed | a response may carry a concurrent prompt's usage |
| report_lost | of a block that asked with a list of messages the host cannot read the report: the answer it submitted is dropped |

The properties of these runs state what the document says, at the point where the
code parts from it; a passing property beside them says what holds around that point
(`ReleasedOnReturn` beside `CleanupStopsContainer`, `PartialIsCurrent` beside
`PartialIsBest`, `NeverOvercharged` beside `RemainingNeverGrows`, `CallsReported`
beside `AnswerReported`).

Other places where code and documents part, met while reading and kept in the
models as the code has them, or outside them as said, without a run of their own.
The passing properties leave these points out:

- the iteration that reaches a limit may submit an answer, which is not returned: the
  limits are checked first (`orchestrator.go:151` before `:156`, against
  `spec.md:87-88`); `FirstAnswerReturned` lets such a call end with the limit's error;
- `Subcall` reads the remaining budget under the lock and uses it after
  (`orchestrator.go:194-197`), so siblings let in together are each given all of it
  and one may start with more than its parent has left by then; against `spec.md:81`.
  `InheritsRemaining` bounds what is given by what was left when it was read;
- a child is given the whole token limit, whatever its parent has spent
  (`orchestrator.go:224`, against `spec.md:81`); `InheritsRemaining` is of budget and
  deadline alone;
- with `WithMaxDepth(0)` the script falls back at depth 1, the host takes the cap for
  2 (`pkg/rlm/rlm.go:125` and `orchestrator.go:66-68`, against `docker.go:54-55`);
- a sub-call whose prompt is sent as JSON ends the host process: `Subcall` asserts a
  string in a log line (`orchestrator.go:186`), in a goroutine where nothing recovers;
  `server_test.go:224-229` has such a prompt answered, and `spec.md:22` allows it;
- code that submits an answer and then calls `exit()` submits nothing: `SystemExit`
  passes the script's `except Exception` (`execscript.go:276`), and the process ends
  without a report; against `spec.md:207-210`;
- what code binds to `context` or `df` is gone in the next block, since the script
  binds them anew from the files (`execscript.go:223-234`, against `prompts.go:39`,
  which says that the REPL persists across turns);
- an iteration that overruns the deadline may still succeed: the deadline is
  checked only before a turn (`orchestrator.go:138`, against `spec.md:95-98`);
- a block that does not end holds the call past every limit
  (`orchestrator.go:362`, against `spec.md:77`);
- naming the other backend's model in a request does not select it
  (`handler.go:106`, against `spec.md:139`);
- code that submits an answer and then deletes the name has submitted it all the
  same: the old dict stays in `_locals` (`execscript.go:273-275`, `:283-287`);
  `ReportMatchesCode` leaves that block out, and a deleted variable comes back too;
- an empty `repl` block takes the lines up to the next fence as its code, and the
  code of the block after it is lost (`iteration.go:29`, against
  `iteration.go:31-32`); documents with such a block are left out of `turn`;
- the prompt of a turn announces `context_0`, `context_1`, ... for a list
  (`prompts.go:251-252`), which the script never defines (`execscript.go:223-234`);
  what a prompt says of the context is not modelled;
- the goroutine of `LMHandler.Start` reads `h.server` when it runs
  (`handler.go:198`): after an early `Stop` it panics on nil, and after a `Stop`
  and a `Start` it serves the old listener on the new server; `server.Server`
  captures its server and has neither, which is why `OwnServer` is of it alone;
- a second `LoadContext` of another type leaves the first one's `context.txt`, which
  the script prefers (`docker.go:168`, `execscript.go:223-234`);
- a second `Setup` without a `Cleanup` forgets the first container, which nothing
  stops then (`docker.go`'s `containerID`); `ReplSession` calls `Setup` only while
  there is none;
- sub-calls do not share their parent's workspace, since each call makes its own
  (`orchestrator.go:99`, against `docker.go:58-61` and `orchestrator.go:179`);
- `llm_query` raises on a prompt without a JSON form, where every other failure is
  a returned string: its log line encodes the prompt before the `try`
  (`execscript.go:119`); so does `rlm_query` (`:155`), and `EveryPromptAnswered` is of
  queries that return;
- a save that is cut off loses every variable, the ones of earlier saves too, since
  the file is emptied first (`execscript.go:214`): `StatePersists` says that nothing
  is left then, and never a part.

`spec.md` is `openspec/changes/rlm-go-core/spec.md`.

`CHECK_DEADLOCK FALSE` stands in every configuration: calls, sub-calls, prompts
and blocks are bounded, and the system stops when they are used up.

## Fairness

`FairSpec` of `Completion` is weak fairness of the host's steps and of a running
block's end: the goroutine is scheduled, the LM answers or fails, and code
ends. Nothing makes the caller cancel or the clock tick. That the LM answers and
that code ends are assumptions on the environment, which the code does not enforce:
neither the HTTP client nor `docker exec` has a deadline. `FairSpec` of `Subcalls` is weak fairness of each
node's own steps; giving up is never required. `FairSpec` of `LMHandler` is weak
fairness of each item's goroutine, which is what the fairness of `BatchedCall` is
implemented by. `FairSpec` of `Services` is weak fairness of the server's goroutines,
of each connection and each handler, and of a stop once begun. Nobody need start,
stop or give up: that every caller hears of its call rests on none of these.

## Proofs

The theorems hold for every value of the constants that satisfies the named
assumptions of the modules; TLC checks each property on its instance first. Every
invariant and every safety property of the passing runs is proved.

`CompletionProofs` (assumptions on the bounds and limits of `Completion`):

- `Typing`, from `TypeInv`: `TypeOK` is not inductive alone, since the end of a
  block decrements the number of blocks left; the strengthening says that a block
  that runs is one of those left.
- `Released` and `Served`, from `ScopeInv`: the defer stack is one of
  `<<>>`, `<<"stopServer">>` and `<<"stopServer", "cleanup">>`, and server,
  container and directory are what the stack says, at every place of the code.
  The properties speak of a returned call or a running container; only the
  stack connects the two over the steps between. `DeferStacks` collects what
  pushing to and popping from these three sequences gives.

- `OneProcess`, from `AbandonedInv`: a process that a cut-off `docker exec` left
  behind comes only of a cancelled context, under which no other is started.
- `DefaultIsLast` and `FirstAnswer`, from `LoopInv`, which ties the place of the
  code to the history of the turns: how many there are, and that one that
  submitted an answer is the last and has settled the outcome.
- `Spending`, which is inductive with `TypeOK` and `LoopInv`: the model is asked only
  after a check that passed.
- `Errors`, from `StreakInv`: the counter is the length of the run of failures at
  the end of the history (`Streak`, which quantifies over positions, so that no
  recursion is needed), and it is 0 while a call sets up.
- `Partial`, from `PartialInv`: the partial answer is a response of *this* call at
  every place from which a limit can be reported, and the latest one wherever the
  deadline is checked; a limit checked after a turn has not seen that turn's response
  yet, which is where `PartialIsBest` fails.

`ScopedCallProofs`: `Implementation` says `Spec => Implements`. By `ScopeInv` what is
held is one of `<<>>`, `One`, `Two` and `All`, prefixes of one order. Each action of
`Completion` takes one such sequence to the next (`Acquire`), to a shorter one, which
it may do by two at once when `Cleanup` ends container and directory (`Release`,
which loses the directory if it cannot be removed), or leaves it, and is then `Open`, `Close`, `Cancel`, a `Release` of nothing or a stutter.

`SubcallsProofs` (`TreeAssumption`: a finite tree with its depths;
`SizesAssumption`, `LimitsAssumption`: `NoLimit` is not a number):

- `Typing`, by induction on `TypeOK` itself.
- `Inherit`, from `LimitsInv` and `InheritInv`. A node's fields are settled before its
  code can ask for sub-calls, so what `Gate` reads, and `Spawn` hands out in a later
  step, is within the parent's fields (`LimitsInv`). Each iteration behind a node has
  been charged to it (`CallsInv`) and a parent does not go on while a live sub-call is
  pending (`AskedInv`), so until it does, what was read is no less than what is left
  by now, which only shrinks, and no more than the iterations behind the parent leave
  (`GrantInv`). That it is no more than what is left when the child starts is false:
  siblings may be given the same part.
- `Orphans`, from `LimitsInv` too: a sub-call that has not run code has no
  sub-calls of its own, so only `End` can leave some behind, and it ends their
  contexts.
- `Bounded`, from `BatchInv`: batches are disjoint, and a node no one has asked
  for is in a batch of its own, so making a batch disturbs no other, and a slot
  counts for one batch only.
- `Charges`, from `Charged` and `Covered`: a node is charged at most its own LM calls
  and those of the children whose tails have run, and its real total covers its own
  and all its children's. `StoreCost` forgets what children added, which only lowers
  the charge; `Add` charges one child, which from then on is among those whose tails
  have run and is never charged again.

`LMHandlerProofs` (the assumptions of `LMHandler`):

- `Failures`, from `HandlerInv`: a context is done for nothing but that the call was
  given up, so no neighbour's failure ends an item.
- `Typing`, by induction on `TypeOK` itself, which has that a prompt under way has a
  client and that a summary is a usage for each of some of the names.
- `Counted`, from `CountInv`: an item a client has served is past its completion, so
  a completion is always of an item not counted yet.
- `Reports`, from `ReportInv`, if `OneNameEach`: what a summary has merged and what the
  clients left have spent by now is together never less than what had been spent
  when it was asked for, nor more than what has been spent by the clients registered at
  that time. That the two sum up is what a client merged twice would break.
- `Costs`, from `CostInv`, if `OneNameEach`: a cost that is there is that of all the
  tokens, and a client left to merge is priced if and only if no client of its name,
  merged or not, is without costs.
- `SettledOnce`, the safety part of `Implements`: initial states map to initial
  states, and every step to a step of `BatchedCall` or a stutter. Its fairness stays
  with TLC.

`ServicesProofs` (the assumptions of `Services`):

- `Typing`, by `ServerTypes` and `RequestTypes`, since a step of one part leaves the
  other alone.
- `Owned`, from `OwnInv`: every goroutine of `server.Server` has its own target from
  the start. Its hypothesis `NoPanics` is that no sub-call carries JSON, which would
  end the process.
- `Ports`, from `PortInv`: an open port is that of the last start, whose stop has
  not returned.
- `Live`, from `LiveInv`: an accepted call whose caller still waits belongs to a
  goroutine that is serving, on a server not stopped.
- `Placed`, from `PlaceInv`: an item that is done has its response in its place, and
  a caller that has responses had all its items done.

`ReplSessionProofs` (the assumptions of `ReplSession` on names and values):

- `Typing`, which carries that a process has a container that is up.
- `Fresh`, from `FreshInv`: before the first block of a session there is no state file.
- `Reporting`, from `AnswerInv`: while the two answers are one object they agree, and
  once code has ended without an exception `_locals` has the answer the code saw, but
  for code that deleted it.
- `Persists`, from `PersistInv`: what was left behind is in the state file except
  while that is being rewritten, and it is in the memory of a process that runs or
  has raised, which may yet rewrite the file without having changed it; after a save
  that was cut off, none of it is in either. It is of the names the script does not
  set itself: those it binds anew before each block.

`Sums`: `SumFunctionOnSet` of the community modules is a fold over a set. `SumIsUnits`
says that it is the cardinality of a set, one unit for each that is counted
(`Units`), from which the lemmas about one more element, one less, larger values and
two sets follow by facts about cardinalities.

`TurnProofs` (the assumptions of `Turn` on its documents and bounds):

- `Answered`, from `AskedInv`: what code was told and what it asked are sequences
  aligned place by place, and stay so when a query appends its replies, or its
  exceptions, to both; a query that raises adds to neither; for batches of every size
  and mix of kinds.
- `Parsing`: of any `WellFormed` document, `FindCodeBlocks` finds in the lines that
  render it the code of its `repl` blocks. `Flattened` and `Found` turn the fold and
  the recursion into rows of sequences that can be reasoned about line by line;
  `QuietSegment`, `CutSegment` and `ReplSegment` say what is found from the first line
  of each kind of segment; `Parsing` adds the segments up.
- `AsWritten`, from `ParsedInv` and `Parsing`, if the documents are well formed.
- `Typing`, from `TypeInv`: `TypeOK` says of the messages only what is cut from them,
  and of the reports nothing; the strengthening types both, and has that a block that
  runs is one whose result is missing.
- `Transcribed`, from `TranscriptInv`, if the documents are well formed: while a turn
  lasts the history ends with its prompt, its number is one more than the responses
  there are, and each result has the code of the block in its place. `Grown` has that
  a message is in its place for good once what follows it does not begin with outputs.
- `CallsAsAnswered`, from `Recorded`: the calls recorded are as many as the answers,
  each stands where its answer ranks among them, and each is an answer the code saw;
  so if all prompts were text the host can read the report. `CallsReported` names
  positions by rank (`Place`) rather than by `SelectSeq`, of which the prover has no
  definition.

Induction over data, where these proofs need it, is not that of the library, whose
theorems take an operator. `Induction` (over the numbers in a set) and `LeastSubset`
(over the subsets of a finite set) are proved from the well-foundedness of the
orders, as facts about sets: what is claimed of all is a set, and its least
counterexample is impossible.

What stays with TLC is liveness, out of the prover's reach: `CallReturns`,
`EverySubcallResponds`, `CallerHears`, and the fairness in `BatchedCall`, which is why
`Implements` of `LMHandler` is proved in its safety part only. `UsageIsOwn` and the
other properties of the runs that expect a violation are false.

## Not modelled

- Transport and encoding of messages, and generated code.
- The HTTP exchange of the Ollama client: the LM answers or fails, and only an answer
  is counted. Its metrics are read only by its test.
- The wording of prompts and of the log, and what a prompt says of the context (type,
  lengths, keys, previews, the number of contexts); custom tools, which the orchestrator never passes.
- The command line: it parses flags, reads a file and prints, in sequence, over one
  call that is never cancelled. Conversions of results in `pkg/rlm` copy fields.
- The container image, whose copy of the exec script the host does not run.
- Two calls at once on one RLM value. Nothing in the repository makes them; the
  second would reset the tracking fields of the first.
- Files a child leaves in a workspace: each call makes its own directory, so nothing
  is shared.

## Plan

1. Done: all modules of the table above, their runs, and the theorems about the six
   components with state.
2. Left to model: two calls at once on one RLM, as an extension of `Completion`; the
   exchange of the Ollama client as an environment of `LMHandler`; the metadata of
   `NewQueryMetadata`, as an algorithm of its own; objects that code changes in place.
3. Left to prove: what the extensions of 2 will need; a promise for `Services` in the
   manner of `BatchedCall`, whose safety part its invariants already give.
