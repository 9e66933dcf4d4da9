----------------------------- MODULE LMHandler ------------------------------
(***************************************************************************)
(* LMHandler of internal/rlm/handler.go and the clients behind it          *)
(* (internal/client): the LM service a container's llm_query and           *)
(* llm_query_batched call.  Items are handled by goroutines of their own,  *)
(* up to BatchConcurrency of a batch at a time; a client records usage     *)
(* under its mutex, and the handler reads it back in a second step.        *)
(***************************************************************************)
EXTENDS Integers, FiniteSets, Functions

CONSTANTS
  Items, BatchOf,       \* the prompts, numbered, and the call each belongs to
  Model, ItemDepth,     \* the model an item names, or NoName, and its depth
  Malformed,            \* items whose PROMPT_JSON is no JSON
  Tokens,               \* what the LM will report for an item; a token costs one unit
  Priced, NoCost,       \* the clients that report costs (the Ollama client does not); nil
  Clients, Default, Other, NoClient,  \* the default client, the other backend if any
  NameOf, NoName,       \* the names the default client and the other backend go by
  Registrable,          \* the clients RegisterClient may be given for a name
  BatchConcurrency

ASSUME ItemsAssumption ==
  /\ Items \subseteq Nat /\ IsFiniteSet(Items) /\ Malformed \subseteq Items
  /\ Tokens \in [Items -> Nat] /\ ItemDepth \in [Items -> Nat]
  /\ BatchConcurrency \in Nat \ {0} /\ NoCost \notin Nat
ASSUME ClientsAssumption ==
  /\ IsFiniteSet(Clients) /\ NoClient \notin Clients
  /\ Default \in Clients \cap DOMAIN NameOf /\ Other \in (Clients \cap DOMAIN NameOf) \cup {NoClient}
  /\ NoName \notin DOMAIN Registrable /\ \A m \in DOMAIN Registrable : Registrable[m] \subseteq Clients

VARIABLES
  registry,        \* the clients RegisterClient has added, by name
  phase, route,    \* where item i's goroutine is, and the client it asks
  outcome,         \* what item i's response carries: content, or the cause of its error
  usage,           \* the usage in item i's response
  dead, gaveUp,    \* calls whose context is done; ghost: those the script gave up
  summary, last,   \* a client's usage, in all and of its most recent completion
  served,          \* ghost: the items a client completed
  report           \* GetUsageSummary: entries left to merge, what it has merged by name;
                   \* ghost: the clients it is of, what they had spent when it began, and
                   \* those it can price
vars == <<registry, phase, route, outcome, usage, dead, gaveUp, summary, last, served, report>>
counters == <<summary, last, served>>
calls == <<dead, gaveUp>>

Names == {NameOf[c] : c \in DOMAIN NameOf} \cup DOMAIN Registrable
Batch(b) == {i \in Items : BatchOf[i] = b}
Batches == {BatchOf[i] : i \in Items}

Entry(from, name, client) == [from |-> from, name |-> name, client |-> client]
Entries ==
  {Entry("default", NameOf[Default], Default)}
  \cup {Entry("other", NameOf[c], c) : c \in {Other} \ {NoClient}}
  \cup {Entry("registry", m, registry[m]) : m \in DOMAIN registry}
Named == {e \in Entries : e.name # NoName}
TokensBy == [c \in Clients |-> SumFunctionOnSet(Tokens, served[c])]
Spent(clients) == SumFunctionOnSet(TokensBy, clients)
Everyone == {e.client : e \in Named}

\* No client goes by two names: GetUsageSummary counts one that does under each of them.
OneNameEach ==
  /\ Other # Default
  /\ \A m, n \in DOMAIN Registrable : m # n => Registrable[m] \cap Registrable[n] = {}
  /\ \A m \in DOMAIN Registrable : Registrable[m] \cap {Default, Other} = {}

\* Usage of a client that has served nothing, and of one completion.
Usage == [tokens : Nat, cost : Nat \cup {NoCost}]
UsageOf(c, tokens) == [tokens |-> tokens, cost |-> IF c \in Priced THEN tokens ELSE NoCost]

\* AddModelUsage: one side without a cost leaves the sum without one.
AddModelUsageKeepingCost(u, v) ==
  [tokens |-> u.tokens + v.tokens,
   cost |-> IF u.cost = NoCost THEN v.cost ELSE IF v.cost = NoCost THEN u.cost
            ELSE u.cost + v.cost]
AddModelUsage(u, v) ==
  [tokens |-> u.tokens + v.tokens,
   cost |-> IF NoCost \in {u.cost, v.cost} THEN NoCost ELSE u.cost + v.cost]

\* Totals of a summary by name: a cost is the sum of those there are, or nil.
TotalTokens(merged) == SumFunction([m \in DOMAIN merged |-> merged[m].tokens])
TotalCost(merged) ==
  LET priced == {m \in DOMAIN merged : merged[m].cost # NoCost}
  IN  IF priced = {} THEN NoCost ELSE SumFunction([m \in priced |-> merged[m].cost])

\* The clients of the names all of whose clients report costs.
Priceable ==
  {e.client : e \in {e \in Named : \A f \in Named : f.name = e.name => f.client \in Priced}}
Idle == [left |-> {}, merged |-> [m \in {} |-> UsageOf(Default, 0)],
         everyone |-> {}, floor |-> 0, priced |-> {}, pricedFloor |-> 0]

Init ==
  /\ registry = [m \in {} |-> NoClient] /\ phase = [i \in Items |-> "asked"]
  /\ route = [i \in Items |-> NoClient] /\ outcome = [i \in Items |-> "none"]
  /\ usage = [i \in Items |-> UsageOf(Default, 0)]
  /\ dead = {} /\ gaveUp = {}
  /\ summary = [c \in Clients |-> UsageOf(c, 0)] /\ last = summary
  /\ served = [c \in Clients |-> {}] /\ report = Idle

\* The handler's RWMutex: GetUsageSummary holds it for reading until it returns.  A client that
\* goes by the name already is replaced, its usage with it.
RegisterClient(m, c) ==
  /\ report.left = {}
  /\ registry' = [n \in DOMAIN registry \cup {m} |-> IF n = m THEN c ELSE registry[n]]
  /\ UNCHANGED <<phase, route, outcome, usage, calls, counters, report>>

----------------------------------------------------------------------------
\* CompleteBatched starts its goroutines in order, each when the errgroup has a free slot.
UnderWay(b) == {i \in Batch(b) : phase[i] \notin {"asked", "done"}}
FreeSlot(b) == Cardinality(UnderWay(b)) < BatchConcurrency
Go(i) ==
  /\ phase[i] = "asked" /\ FreeSlot(BatchOf[i])
  /\ \A j \in Batch(BatchOf[i]) : j < i => phase[j] # "asked"
  /\ phase' = [phase EXCEPT ![i] = "admitted"]
  /\ UNCHANGED <<registry, route, outcome, usage, calls, counters, report>>

\* An error is the item's own response; the goroutine returns nil to the errgroup.
RespondErrorCancels(i, cause) ==
  /\ phase' = [phase EXCEPT ![i] = "done"]
  /\ outcome' = [outcome EXCEPT ![i] = cause]
  /\ dead' = dead \cup {BatchOf[i]}
  /\ UNCHANGED <<registry, route, usage, gaveUp, counters, report>>
RespondErrorSilently(i, cause) ==
  /\ phase' = [phase EXCEPT ![i] = "done"]
  /\ UNCHANGED <<registry, route, outcome, usage, calls, counters, report>>
RespondError(i, cause) ==
  /\ phase' = [phase EXCEPT ![i] = "done"]
  /\ outcome' = [outcome EXCEPT ![i] = cause]
  /\ UNCHANGED <<registry, route, usage, calls, counters, report>>

BadPromptGoesOn(i) ==
  /\ phase[i] = "admitted" /\ i \in Malformed
  /\ outcome' = [outcome EXCEPT ![i] = "prompt"]
  /\ route' = [route EXCEPT ![i] = Default] /\ phase' = [phase EXCEPT ![i] = "called"]
  /\ UNCHANGED <<registry, usage, calls, counters, report>>
BadPrompt(i) == phase[i] = "admitted" /\ i \in Malformed /\ RespondError(i, "prompt")

GetClient(model, depth) ==
  IF model \in DOMAIN registry THEN registry[model]
  ELSE IF depth = 1 /\ Other # NoClient THEN Other
  ELSE Default

Route(i) ==
  /\ phase[i] = "admitted" /\ i \notin Malformed
  /\ route' = [route EXCEPT ![i] = GetClient(Model[i], ItemDepth[i])]
  /\ phase' = [phase EXCEPT ![i] = "called"]
  /\ UNCHANGED <<registry, outcome, usage, calls, counters, report>>

\* The LM answers: Completion records the usage of the call under the client's mutex.
RecordUsageReplacing(c, tokens) ==
  /\ last' = [last EXCEPT ![c] = UsageOf(c, tokens)]
  /\ summary' = [summary EXCEPT ![c] = UsageOf(c, tokens)]
RecordUsage(c, tokens) ==
  /\ last' = [last EXCEPT ![c] = UsageOf(c, tokens)]
  /\ summary' = [summary EXCEPT ![c] = AddModelUsage(@, UsageOf(c, tokens))]

Completion(i) ==
  /\ phase[i] = "called" /\ BatchOf[i] \notin dead
  /\ RecordUsage(route[i], Tokens[i])
  /\ served' = [served EXCEPT ![route[i]] = @ \cup {i}]
  /\ phase' = [phase EXCEPT ![i] = "counted"]
  /\ UNCHANGED <<registry, route, outcome, usage, calls, report>>

CompletionFails(i) ==
  /\ phase[i] = "called"
  /\ RespondError(i, IF BatchOf[i] \in dead THEN "context" ELSE "lm")

\* completeOne reads the usage of the client's most recent completion, whosever it was.
RespondContent(i) ==
  /\ phase[i] = "counted"
  /\ usage' = [usage EXCEPT ![i] = last[route[i]]]
  /\ outcome' = [outcome EXCEPT ![i] = "content"]
  /\ phase' = [phase EXCEPT ![i] = "done"]
  /\ UNCHANGED <<registry, route, calls, counters, report>>

\* The script's 600 s deadline, its death, or the server's Stop.
GiveUp(b) ==
  /\ b \notin gaveUp /\ \E i \in Batch(b) : phase[i] # "done"
  /\ dead' = dead \cup {b} /\ gaveUp' = gaveUp \cup {b}
  /\ UNCHANGED <<registry, phase, route, outcome, usage, counters, report>>

----------------------------------------------------------------------------
\* GetUsageSummary, called by checkIterationLimits, buildCompletion and GetUsage.
BeginReport ==
  /\ report.left = {}
  /\ report' = [Idle EXCEPT !.left = Named, !.everyone = Everyone, !.floor = Spent(Everyone),
                            !.priced = Priceable, !.pricedFloor = Spent(Priceable)]
  /\ UNCHANGED <<registry, phase, route, outcome, usage, calls, counters>>

\* The default client first, then the other backend, then the registry in no order.
Rank(e) == IF e.from = "default" THEN 1 ELSE IF e.from = "other" THEN 2 ELSE 3
MergedOverwriting(e) ==
  [m \in DOMAIN report.merged \cup {e.name} |->
     IF m # e.name THEN report.merged[m] ELSE summary[e.client]]
Merged(e) ==
  [m \in DOMAIN report.merged \cup {e.name} |->
     IF m # e.name THEN report.merged[m]
     ELSE IF m \in DOMAIN report.merged THEN AddModelUsage(report.merged[m], summary[e.client])
     ELSE summary[e.client]]
MergeUsage(e) ==
  /\ \A f \in report.left : Rank(e) <= Rank(f)
  /\ report' = [report EXCEPT !.left = @ \ {e}, !.merged = Merged(e)]
  /\ UNCHANGED <<registry, phase, route, outcome, usage, calls, counters>>

Handle(i) ==
  Go(i) \/ BadPrompt(i) \/ Route(i) \/ Completion(i) \/ CompletionFails(i) \/ RespondContent(i)

Next ==
  \/ \E m \in DOMAIN Registrable : \E c \in Registrable[m] : RegisterClient(m, c)
  \/ \E i \in Items : Handle(i)
  \/ \E b \in Batches : GiveUp(b)
  \/ BeginReport
  \/ \E e \in report.left : MergeUsage(e)

Spec == Init /\ [][Next]_vars

\* Goroutines run on and the LM answers or fails.
FairSpec == Spec /\ \A i \in Items : WF_vars(Handle(i))

----------------------------------------------------------------------------
(* Properties *)

\* Every variable keeps its type; an item under way asks a client, and one that is done has a
\* response, never the nil a batch was allocated with.
TypeOK ==
  /\ registry \in [DOMAIN registry -> Clients] /\ DOMAIN registry \subseteq DOMAIN Registrable
  /\ \A m \in DOMAIN registry : registry[m] \in Registrable[m]
  /\ phase \in [Items -> {"asked", "admitted", "called", "counted", "done"}]
  /\ route \in [Items -> Clients \cup {NoClient}]
  /\ \A i \in Items : phase[i] \in {"called", "counted"} => route[i] \in Clients
  /\ \A i \in Items : phase[i] = "done" <=> outcome[i] # "none"
  /\ outcome \in [Items -> {"none", "content", "prompt", "lm", "context"}]
  /\ usage \in [Items -> Usage] /\ dead \subseteq Batches /\ gaveUp \subseteq Batches
  /\ summary \in [Clients -> Usage] /\ last \in [Clients -> Usage]
  /\ served \in [Clients -> SUBSET Items]
  /\ \E N \in SUBSET Names :
       report \in [left : SUBSET Entries, merged : [N -> Usage], everyone : SUBSET Clients,
                  floor : Nat, priced : SUBSET Clients, pricedFloor : Nat]

\* A failing prompt fails alone: an item fails for its own prompt, its own LM call, or because
\* the script gave up the whole call, never because a neighbour in its batch failed.
FailureIsOwn ==
  \A i \in Items : outcome[i] = "context" => BatchOf[i] \in gaveUp

\* No completion is lost or counted twice, however many run at once on one client.
EveryCallCounted ==
  \A c \in Clients : summary[c] = UsageOf(c, TokensBy[c])

\* The limits are checked against a summary that is never ahead of what the handler's clients have
\* spent and never behind what they had spent when it was asked for, though they are read one after
\* another.
ReportIsCurrent ==
  /\ TotalTokens(report.merged) <= Spent(report.everyone)
  /\ report.left = {} /\ report # Idle => report.floor <= TotalTokens(report.merged)

\* The cost a budget is held against is the spending, as current as that, on the names all of
\* whose clients report costs: one that reports none hides the others of its name, and no more;
\* there is no cost at all, and so no budget, when there is no such name.
CostOfPricedNames ==
  report.left = {} /\ report # Idle =>
    LET cost == TotalCost(report.merged)
    IN  IF report.priced = {} THEN cost = NoCost
        ELSE cost # NoCost /\ cost \in report.pricedFloor..Spent(report.priced)

\* The promise made to the script, stated without the program in BatchedCall.tla: each prompt
\* is settled once and for good, is aborted only when its call was given up, and all are settled
\* in the end, also when others of the batch fail or wait for a slot.
Ending(i) ==
  CASE outcome[i] = "none" -> "open"
    [] outcome[i] = "content" -> "content"
    [] outcome[i] = "context" -> "aborted"
    [] OTHER -> "error"
Promised == INSTANCE BatchedCall WITH
  Prompts <- Items, CallOf <- BatchOf,
  settled <- [i \in Items |-> Ending(i)], abandoned <- gaveUp
Implements == Promised!Spec

----------------------------------------------------------------------------
(* What documents of the repository say, and the code does not do *)

\* types.go:66: the usage recorded for a call is that call's, not a concurrent neighbour's.
UsageIsOwn == \A i \in Items : outcome[i] = "content" => usage[i].tokens = Tokens[i]
=============================================================================
