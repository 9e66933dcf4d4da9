--------------------------- MODULE LMHandlerProofs --------------------------
(***************************************************************************)
(* Machine-checked proofs about LMHandler, for every value of its          *)
(* constants: whose failure a failing prompt is, the safety part of the    *)
(* promise in BatchedCall, and what the clients count and a usage summary  *)
(* adds up, with Sums.                                                     *)
(***************************************************************************)
EXTENDS LMHandler, Sums, FiniteSetTheorems, TLAPS

Phases == {"asked", "admitted", "called", "counted", "done"}
Causes == {"prompt", "lm", "context"}

\* RegisterClient, whichever client it is given for whichever name.
Registers == \E m \in DOMAIN Registrable : \E c \in Registrable[m] : RegisterClient(m, c)

\* A step is a step of one item, or touches none.
LEMMA NextDisjuncts ==
  ASSUME Next
  PROVE  \/ \E i \in Items : \/ Go(i) \/ Route(i) \/ Completion(i) \/ RespondContent(i)
                             \/ BadPrompt(i) \/ CompletionFails(i)
         \/ \E b \in Batches : GiveUp(b)
         \/ UNCHANGED <<phase, outcome, calls>>
<1>1. Registers => UNCHANGED <<phase, outcome, calls>>
  BY DEF Registers, RegisterClient
<1>2. BeginReport => UNCHANGED <<phase, outcome, calls>>
  BY DEF BeginReport
<1>3. \A e \in report.left : MergeUsage(e) => UNCHANGED <<phase, outcome, calls>>
  BY DEF MergeUsage
<1> QED
  BY <1>1, <1>2, <1>3 DEF Next, Handle, Registers

\* What makes FailureIsOwn inductive: the calls whose context is done are those that were given
\* up, for an item that fails does not end the context of its batch.
HandlerInv ==
  /\ phase \in [Items -> Phases]
  /\ outcome \in [Items -> Causes \cup {"none", "content"}]
  /\ \A i \in Items : phase[i] = "done" <=> outcome[i] # "none"
  /\ dead = gaveUp
  /\ FailureIsOwn

\* An item moves on without being settled.
Moves(i, p) ==
  phase' = [phase EXCEPT ![i] = p] /\ UNCHANGED <<outcome, calls>> /\ phase[i] # "done"

\* An item is settled, for good.
Settles(i, cause) ==
  /\ phase' = [phase EXCEPT ![i] = "done"] /\ outcome' = [outcome EXCEPT ![i] = cause]
  /\ UNCHANGED calls /\ phase[i] # "done"

\* What the steps of an item come to.
LEMMA ItemSteps ==
  ASSUME NEW i \in Items
  PROVE  /\ Go(i) => Moves(i, "admitted")
         /\ Route(i) => Moves(i, "called")
         /\ Completion(i) => Moves(i, "counted")
         /\ RespondContent(i) => Settles(i, "content")
         /\ BadPrompt(i) => Settles(i, "prompt")
         /\ CompletionFails(i) => \/ Settles(i, "lm")
                                  \/ Settles(i, "context") /\ BatchOf[i] \in dead
BY DEF Go, Route, Completion, RespondContent, BadPrompt, CompletionFails, RespondError, Moves,
       Settles

\* At the start nothing has failed and no call was given up.
LEMMA HandlerInit == Init => HandlerInv
BY DEF Init, HandlerInv, FailureIsOwn, Phases, Causes

\* Every step keeps it.
LEMMA HandlerStep == HandlerInv /\ [Next]_vars => HandlerInv'
<1> SUFFICES ASSUME HandlerInv, [Next]_vars PROVE HandlerInv'
  OBVIOUS
<1> USE DEF HandlerInv, FailureIsOwn
<1>1. ASSUME NEW i \in Items, NEW p \in {"admitted", "called", "counted"}, Moves(i, p)
      PROVE  HandlerInv'
  BY <1>1 DEF Moves, calls, Phases
<1>2. ASSUME NEW i \in Items, NEW cause \in Causes \cup {"content"}, Settles(i, cause),
             cause = "context" => BatchOf[i] \in dead
      PROVE  HandlerInv'
  <2>1. phase' \in [Items -> Phases] /\ outcome' \in [Items -> Causes \cup {"none", "content"}]
    BY <1>2 DEF Settles, Phases
  <2>2. cause # "none"
    BY DEF Causes
  <2>3. \A j \in Items : phase'[j] = "done" <=> outcome'[j] # "none"
    BY <1>2, <2>2 DEF Settles
  <2>4. dead' = dead /\ gaveUp' = gaveUp
    BY <1>2 DEF Settles, calls
  <2>5. \A j \in Items : outcome'[j] = "context" => BatchOf[j] \in gaveUp
    BY <1>2 DEF Settles
  <2> QED
    BY <2>1, <2>3, <2>4, <2>5
<1>3. ASSUME NEW b \in Batches, GiveUp(b) PROVE HandlerInv'
  BY <1>3 DEF GiveUp
<1>4. CASE UNCHANGED <<phase, outcome, calls>>
  BY <1>4 DEF calls
<1>5. CASE UNCHANGED vars
  BY <1>4, <1>5 DEF vars
<1> HIDE DEF HandlerInv
<1> QED
  BY <1>1, <1>2, <1>3, <1>4, <1>5, NextDisjuncts, ItemSteps DEF Causes

\* A failing prompt fails alone.
THEOREM Failures == Spec => []FailureIsOwn
<1>1. HandlerInv => FailureIsOwn
  BY DEF HandlerInv
<1> QED
  BY <1>1, HandlerInit, HandlerStep, PTL DEF Spec

----------------------------------------------------------------------------
\* The promise at the start of a call, and at each of its steps.
LEMMA PromisedInit == Init => Promised!Init
BY DEF Init, Promised!Init, Ending

\* An item that is settled keeps its promise.
LEMMA PromisedSettles ==
  ASSUME HandlerInv, NEW i \in Items, NEW cause \in Causes \cup {"content"}, Settles(i, cause),
         cause = "context" => BatchOf[i] \in dead
  PROVE  Promised!Next
<1> DEFINE ending == CASE cause = "content" -> "content"
                       [] cause = "context" -> "aborted"
                       [] OTHER -> "error"
           settled == [j \in Items |-> Ending(j)]
           after == [j \in Items |-> Ending(j)']
<1>1. \A j \in Items : outcome'[j] = IF j = i THEN cause ELSE outcome[j]
  BY DEF Settles, HandlerInv
<1>2. Ending(i)' = ending
  BY <1>1 DEF Ending, Causes
<1>3. \A j \in Items : j # i => Ending(j)' = Ending(j)
  BY <1>1 DEF Ending
<1>4. Ending(i) = "open"
  BY DEF Ending, Settles, HandlerInv
<1>5. after = [settled EXCEPT ![i] = ending] /\ settled[i] = "open"
  BY <1>2, <1>3, <1>4
<1>6. gaveUp' = gaveUp /\ (ending = "aborted" => BatchOf[i] \in gaveUp)
  BY DEF Settles, calls, HandlerInv
<1>7. ending \in {"content", "error", "aborted"}
  OBVIOUS
<1>8. Promised!Settle(i, ending)
  BY <1>5, <1>6 DEF Promised!Settle
<1> HIDE DEF ending
<1>9. Promised!End(i)
  BY <1>6, <1>7, <1>8 DEF Promised!End, Promised!Abort
<1> QED
  BY <1>9 DEF Promised!Next

\* Every step of the handler is a step of the promise, or none.
LEMMA PromisedStep == HandlerInv /\ [Next]_vars => [Promised!Next]_(Promised!vars)
<1> SUFFICES ASSUME HandlerInv, [Next]_vars PROVE Promised!Next \/ UNCHANGED Promised!vars
  OBVIOUS
<1>1. ASSUME UNCHANGED <<outcome, gaveUp>> PROVE UNCHANGED Promised!vars
  <2>1. \A j \in Items : Ending(j)' = Ending(j)
    BY <1>1 DEF Ending
  <2> QED
    BY <1>1, <2>1 DEF Promised!vars
<1>2. ASSUME NEW i \in Items, Go(i) \/ Route(i) \/ Completion(i) PROVE UNCHANGED Promised!vars
  BY <1>1, <1>2, ItemSteps DEF Moves, calls
<1>3. ASSUME NEW i \in Items, RespondContent(i) \/ BadPrompt(i) \/ CompletionFails(i)
      PROVE  Promised!Next
  BY <1>3, ItemSteps, PromisedSettles DEF Causes
<1>4. ASSUME NEW b \in Batches, GiveUp(b) PROVE Promised!Next
  <2>1. PICK i \in Items : BatchOf[i] = b /\ phase[i] # "done"
    BY <1>4 DEF GiveUp, Batch
  <2>2. Ending(i) = "open" /\ b \notin gaveUp /\ gaveUp' = gaveUp \cup {b} /\ outcome' = outcome
    BY <1>4, <2>1 DEF GiveUp, Ending, HandlerInv
  <2>3. \A j \in Items : Ending(j)' = Ending(j)
    BY <2>2 DEF Ending
  <2>4. Promised!Abandon(BatchOf[i])
    BY <2>1, <2>2, <2>3 DEF Promised!Abandon, Promised!Open
  <2> QED
    BY <2>4 DEF Promised!Next
<1>5. CASE UNCHANGED <<phase, outcome, calls>>
  BY <1>1, <1>5 DEF calls
<1>6. CASE UNCHANGED vars
  BY <1>1, <1>6 DEF vars, calls
<1> QED
  BY <1>2, <1>3, <1>4, <1>5, <1>6, NextDisjuncts

\* The safety of the promise in BatchedCall: each prompt is settled once and for good, and is
\* aborted only in a call that was given up.
THEOREM SettledOnce == Spec => Promised!Init /\ [][Promised!Next]_(Promised!vars)
BY HandlerInit, HandlerStep, PromisedInit, PromisedStep, PTL DEF Spec

----------------------------------------------------------------------------
(* Types *)

\* What is registered is registrable.
WellRegistered ==
  /\ DOMAIN registry \subseteq DOMAIN Registrable
  /\ \A m \in DOMAIN registry : registry[m] \in Registrable[m]

\* An entry names a client there is, by a name there is.
LEMMA EntryType ==
  ASSUME WellRegistered
  PROVE  /\ \A e \in Entries : e.client \in Clients /\ e.name \in Names
         /\ Everyone \subseteq Clients /\ Priceable \subseteq Everyone
<1>1. \A e \in Entries : e.client \in Clients /\ e.name \in Names
  <2> SUFFICES ASSUME NEW e \in Entries PROVE e.client \in Clients /\ e.name \in Names
    OBVIOUS
  <2>1. CASE e = Entry("default", NameOf[Default], Default)
    BY <2>1, ClientsAssumption DEF Entry, Names
  <2>2. CASE \E c \in {Other} \ {NoClient} : e = Entry("other", NameOf[c], c)
    BY <2>2, ClientsAssumption DEF Entry, Names
  <2>3. CASE \E m \in DOMAIN registry : e = Entry("registry", m, registry[m])
    BY <2>3, ClientsAssumption DEF Entry, Names, WellRegistered
  <2> QED
    BY <2>1, <2>2, <2>3 DEF Entries
<1> QED
  BY <1>1 DEF Everyone, Named, Priceable

\* The client an item is routed to is a client there is.
LEMMA GetClientType ==
  ASSUME WellRegistered, NEW model, NEW depth
  PROVE  GetClient(model, depth) \in Clients
BY ClientsAssumption DEF GetClient, WellRegistered

\* Usages are added to usages; what one completion uses is one.
LEMMA UsageType ==
  ASSUME NEW c, NEW n \in Nat, NEW u \in Usage, NEW v \in Usage
  PROVE  UsageOf(c, n) \in Usage /\ AddModelUsage(u, v) \in Usage
BY DEF UsageOf, AddModelUsage, Usage

\* Adding what a client used to what it used before is the usage of the sum.
LEMMA UsageAdds ==
  ASSUME NEW c, NEW m \in Nat, NEW n \in Nat
  PROVE  AddModelUsage(UsageOf(c, m), UsageOf(c, n)) = UsageOf(c, m + n)
BY ItemsAssumption DEF UsageOf, AddModelUsage

\* What clients have spent is a natural number, each of them and together.
LEMMA SpentType ==
  ASSUME served \in [Clients -> SUBSET Items], NEW S \in SUBSET Clients
  PROVE  TokensBy \in [Clients -> Nat] /\ IsFiniteSet(S) /\ Spent(S) \in Nat
<1>1. ASSUME NEW c \in Clients PROVE SumFunctionOnSet(Tokens, served[c]) \in Nat
  <2>1. IsFiniteSet(served[c]) /\ \A i \in served[c] : Tokens[i] \in Nat
    BY ItemsAssumption, FS_Subset
  <2> QED
    BY <2>1, SumType
<1>2. TokensBy \in [Clients -> Nat]
  BY <1>1 DEF TokensBy
<1>3. IsFiniteSet(S) /\ \A c \in S : TokensBy[c] \in Nat
  BY <1>2, ClientsAssumption, FS_Subset
<1> QED
  BY <1>2, <1>3, SumType DEF Spent

\* What a report is, whichever names it has merged.
IsReport(r, entries) ==
  \E N \in SUBSET Names :
    r \in [left : SUBSET entries, merged : [N -> Usage], everyone : SUBSET Clients,
           floor : Nat, priced : SUBSET Clients, pricedFloor : Nat]

\* The fields of a report, and reports made of them.
LEMMA ReportFields ==
  ASSUME NEW entries, NEW r, IsReport(r, entries)
  PROVE  /\ r.left \subseteq entries /\ DOMAIN r.merged \subseteq Names
         /\ r.merged \in [DOMAIN r.merged -> Usage]
         /\ r.everyone \subseteq Clients
         /\ r.floor \in Nat /\ r.priced \subseteq Clients /\ r.pricedFloor \in Nat
BY DEF IsReport

LEMMA IdleIsReport == ASSUME NEW entries PROVE IsReport(Idle, entries)
<1>1. Idle.merged \in [{} -> Usage] /\ Idle.left = {} /\ Idle.floor = 0 /\ Idle.priced = {}
      /\ Idle.pricedFloor = 0 /\ Idle.everyone = {}
  BY DEF Idle
<1>2. Idle \in [left : SUBSET entries, merged : [{} -> Usage], everyone : SUBSET Clients,
                floor : Nat, priced : SUBSET Clients, pricedFloor : Nat]
  BY DEF Idle
<1> QED
  BY <1>2 DEF IsReport

\* The initial state is well typed.
LEMMA TypeInit == Init => TypeOK
<1> SUFFICES ASSUME Init PROVE TypeOK
  OBVIOUS
<1>1. \A c : UsageOf(c, 0) \in Usage
  BY DEF UsageOf, Usage
<1>2. usage \in [Items -> Usage] /\ summary \in [Clients -> Usage] /\ last \in [Clients -> Usage]
  BY <1>1 DEF Init
<1>3. IsReport(report, Entries)
  BY IdleIsReport DEF Init
<1> QED
  BY <1>2, <1>3 DEF Init, TypeOK, IsReport

\* Recording a completion keeps the clients' usages.
LEMMA RecordType ==
  ASSUME TypeOK, NEW c \in Clients, NEW n \in Nat, RecordUsage(c, n)
  PROVE  summary' \in [Clients -> Usage] /\ last' \in [Clients -> Usage]
<1>1. UsageOf(c, n) \in Usage /\ AddModelUsage(summary[c], UsageOf(c, n)) \in Usage
  BY UsageType DEF TypeOK
<1> QED
  BY <1>1 DEF RecordUsage, TypeOK

\* What is merged of an entry is a usage by name.
LEMMA MergedType ==
  ASSUME TypeOK, NEW e \in report.left
  PROVE  /\ e \in Entries /\ e.name \in Names /\ e.client \in Clients
         /\ Merged(e) \in [DOMAIN report.merged \cup {e.name} -> Usage]
<1>1. IsReport(report, Entries)
  BY DEF TypeOK, IsReport
<1>2. e \in Entries /\ report.merged \in [DOMAIN report.merged -> Usage]
  BY <1>1, ReportFields
<1>3. e.name \in Names /\ e.client \in Clients
  BY <1>2, EntryType DEF TypeOK, WellRegistered
<1>4. summary[e.client] \in Usage
  BY <1>3 DEF TypeOK
<1>5. \A m \in DOMAIN report.merged :
        /\ report.merged[m] \in Usage
        /\ AddModelUsage(report.merged[m], summary[e.client]) \in Usage
  BY <1>2, <1>4, UsageType
<1> QED
  BY <1>2, <1>3, <1>4, <1>5 DEF Merged

\* Every step keeps the types.
LEMMA TypeStep == TypeOK /\ [Next]_vars => TypeOK'
<1> SUFFICES ASSUME TypeOK, [Next]_vars PROVE TypeOK'
  OBVIOUS
<1> USE DEF calls, counters
<1>1. IsReport(report, Entries)
  BY DEF TypeOK, IsReport
<1>2. ASSUME UNCHANGED <<registry, report>> PROVE IsReport(report', Entries')
  BY <1>1, <1>2 DEF Entries, IsReport
<1>3. ASSUME NEW i \in Items, Go(i) PROVE TypeOK'
  BY <1>2, <1>3 DEF Go, TypeOK, IsReport
<1>4. ASSUME NEW i \in Items, Route(i) PROVE TypeOK'
  <2>1. GetClient(Model[i], ItemDepth[i]) \in Clients
    BY GetClientType DEF TypeOK, WellRegistered
  <2>2. route' \in [Items -> Clients \cup {NoClient}] /\ route'[i] \in Clients
    BY <1>4, <2>1 DEF Route, TypeOK
  <2>3. \A j \in Items : phase'[j] \in {"called", "counted"} => route'[j] \in Clients
    BY <1>4, <2>2 DEF Route, TypeOK
  <2> QED
    BY <1>2, <1>4, <2>2, <2>3 DEF Route, TypeOK, IsReport
<1>5. ASSUME NEW i \in Items, Completion(i) PROVE TypeOK'
  <2>1. route[i] \in Clients /\ Tokens[i] \in Nat
    BY <1>5, ItemsAssumption DEF Completion, TypeOK
  <2>2. summary' \in [Clients -> Usage] /\ last' \in [Clients -> Usage]
    BY <1>5, <2>1, RecordType DEF Completion
  <2>3. served' \in [Clients -> SUBSET Items]
    BY <1>5, <2>1 DEF Completion, TypeOK
  <2> QED
    BY <1>2, <1>5, <2>2, <2>3 DEF Completion, TypeOK, IsReport
<1>6. ASSUME NEW i \in Items, NEW cause \in Causes, phase[i] # "done", RespondError(i, cause)
      PROVE  TypeOK'
  <2>1. phase' \in [Items -> {"asked", "admitted", "called", "counted", "done"}]
        /\ outcome' \in [Items -> {"none", "content", "prompt", "lm", "context"}]
    BY <1>6 DEF RespondError, TypeOK, Causes
  <2>2. \A j \in Items : phase'[j] = "done" <=> outcome'[j] # "none"
    BY <1>6 DEF RespondError, TypeOK, Causes
  <2>3. \A j \in Items : phase'[j] \in {"called", "counted"} => route'[j] \in Clients
    BY <1>6 DEF RespondError, TypeOK
  <2> QED
    BY <1>2, <1>6, <2>1, <2>2, <2>3 DEF RespondError, TypeOK, IsReport
<1>7. ASSUME NEW i \in Items, RespondContent(i) PROVE TypeOK'
  <2>1. last[route[i]] \in Usage
    BY <1>7 DEF RespondContent, TypeOK
  <2>2. usage' \in [Items -> Usage]
    BY <1>7, <2>1 DEF RespondContent, TypeOK
  <2>3. \A j \in Items : phase'[j] = "done" <=> outcome'[j] # "none"
    BY <1>7 DEF RespondContent, TypeOK
  <2>4. \A j \in Items : phase'[j] \in {"called", "counted"} => route'[j] \in Clients
    BY <1>7 DEF RespondContent, TypeOK
  <2> QED
    BY <1>2, <1>7, <2>2, <2>3, <2>4 DEF RespondContent, TypeOK, IsReport
<1>8. ASSUME Registers PROVE TypeOK'
  <2> PICK m \in DOMAIN Registrable : \E c \in Registrable[m] : RegisterClient(m, c)
    BY <1>8 DEF Registers
  <2> PICK c \in Registrable[m] : RegisterClient(m, c)
    OBVIOUS
  <2>1. report' = report /\ report.left = {}
    BY DEF RegisterClient
  <2>2. IsReport(report', Entries')
    BY <1>1, <2>1 DEF IsReport
  <2>3. /\ DOMAIN registry' = DOMAIN registry \cup {m}
        /\ \A n \in DOMAIN registry' : registry'[n] = IF n = m THEN c ELSE registry[n]
        /\ registry' = [n \in DOMAIN registry' |-> registry'[n]]
    BY DEF RegisterClient
  <2>4. \A n \in DOMAIN registry' : registry'[n] \in Registrable[n] /\ registry'[n] \in Clients
    BY <2>3, ClientsAssumption DEF TypeOK
  <2>5. registry' \in [DOMAIN registry' -> Clients] /\ DOMAIN registry' \subseteq DOMAIN Registrable
    BY <2>3, <2>4 DEF TypeOK
  <2> QED
    BY <2>2, <2>4, <2>5 DEF RegisterClient, TypeOK, IsReport
<1>9. ASSUME NEW b \in Batches, GiveUp(b) PROVE TypeOK'
  BY <1>2, <1>9 DEF GiveUp, TypeOK, IsReport
<1>10. CASE BeginReport
  <2>1. /\ Named \subseteq Entries /\ Spent(Everyone) \in Nat /\ Spent(Priceable) \in Nat
        /\ Everyone \subseteq Clients /\ Priceable \subseteq Clients
    BY EntryType, SpentType DEF TypeOK, Named, WellRegistered
  <2>2. report' = [left |-> Named, merged |-> Idle.merged, everyone |-> Everyone,
                   floor |-> Spent(Everyone), priced |-> Priceable, pricedFloor |-> Spent(Priceable)]
    BY <1>10 DEF BeginReport, Idle
  <2>3. Idle.merged \in [{} -> Usage]
    BY DEF Idle
  <2>4. report' \in [left : SUBSET Entries, merged : [{} -> Usage], everyone : SUBSET Clients,
                     floor : Nat, priced : SUBSET Clients, pricedFloor : Nat]
    BY <2>1, <2>2, <2>3
  <2>5. IsReport(report', Entries)
    BY <2>4 DEF IsReport
  <2>6. UNCHANGED Entries
    BY <1>10 DEF BeginReport, Entries
  <2> QED
    BY <1>10, <2>5, <2>6 DEF BeginReport, TypeOK, IsReport
<1>11. ASSUME NEW e \in report.left, MergeUsage(e) PROVE TypeOK'
  <2>1. PICK N \in SUBSET Names :
          report \in [left : SUBSET Entries, merged : [N -> Usage], everyone : SUBSET Clients,
                      floor : Nat, priced : SUBSET Clients, pricedFloor : Nat]
    BY <1>1 DEF IsReport
  <2>2. Merged(e) \in [N \cup {e.name} -> Usage] /\ N \cup {e.name} \in SUBSET Names
    BY <2>1, MergedType
  <2>3. report' = [report EXCEPT !.left = @ \ {e}, !.merged = Merged(e)]
    BY <1>11 DEF MergeUsage
  <2>4. report' \in [left : SUBSET Entries, merged : [N \cup {e.name} -> Usage], everyone : SUBSET Clients,
                     floor : Nat, priced : SUBSET Clients, pricedFloor : Nat]
    BY <2>1, <2>2, <2>3
  <2>5. IsReport(report', Entries)
    BY <2>2, <2>4 DEF IsReport
  <2>6. UNCHANGED Entries
    BY <1>11 DEF MergeUsage, Entries
  <2> QED
    BY <1>11, <2>5, <2>6 DEF MergeUsage, TypeOK, IsReport
<1>12. CASE UNCHANGED vars
  BY <1>2, <1>12 DEF vars, TypeOK, IsReport, Batches
<1>13. ASSUME NEW i \in Items, BadPrompt(i) \/ CompletionFails(i) PROVE TypeOK'
  BY <1>6, <1>13 DEF BadPrompt, CompletionFails, Causes
<1> QED
  BY <1>3, <1>4, <1>5, <1>7, <1>8, <1>9, <1>10, <1>11, <1>12, <1>13 DEF Next, Handle, Registers

\* In every reachable state the variables have their types, a client is behind every item under
\* way, and every item that is done has a response.
THEOREM Typing == Spec => []TypeOK
BY TypeInit, TypeStep, PTL DEF Spec

----------------------------------------------------------------------------
(* What is counted *)

\* What makes EveryCallCounted inductive: an item a client has completed is past its completion,
\* so that none completes twice.
CountInv ==
  /\ \A c \in Clients : \A i \in served[c] : phase[i] \in {"counted", "done"}
  /\ EveryCallCounted

\* At the start no client has served anything.
LEMMA CountInit == Init => CountInv
<1> SUFFICES ASSUME Init, NEW c \in Clients PROVE summary[c] = UsageOf(c, TokensBy[c])
  BY DEF Init, CountInv, EveryCallCounted
<1>1. served[c] = {} /\ summary[c] = UsageOf(c, 0)
  BY DEF Init
<1> QED
  BY <1>1, SumEmpty DEF TokensBy

\* A completion adds the item's tokens to those its client has counted, and to no other's.
LEMMA CompletionCounts ==
  ASSUME TypeOK, CountInv, NEW i \in Items, Completion(i)
  PROVE  /\ route[i] \in Clients /\ Tokens[i] \in Nat
         /\ TokensBy \in [Clients -> Nat] /\ TokensBy' \in [Clients -> Nat]
         /\ \A c \in Clients :
              TokensBy'[c] = IF c = route[i] THEN TokensBy[c] + Tokens[i] ELSE TokensBy[c]
<1>1. route[i] \in Clients /\ Tokens[i] \in Nat
  BY ItemsAssumption DEF Completion, TypeOK
<1>2. \A c \in Clients : served'[c] = IF c = route[i] THEN served[c] \cup {i} ELSE served[c]
  BY <1>1 DEF Completion, TypeOK
<1>3. served \in [Clients -> SUBSET Items] /\ served' \in [Clients -> SUBSET Items]
  BY <1>1 DEF Completion, TypeOK
<1>4. TokensBy \in [Clients -> Nat]
  BY <1>3, SpentType
<1>5. i \notin served[route[i]]
  BY <1>1 DEF Completion, CountInv
<1>6. IsFiniteSet(served[route[i]]) /\ \A j \in served[route[i]] : Tokens[j] \in Nat
  BY <1>1, <1>3, ItemsAssumption, FS_Subset
<1>7. SumFunctionOnSet(Tokens, served[route[i]] \cup {i})
        = SumFunctionOnSet(Tokens, served[route[i]]) + Tokens[i]
  BY <1>1, <1>5, <1>6, SumAdd
<1>8. \A c \in Clients :
        TokensBy'[c] = IF c = route[i] THEN TokensBy[c] + Tokens[i] ELSE TokensBy[c]
  BY <1>1, <1>2, <1>7 DEF TokensBy
<1>9. TokensBy' \in [Clients -> Nat]
  <2>1. \A c \in Clients : TokensBy'[c] \in Nat
    BY <1>1, <1>4, <1>8
  <2> QED
    BY <2>1 DEF TokensBy
<1> QED
  BY <1>1, <1>4, <1>8, <1>9

\* A step that completes no item moves none that was completed back, and counts nothing.
LEMMA OtherSteps ==
  ASSUME TypeOK, [Next]_vars, ~ \E i \in Items : Completion(i)
  PROVE  /\ UNCHANGED <<summary, served>>
         /\ \A i \in Items : phase[i] \in {"counted", "done"} => phase'[i] \in {"counted", "done"}
<1> USE DEF counters, TypeOK
<1>1. CASE \E i \in Items : Handle(i)
  <2> PICK i \in Items : Handle(i)
    BY <1>1
  <2>1. CASE Go(i) \/ Route(i)
    BY <2>1 DEF Go, Route
  <2>2. CASE BadPrompt(i) \/ CompletionFails(i)
    BY <2>2 DEF BadPrompt, CompletionFails, RespondError
  <2>3. CASE RespondContent(i)
    BY <2>3 DEF RespondContent
  <2> QED
    BY <2>1, <2>2, <2>3 DEF Handle
<1>2. CASE Registers
  BY <1>2 DEF Registers, RegisterClient
<1>3. CASE \E b \in Batches : GiveUp(b)
  BY <1>3 DEF GiveUp
<1>4. CASE BeginReport
  BY <1>4 DEF BeginReport
<1>5. CASE \E e \in report.left : MergeUsage(e)
  BY <1>5 DEF MergeUsage
<1>6. CASE UNCHANGED vars
  BY <1>6 DEF vars
<1> QED
  BY <1>1, <1>2, <1>3, <1>4, <1>5, <1>6 DEF Next, Registers

\* Every step keeps the count.
LEMMA CountStep == TypeOK /\ CountInv /\ [Next]_vars => CountInv'
<1> SUFFICES ASSUME TypeOK, CountInv, [Next]_vars PROVE CountInv'
  OBVIOUS
<1>1. CASE \E i \in Items : Completion(i)
  <2> PICK i \in Items : Completion(i)
    BY <1>1
  <2>1. /\ route[i] \in Clients /\ Tokens[i] \in Nat /\ TokensBy \in [Clients -> Nat]
        /\ \A c \in Clients :
             TokensBy'[c] = IF c = route[i] THEN TokensBy[c] + Tokens[i] ELSE TokensBy[c]
    BY CompletionCounts
  <2>2. \A c \in Clients : \A j \in served'[c] : phase'[j] \in {"counted", "done"}
    BY <2>1 DEF Completion, TypeOK, CountInv
  <2>3. \A c \in Clients :
          summary'[c] = IF c = route[i] THEN AddModelUsage(summary[c], UsageOf(c, Tokens[i]))
                        ELSE summary[c]
    BY <2>1 DEF Completion, RecordUsage, TypeOK
  <2>4. ASSUME NEW c \in Clients PROVE summary'[c] = UsageOf(c, TokensBy'[c])
    <3>1. summary[c] = UsageOf(c, TokensBy[c]) /\ TokensBy[c] \in Nat
      BY <2>1 DEF CountInv, EveryCallCounted
    <3>2. AddModelUsage(UsageOf(c, TokensBy[c]), UsageOf(c, Tokens[i]))
            = UsageOf(c, TokensBy[c] + Tokens[i])
      BY <2>1, <3>1, UsageAdds
    <3> QED
      BY <2>1, <2>3, <3>1, <3>2
  <2> QED
    BY <2>2, <2>4 DEF CountInv, EveryCallCounted
<1>2. CASE ~ \E i \in Items : Completion(i)
  <2>1. /\ UNCHANGED <<summary, served>> /\ \A c \in Clients : served[c] \subseteq Items
        /\ \A i \in Items : phase[i] \in {"counted", "done"} => phase'[i] \in {"counted", "done"}
    BY <1>2, OtherSteps DEF TypeOK
  <2>2. UNCHANGED TokensBy
    BY <2>1 DEF TokensBy
  <2> QED
    BY <2>1, <2>2 DEF CountInv, EveryCallCounted
<1> QED
  BY <1>1, <1>2

\* No completion is lost or counted twice, for any number of items on any number of clients.
THEOREM Counted == Spec => []EveryCallCounted
<1>1. CountInv => EveryCallCounted
  BY DEF CountInv
<1> QED
  BY <1>1, TypeInit, TypeStep, CountInit, CountStep, PTL DEF Spec

----------------------------------------------------------------------------
(* What is reported *)

\* The clients left to merge, and the tokens a summary has by name.
Left == {e.client : e \in report.left}
TokensIn(merged) == [m \in DOMAIN merged |-> merged[m].tokens]

\* What makes the first part of ReportIsCurrent inductive, and gives the second: what is merged and
\* what the clients left have spent by now is together no less than what had been spent at the
\* start, and no more than what they have spent.
Known == TotalTokens(report.merged) + Spent(Left)
ReportInv ==
  /\ report.left \subseteq Named /\ Left \subseteq report.everyone
  /\ IsFiniteSet(DOMAIN report.merged)
  /\ report.floor <= Known /\ Known <= Spent(report.everyone)

Registered(e) ==
  \E m \in DOMAIN registry : e = Entry("registry", m, registry[m]) /\ e.client = registry[m]

\* Of two entries with the same client there is but one.
LEMMA EntryOfClient ==
  ASSUME OneNameEach, WellRegistered, NEW e \in Entries, NEW f \in Entries,
         e.client = f.client
  PROVE  e = f
<1>1. ASSUME NEW d \in Entries
      PROVE  \/ d = Entry("default", NameOf[Default], Default) /\ d.client = Default
             \/ Other # NoClient /\ d = Entry("other", NameOf[Other], Other) /\ d.client = Other
             \/ Registered(d)
  BY DEF Entries, Entry, Registered
<1>2. \A m \in DOMAIN registry : registry[m] # Default /\ registry[m] # Other
  BY DEF OneNameEach, WellRegistered
<1>3. CASE Registered(e)
  <2>1. PICK m \in DOMAIN registry : e = Entry("registry", m, registry[m]) /\ e.client = registry[m]
    BY <1>3 DEF Registered
  <2>2. PICK n \in DOMAIN registry : f = Entry("registry", n, registry[n]) /\ f.client = registry[n]
    BY <1>1, <1>2, <2>1 DEF Registered
  <2>3. m = n
    BY <2>1, <2>2 DEF OneNameEach, WellRegistered
  <2> QED
    BY <2>1, <2>2, <2>3
<1>4. CASE ~ Registered(e)
  <2>1. ~ Registered(f)
    BY <1>1, <1>2, <1>4 DEF Registered
  <2> QED
    BY <1>1, <1>4, <2>1 DEF OneNameEach
<1> QED
  BY <1>3, <1>4

\* Fewer clients have spent no more; and what one has spent is its part of what all have.
LEMMA SpentOfFewer ==
  ASSUME TypeOK, NEW T \in SUBSET Clients, NEW S \in SUBSET T
  PROVE  Spent(S) <= Spent(T)
<1>1. IsFiniteSet(T) /\ \A c \in T : TokensBy[c] \in Nat
  BY SpentType DEF TypeOK
<1> QED
  BY <1>1, SumMonotone DEF Spent

LEMMA SpentByOne ==
  ASSUME TypeOK, NEW S \in SUBSET Clients, NEW c \in S
  PROVE  Spent(S) = Spent(S \ {c}) + TokensBy[c] /\ TokensBy[c] \in Nat /\ Spent(S \ {c}) \in Nat
<1>1. IsFiniteSet(S) /\ \A d \in S : TokensBy[d] \in Nat
  BY SpentType DEF TypeOK
<1>2. Spent(S \ {c}) \in Nat
  BY SpentType DEF TypeOK
<1> QED
  BY <1>1, <1>2, SumRemove DEF Spent

\* A completion raises the spending of the sets of clients its own is in.
LEMMA CompletionSpends ==
  ASSUME TypeOK, CountInv, NEW i \in Items, Completion(i), NEW S \in SUBSET Clients
  PROVE  SumFunctionOnSet(TokensBy', S) = IF route[i] \in S THEN Spent(S) + Tokens[i] ELSE Spent(S)
<1>1. /\ Tokens[i] \in Nat /\ TokensBy \in [Clients -> Nat]
      /\ \A c \in Clients :
           TokensBy'[c] = IF c = route[i] THEN TokensBy[c] + Tokens[i] ELSE TokensBy[c]
  BY CompletionCounts
<1>2. IsFiniteSet(S) /\ \A c \in S : TokensBy[c] \in Nat
  BY <1>1, SpentType DEF TypeOK
<1>3. CASE route[i] \in S
  <2>1. (\A c \in S \ {route[i]} : TokensBy'[c] = TokensBy[c])
        /\ TokensBy'[route[i]] = TokensBy[route[i]] + Tokens[i]
    BY <1>1, <1>3
  <2>2. SumFunctionOnSet(TokensBy', S) = SumFunctionOnSet(TokensBy, S) + Tokens[i]
    BY <1>1, <1>2, <1>3, <2>1, SumRaised
  <2> QED
    BY <1>3, <2>2 DEF Spent
<1>4. CASE route[i] \notin S
  <2>1. \A c \in S : TokensBy[c] \in Nat /\ TokensBy'[c] = TokensBy[c]
    BY <1>1, <1>2, <1>4
  <2>2. SumFunctionOnSet(TokensBy', S) = SumFunctionOnSet(TokensBy, S)
    BY <1>2, <2>1, SumSame
  <2> QED
    BY <1>4, <2>2 DEF Spent
<1> QED
  BY <1>3, <1>4

\* Merging an entry adds what its client has spent to the names P, if the entry's is one of those
\* or a new one, and nothing if it is none.
LEMMA MergedTokens ==
  ASSUME TypeOK, CountInv, IsFiniteSet(DOMAIN report.merged), NEW e \in report.left,
         NEW P \in SUBSET DOMAIN report.merged
  PROVE  /\ e.name \in P \/ e.name \notin DOMAIN report.merged =>
              SumFunctionOnSet(TokensIn(Merged(e)), P \cup {e.name})
                = SumFunctionOnSet(TokensIn(report.merged), P) + TokensBy[e.client]
         /\ e.name \notin P =>
              SumFunctionOnSet(TokensIn(Merged(e)), P)
                = SumFunctionOnSet(TokensIn(report.merged), P)
         /\ SumFunctionOnSet(TokensIn(report.merged), P) \in Nat
<1> DEFINE before == TokensIn(report.merged)
           after == TokensIn(Merged(e))
           spent == TokensBy[e.client]
<1>1. /\ e.client \in Clients /\ report.merged \in [DOMAIN report.merged -> Usage]
      /\ DOMAIN Merged(e) = DOMAIN report.merged \cup {e.name}
  BY MergedType, ReportFields DEF TypeOK, IsReport
<1>2. spent \in Nat /\ summary[e.client].tokens = spent
  <2>1. summary[e.client] = UsageOf(e.client, spent)
    BY <1>1 DEF CountInv, EveryCallCounted
  <2>2. Clients \in SUBSET Clients /\ served \in [Clients -> SUBSET Items]
    BY DEF TypeOK
  <2>3. TokensBy \in [Clients -> Nat]
    BY <2>2, SpentType
  <2> QED
    BY <1>1, <2>1, <2>3 DEF UsageOf
<1>3. \A m \in DOMAIN report.merged : before[m] \in Nat
  BY <1>1 DEF TokensIn, Usage
<1>4. \A m \in DOMAIN report.merged :
        after[m] = IF m = e.name THEN before[m] + spent ELSE before[m]
  BY <1>1, <1>2 DEF TokensIn, Merged, AddModelUsage
<1>5. e.name \notin DOMAIN report.merged => after[e.name] = spent
  BY <1>1, <1>2 DEF TokensIn, Merged
<1>6. IsFiniteSet(P) /\ \A m \in P : before[m] \in Nat
  BY <1>3, FS_Subset
<1> HIDE DEF before, after, spent
<1>7. e.name \in P => SumFunctionOnSet(after, P) = SumFunctionOnSet(before, P) + spent
  <2> SUFFICES ASSUME e.name \in P
               PROVE  SumFunctionOnSet(after, P) = SumFunctionOnSet(before, P) + spent
    OBVIOUS
  <2>1. (\A m \in P \ {e.name} : after[m] = before[m]) /\ after[e.name] = before[e.name] + spent
    BY <1>4
  <2> QED
    BY <1>2, <1>6, <2>1, SumRaised
<1>8. e.name \notin P => SumFunctionOnSet(after, P) = SumFunctionOnSet(before, P)
  <2> SUFFICES ASSUME e.name \notin P
               PROVE  SumFunctionOnSet(after, P) = SumFunctionOnSet(before, P)
    OBVIOUS
  <2>1. \A m \in P : before[m] \in Nat /\ after[m] = before[m]
    BY <1>4, <1>6
  <2> QED
    BY <1>6, <2>1, SumSame
<1>9. e.name \notin DOMAIN report.merged =>
        SumFunctionOnSet(after, P \cup {e.name}) = SumFunctionOnSet(before, P) + spent
  <2> SUFFICES ASSUME e.name \notin DOMAIN report.merged
               PROVE  SumFunctionOnSet(after, P \cup {e.name}) = SumFunctionOnSet(before, P) + spent
    OBVIOUS
  <2>1. e.name \notin P /\ after[e.name] = spent
    BY <1>5
  <2>2. after[e.name] \in Nat /\ \A m \in P : after[m] \in Nat
    BY <1>2, <1>4, <1>6, <2>1
  <2>3. SumFunctionOnSet(after, P \cup {e.name}) = SumFunctionOnSet(after, P) + after[e.name]
    BY <1>6, <2>1, <2>2, SumAdd
  <2> QED
    BY <1>8, <2>1, <2>3
<1>10. e.name \in P => P \cup {e.name} = P
  OBVIOUS
<1>11. SumFunctionOnSet(before, P) \in Nat
  BY <1>6, SumType
<1> QED
  BY <1>7, <1>8, <1>9, <1>10, <1>11 DEF before, after, spent

\* What a summary totals, over its names.
LEMMA TotalIsSum == ASSUME NEW m PROVE TotalTokens(m) = SumFunctionOnSet(TokensIn(m), DOMAIN m)
BY DEF TotalTokens, TokensIn, SumFunction

\* The clients left and the clients a report is of are clients there are; what they have spent and
\* what a report totals are numbers.
LEMMA ReportTypes ==
  ASSUME TypeOK, ReportInv
  PROVE  /\ Left \subseteq report.everyone /\ report.everyone \subseteq Clients
         /\ Spent(Left) \in Nat /\ Spent(report.everyone) \in Nat
         /\ TotalTokens(report.merged) \in Nat /\ report.floor \in Nat
<1>1. Left \subseteq report.everyone /\ report.everyone \subseteq Clients
  BY ReportFields DEF TypeOK, IsReport, ReportInv
<1>2. Spent(Left) \in Nat /\ Spent(report.everyone) \in Nat
  BY <1>1, SpentType DEF TypeOK
<1>3. report.merged \in [DOMAIN report.merged -> Usage] /\ report.floor \in Nat
  BY ReportFields DEF TypeOK, IsReport
<1>4. \A m \in DOMAIN report.merged : TokensIn(report.merged)[m] \in Nat
  BY <1>3 DEF TokensIn, Usage
<1>5. TotalTokens(report.merged) \in Nat
  BY <1>4, SumType, TotalIsSum DEF ReportInv
<1> QED
  BY <1>1, <1>2, <1>3, <1>5

\* The names of no client total nothing.
LEMMA NothingTotal == TotalTokens(Idle.merged) = 0
<1>1. DOMAIN Idle.merged = {}
  BY DEF Idle
<1> QED
  BY <1>1, TotalIsSum, SumEmpty

\* Merging an entry takes its client off those left, and no other.
LEMMA MergeLeaves ==
  ASSUME OneNameEach, TypeOK, NEW e \in report.left, MergeUsage(e)
  PROVE  /\ e.client \in Left /\ Left' = Left \ {e.client} /\ Left \subseteq Clients
         /\ report'.merged = Merged(e) /\ report'.left = report.left \ {e}
         /\ report'.floor = report.floor /\ report'.priced = report.priced
         /\ report'.pricedFloor = report.pricedFloor /\ report'.everyone = report.everyone
         /\ DOMAIN report'.merged = DOMAIN report.merged \cup {e.name}
         /\ UNCHANGED <<registry, served>>
<1>1. report.left \subseteq Entries /\ WellRegistered
  BY ReportFields DEF TypeOK, IsReport, WellRegistered
<1>2. \A f \in report.left : f.client = e.client => f = e
  BY <1>1, EntryOfClient
<1>3. \A f \in report.left : f.client \in Clients
  BY <1>1, EntryType
<1>4. report' = [report EXCEPT !.left = @ \ {e}, !.merged = Merged(e)]
  BY DEF MergeUsage
<1>5. /\ report'.merged = Merged(e) /\ report'.left = report.left \ {e}
      /\ report'.floor = report.floor /\ report'.priced = report.priced
      /\ report'.pricedFloor = report.pricedFloor /\ report'.everyone = report.everyone
  BY <1>4 DEF TypeOK
<1>6. DOMAIN Merged(e) = DOMAIN report.merged \cup {e.name}
  BY DEF Merged
<1>7. e.client \in Left /\ Left' = Left \ {e.client} /\ Left \subseteq Clients
  BY <1>2, <1>3, <1>5 DEF Left
<1> QED
  BY <1>5, <1>6, <1>7 DEF MergeUsage, counters

\* A step that completes no item, registers no client and works on no report leaves all that a
\* report is about alone.
LEMMA OutsideSteps ==
  ASSUME [Next]_vars, ~ \E i \in Items : Completion(i), ~ BeginReport,
         ~ Registers,
         ~ \E e \in report.left : MergeUsage(e)
  PROVE  UNCHANGED <<registry, report, served>>
<1> USE DEF counters
<1>1. CASE \E i \in Items : Handle(i)
  BY <1>1 DEF Handle, Go, BadPrompt, Route, CompletionFails, RespondError, RespondContent
<1>2. CASE \E b \in Batches : GiveUp(b)
  BY <1>2 DEF GiveUp
<1>3. CASE UNCHANGED vars
  BY <1>3 DEF vars
<1> QED
  BY <1>1, <1>2, <1>3 DEF Next, Registers

\* At the start there is nothing to report.
LEMMA ReportInit == Init => ReportInv
<1> SUFFICES ASSUME Init PROVE ReportInv
  OBVIOUS
<1>1. report = Idle /\ report.left = {} /\ report.floor = 0 /\ DOMAIN report.merged = {}
  BY DEF Init, Idle
<1>2. Left = {} /\ IsFiniteSet(DOMAIN report.merged)
  BY <1>1, FS_EmptySet DEF Left
<1>3. Spent(Left) = 0 /\ TotalTokens(report.merged) = 0
  BY <1>1, <1>2, SumEmpty, NothingTotal DEF Spent
<1>4. report.everyone = {} /\ Spent(report.everyone) = 0
  BY <1>1, SumEmpty DEF Idle, Spent
<1> QED
  BY <1>1, <1>2, <1>3, <1>4 DEF ReportInv, Known

\* Every step keeps it.
LEMMA ReportStep ==
  ASSUME OneNameEach, TypeOK, TypeOK', CountInv, ReportInv, [Next]_vars
  PROVE  ReportInv'
<1> DEFINE all == report.everyone
<1>1. /\ Left \subseteq all /\ all \subseteq Clients /\ Spent(Left) \in Nat /\ Spent(all) \in Nat
      /\ TotalTokens(report.merged) \in Nat /\ report.floor \in Nat
  BY ReportTypes
<1>2. ASSUME NEW i \in Items, Completion(i) PROVE ReportInv'
  <2>1. UNCHANGED <<registry, report>> /\ Tokens[i] \in Nat
    BY <1>2, ItemsAssumption DEF Completion
  <2>2. Left' = Left /\ Named' = Named
    BY <2>1 DEF Left, Named, Entries
  <2>3. /\ Spent(Left)' = IF route[i] \in Left THEN Spent(Left) + Tokens[i] ELSE Spent(Left)
        /\ Spent(all)' = IF route[i] \in all THEN Spent(all) + Tokens[i] ELSE Spent(all)
    BY <1>1, <1>2, <2>1, <2>2, CompletionSpends DEF Spent
  <2>4. report.floor <= Known' /\ Known' <= Spent(all)'
    BY <1>1, <2>1, <2>3 DEF ReportInv, Known
  <2> QED
    BY <2>1, <2>2, <2>4 DEF ReportInv
<1>3. CASE Registers
  <2>1. UNCHANGED <<report, served>> /\ report.left = {}
    BY <1>3 DEF Registers, RegisterClient, counters
  <2> QED
    BY <2>1 DEF ReportInv, Known, Left, Spent, TokensBy
<1>4. CASE BeginReport
  <2>1. /\ report'.left = Named /\ report'.floor = Spent(Everyone) /\ report'.everyone = Everyone
        /\ report'.merged = Idle.merged /\ UNCHANGED <<registry, served>>
    BY <1>4 DEF BeginReport, Idle, counters
  <2>2. Left' = Everyone /\ Named' = Named /\ TokensBy' = TokensBy
    BY <2>1 DEF Left, Everyone, Named, Entries, TokensBy
  <2>3. Spent(Everyone) \in Nat
    BY EntryType, SpentType DEF TypeOK, WellRegistered
  <2>4. Known' = Spent(Everyone) /\ Spent(all)' = Spent(Everyone)
    BY <2>1, <2>2, <2>3, NothingTotal DEF Known, Spent
  <2>5. IsFiniteSet(DOMAIN report'.merged)
    BY <2>1, FS_EmptySet DEF Idle
  <2> QED
    BY <2>1, <2>2, <2>3, <2>4, <2>5 DEF ReportInv
<1>5. ASSUME NEW e \in report.left, MergeUsage(e) PROVE ReportInv'
  <2> DEFINE names == DOMAIN report.merged
  <2>1. /\ e.client \in Left /\ Left' = Left \ {e.client} /\ Left \subseteq Clients
        /\ report'.merged = Merged(e) /\ report'.left = report.left \ {e}
        /\ report'.floor = report.floor /\ report'.everyone = all
        /\ DOMAIN report'.merged = names \cup {e.name}
        /\ UNCHANGED <<registry, served>>
    BY <1>5, MergeLeaves
  <2>2. Named' = Named /\ TokensBy' = TokensBy
    BY <2>1 DEF Named, Entries, TokensBy
  <2>3. e.name \in names \/ e.name \notin names =>
          SumFunctionOnSet(TokensIn(Merged(e)), names \cup {e.name})
            = SumFunctionOnSet(TokensIn(report.merged), names) + TokensBy[e.client]
    BY MergedTokens DEF ReportInv
  <2>4. TotalTokens(report'.merged) = TotalTokens(report.merged) + TokensBy[e.client]
    BY <2>1, <2>3, TotalIsSum
  <2>5. /\ Spent(Left) = Spent(Left \ {e.client}) + TokensBy[e.client]
        /\ TokensBy[e.client] \in Nat /\ Spent(Left \ {e.client}) \in Nat
    BY <2>1, SpentByOne
  <2>6. Spent(Left)' = Spent(Left \ {e.client}) /\ Spent(all)' = Spent(all)
    BY <2>1, <2>2 DEF Spent
  <2>7. Known' = Known
    BY <1>1, <2>4, <2>5, <2>6 DEF Known
  <2>8. IsFiniteSet(DOMAIN report'.merged)
    BY <2>1, FS_AddElement DEF ReportInv
  <2> QED
    BY <1>1, <2>1, <2>2, <2>6, <2>7, <2>8 DEF ReportInv
<1>6. CASE UNCHANGED <<registry, report, served>>
  BY <1>6 DEF ReportInv, Known, Left, Spent, TokensBy, Named, Entries
<1> QED
  BY <1>2, <1>3, <1>4, <1>5, <1>6, OutsideSteps

\* When no client goes by two names, a usage summary is never ahead of what has been spent and,
\* once it is complete, never behind what had been spent when it was asked for, though the clients
\* are read one after another while they serve.
THEOREM Reports == ASSUME OneNameEach PROVE Spec => []ReportIsCurrent
<1>1. TypeOK /\ ReportInv => ReportIsCurrent
  <2> SUFFICES ASSUME TypeOK, ReportInv PROVE ReportIsCurrent
    OBVIOUS
  <2>1. /\ Spent(Left) \in Nat /\ Spent(report.everyone) \in Nat
        /\ TotalTokens(report.merged) \in Nat /\ report.floor \in Nat
    BY ReportTypes
  <2>2. TotalTokens(report.merged) <= Spent(report.everyone)
    BY <2>1 DEF ReportInv, Known
  <2>3. report.left = {} => Spent(Left) = 0
    BY SumEmpty DEF Left, Spent
  <2>4. report.left = {} => report.floor <= TotalTokens(report.merged)
    BY <2>1, <2>3 DEF ReportInv, Known
  <2> QED
    BY <2>2, <2>4 DEF ReportIsCurrent
<1>2. TypeOK /\ TypeOK' /\ CountInv /\ ReportInv /\ [Next]_vars => ReportInv'
  BY ReportStep
<1> QED
  BY <1>1, <1>2, TypeInit, TypeStep, CountInit, CountStep, ReportInit, PTL DEF Spec

----------------------------------------------------------------------------
(* What the budget is held against *)

\* The clients left of a name all report costs.
AllPriced(name) == \A e \in report.left : e.name = name => e.client \in Priced

\* The names that have a cost so far and will keep it; their tokens, with what the clients left of
\* such names have spent.
HasCost(name) == report.merged[name].cost # NoCost
PricedNames == {m \in DOMAIN report.merged : HasCost(m) /\ AllPriced(m)}
PricedKnown ==
  SumFunctionOnSet(TokensIn(report.merged), PricedNames) + Spent(Left \cap report.priced)

\* What makes CostOfPricedNames inductive: a cost that is there is the tokens; the clients left that
\* can be priced are those of names no merged or unmerged client has spoilt; and their spending and
\* that of the priced names is together what ReportInv says of all.
CostInv ==
  /\ \A m \in DOMAIN report.merged : HasCost(m) => report.merged[m].cost = report.merged[m].tokens
  /\ \A e \in report.left :
       e.client \in report.priced <=>
         AllPriced(e.name) /\ (e.name \in DOMAIN report.merged => HasCost(e.name))
  /\ report.priced = {} <=> PricedNames = {} /\ Left \cap report.priced = {}
  /\ report.pricedFloor <= PricedKnown /\ PricedKnown <= Spent(report.priced)

\* The parts of PricedKnown are natural numbers.
LEMMA CostTypes ==
  ASSUME TypeOK, ReportInv
  PROVE  /\ report.priced \subseteq Clients /\ report.pricedFloor \in Nat
         /\ SumFunctionOnSet(TokensIn(report.merged), PricedNames) \in Nat
         /\ Spent(Left \cap report.priced) \in Nat /\ Spent(report.priced) \in Nat
         /\ \A m \in DOMAIN report.merged : TokensIn(report.merged)[m] \in Nat
         /\ IsFiniteSet(PricedNames)
<1>1. /\ report.priced \subseteq Clients /\ report.pricedFloor \in Nat
      /\ report.merged \in [DOMAIN report.merged -> Usage]
  BY ReportFields DEF TypeOK, IsReport
<1>2. Spent(Left \cap report.priced) \in Nat /\ Spent(report.priced) \in Nat
  BY <1>1, SpentType DEF TypeOK
<1>3. \A m \in DOMAIN report.merged : TokensIn(report.merged)[m] \in Nat
  BY <1>1 DEF TokensIn, Usage
<1>4. PricedNames \subseteq DOMAIN report.merged /\ IsFiniteSet(PricedNames)
  BY FS_Subset DEF PricedNames, ReportInv
<1>5. SumFunctionOnSet(TokensIn(report.merged), PricedNames) \in Nat
  BY <1>3, <1>4, SumType
<1> QED
  BY <1>1, <1>2, <1>3, <1>4, <1>5

\* At the start nothing is priced.
LEMMA CostInit == Init => CostInv
<1> SUFFICES ASSUME Init PROVE CostInv
  OBVIOUS
<1>1. /\ report.left = {} /\ DOMAIN report.merged = {} /\ report.priced = {}
      /\ report.pricedFloor = 0
  BY DEF Init, Idle
<1>2. PricedNames = {} /\ Left \cap report.priced = {}
  BY <1>1 DEF PricedNames
<1>3. PricedKnown = 0 /\ Spent(report.priced) = 0
  BY <1>1, <1>2, SumEmpty DEF PricedKnown, Spent
<1> QED
  BY <1>1, <1>2, <1>3 DEF CostInv

\* The cost of a name an entry is merged into: none if its client reports none or the name had
\* none, and the tokens otherwise; the other names keep theirs.
LEMMA MergedCost ==
  ASSUME TypeOK, CountInv, CostInv, NEW e \in report.left
  PROVE  LET m == Merged(e)
             old == report.merged
             n == e.name
         IN  /\ m[n].cost # NoCost <=> e.client \in Priced /\ (n \in DOMAIN old => HasCost(n))
             /\ m[n].cost # NoCost => m[n].cost = m[n].tokens
             /\ \A k \in DOMAIN old : k # n => m[k] = old[k]
<1> DEFINE n == e.name
           old == report.merged
<1>1. e.client \in Clients /\ old \in [DOMAIN old -> Usage]
  BY MergedType, ReportFields DEF TypeOK, IsReport
<1>2. summary[e.client] = UsageOf(e.client, TokensBy[e.client]) /\ TokensBy[e.client] \in Nat
  BY <1>1, SpentType DEF CountInv, EveryCallCounted, TypeOK
<1>3. /\ summary[e.client].tokens \in Nat
      /\ summary[e.client].cost = IF e.client \in Priced THEN summary[e.client].tokens ELSE NoCost
  BY <1>2 DEF UsageOf
<1>4. NoCost \notin Nat
  BY ItemsAssumption
<1>5. \A k \in DOMAIN old : k # n => Merged(e)[k] = old[k]
  BY DEF Merged
<1>6. CASE n \in DOMAIN old
  <2>1. old[n].tokens \in Nat /\ (HasCost(n) => old[n].cost = old[n].tokens)
    BY <1>1, <1>6 DEF Usage, CostInv
  <2>2. /\ Merged(e)[n].tokens = old[n].tokens + summary[e.client].tokens
        /\ Merged(e)[n].cost = IF NoCost \in {old[n].cost, summary[e.client].cost} THEN NoCost
                              ELSE old[n].cost + summary[e.client].cost
    BY <1>6 DEF Merged, AddModelUsage
  <2> QED
    BY <1>3, <1>4, <1>5, <1>6, <2>1, <2>2 DEF HasCost
<1>7. CASE n \notin DOMAIN old
  <2>1. Merged(e)[n] = summary[e.client]
    BY <1>7 DEF Merged
  <2> QED
    BY <1>3, <1>4, <1>5, <1>7, <2>1
<1> QED
  BY <1>6, <1>7

\* Merging keeps it: the client of a name that is priced moves from the clients left to the name,
\* and that of another name changes no priced one.
LEMMA CostMerge ==
  ASSUME OneNameEach, TypeOK, CountInv, ReportInv, CostInv, NEW e \in report.left, MergeUsage(e)
  PROVE  CostInv'
<1> DEFINE n == e.name
           c == e.client
           names == DOMAIN report.merged
<1>1. /\ c \in Left /\ Left' = Left \ {c} /\ Left \subseteq Clients
      /\ report'.merged = Merged(e) /\ report'.left = report.left \ {e}
      /\ report'.priced = report.priced /\ report'.pricedFloor = report.pricedFloor
      /\ DOMAIN report'.merged = names \cup {n} /\ TokensBy' = TokensBy
  BY MergeLeaves DEF TokensBy
<1>2. /\ HasCost(n)' <=> c \in Priced /\ (n \in names => HasCost(n))
      /\ \A m \in names : m # n => report'.merged[m] = report.merged[m]
      /\ HasCost(n)' => report'.merged[n].cost = report'.merged[n].tokens
  BY <1>1, MergedCost DEF HasCost
<1>3. \A m : m # n => AllPriced(m)' = AllPriced(m)
  BY <1>1 DEF AllPriced
<1>4. AllPriced(n) <=> AllPriced(n)' /\ c \in Priced
  BY <1>1 DEF AllPriced
<1>5. c \in report.priced <=> AllPriced(n) /\ (n \in names => HasCost(n))
  BY DEF CostInv
<1>6. c \in report.priced <=> AllPriced(n)' /\ HasCost(n)'
  BY <1>2, <1>4, <1>5
<1>7. \A m \in names : m # n => HasCost(m)' = HasCost(m)
  BY <1>2 DEF HasCost
<1>8. \A m \in DOMAIN report'.merged :
        HasCost(m)' => report'.merged[m].cost = report'.merged[m].tokens
  BY <1>1, <1>2, <1>7 DEF CostInv
<1>9. ASSUME NEW f \in report'.left
      PROVE  f.client \in report'.priced <=>
               AllPriced(f.name)' /\ (f.name \in DOMAIN report'.merged => HasCost(f.name)')
  <2>1. f.client \in report.priced <=> AllPriced(f.name) /\ (f.name \in names => HasCost(f.name))
    BY <1>1 DEF CostInv
  <2>2. CASE f.name # n
    BY <1>1, <1>3, <1>7, <2>1, <2>2
  <2>3. CASE f.name = n
    BY <1>1, <1>5, <1>6, <2>1, <2>3
  <2> QED
    BY <2>2, <2>3
<1>10. PricedNames' = IF c \in report.priced THEN PricedNames \cup {n} ELSE PricedNames
  <2>1. \A m : m \in PricedNames' <=>
                 m \in DOMAIN report'.merged /\ HasCost(m)' /\ AllPriced(m)'
    BY DEF PricedNames
  <2>2. \A m : m # n => (m \in PricedNames' <=> m \in PricedNames)
    BY <1>1, <1>3, <1>7, <2>1 DEF PricedNames
  <2>3. n \in PricedNames' <=> c \in report.priced
    BY <1>1, <1>6, <2>1
  <2>4. n \in PricedNames => c \in report.priced
    BY <1>5 DEF PricedNames
  <2> QED
    BY <2>2, <2>3, <2>4
<1>11. /\ report.priced \subseteq Clients /\ report.pricedFloor \in Nat
       /\ SumFunctionOnSet(TokensIn(report.merged), PricedNames) \in Nat
       /\ Spent(Left \cap report.priced) \in Nat /\ Spent(report.priced) \in Nat
  BY CostTypes
<1>12. PricedNames \in SUBSET names /\ IsFiniteSet(names)
  BY DEF PricedNames, ReportInv
<1>13. Spent(report.priced)' = Spent(report.priced)
  BY <1>1 DEF Spent
<1>14. CASE c \in report.priced
  <2>1. n \in PricedNames \/ n \notin names
    BY <1>4, <1>5, <1>14 DEF PricedNames
  <2>2. SumFunctionOnSet(TokensIn(Merged(e)), PricedNames \cup {n})
          = SumFunctionOnSet(TokensIn(report.merged), PricedNames) + TokensBy[c]
    BY <1>12, <2>1, MergedTokens
  <2>3. c \in Left \cap report.priced /\ Left \cap report.priced \in SUBSET Clients
        /\ Left' \cap report'.priced = (Left \cap report.priced) \ {c}
    BY <1>1, <1>14
  <2>4. Spent(Left \cap report.priced) = Spent((Left \cap report.priced) \ {c}) + TokensBy[c]
        /\ TokensBy[c] \in Nat /\ Spent((Left \cap report.priced) \ {c}) \in Nat
    BY <2>3, SpentByOne
  <2>5. Spent(Left \cap report.priced)' = Spent((Left \cap report.priced) \ {c})
    BY <1>1, <2>3 DEF Spent
  <2>6. PricedKnown' = PricedKnown
    BY <1>1, <1>10, <1>11, <1>14, <2>2, <2>4, <2>5 DEF PricedKnown
  <2> QED
    BY <1>1, <1>8, <1>9, <1>10, <1>13, <1>14, <2>6 DEF CostInv
<1>15. CASE c \notin report.priced
  <2>1. n \notin PricedNames
    BY <1>5, <1>15 DEF PricedNames
  <2>2. SumFunctionOnSet(TokensIn(Merged(e)), PricedNames)
          = SumFunctionOnSet(TokensIn(report.merged), PricedNames)
    BY <1>12, <2>1, MergedTokens
  <2>3. Left' \cap report'.priced = Left \cap report.priced
    BY <1>1, <1>15
  <2>4. PricedKnown' = PricedKnown
    BY <1>1, <1>10, <1>15, <2>2, <2>3 DEF PricedKnown, Spent
  <2> QED
    BY <1>1, <1>8, <1>9, <1>10, <1>13, <1>15, <2>3, <2>4 DEF CostInv
<1> QED
  BY <1>14, <1>15

\* So does every other step.
LEMMA CostStep ==
  ASSUME OneNameEach, TypeOK, CountInv, ReportInv, CostInv, [Next]_vars
  PROVE  CostInv'
<1>1. /\ report.priced \subseteq Clients /\ report.pricedFloor \in Nat
      /\ SumFunctionOnSet(TokensIn(report.merged), PricedNames) \in Nat
      /\ Spent(Left \cap report.priced) \in Nat /\ Spent(report.priced) \in Nat
  BY CostTypes
<1>2. ASSUME NEW i \in Items, Completion(i) PROVE CostInv'
  <2>1. report' = report /\ Tokens[i] \in Nat
    BY <1>2, ItemsAssumption DEF Completion
  <2>2. /\ Left' = Left /\ PricedNames' = PricedNames /\ \A m : HasCost(m)' = HasCost(m)
        /\ \A m : AllPriced(m)' = AllPriced(m)
    BY <2>1 DEF Left, PricedNames, HasCost, AllPriced
  <2>3. Spent(Left \cap report.priced)'
          = IF route[i] \in Left \cap report.priced THEN Spent(Left \cap report.priced) + Tokens[i]
            ELSE Spent(Left \cap report.priced)
    BY <1>1, <1>2, <2>1, <2>2, CompletionSpends DEF Spent
  <2>4. Spent(report.priced)'
          = IF route[i] \in report.priced THEN Spent(report.priced) + Tokens[i]
            ELSE Spent(report.priced)
    BY <1>1, <1>2, <2>1, CompletionSpends DEF Spent
  <2>5. report'.pricedFloor <= PricedKnown' /\ PricedKnown' <= Spent(report.priced)'
    BY <1>1, <2>1, <2>2, <2>3, <2>4 DEF CostInv, PricedKnown
  <2> QED
    BY <2>1, <2>2, <2>5 DEF CostInv
<1>3. CASE BeginReport
  <2>1. /\ report'.left = Named /\ report'.merged = Idle.merged /\ report'.priced = Priceable
        /\ report'.pricedFloor = Spent(Priceable) /\ UNCHANGED served
    BY <1>3 DEF BeginReport, Idle, counters
  <2>2. Left' = Everyone /\ TokensBy' = TokensBy
    BY <2>1 DEF Left, Everyone, TokensBy
  <2>3. DOMAIN report'.merged = {} /\ PricedNames' = {}
    BY <2>1 DEF Idle, PricedNames
  <2>4. Priceable \subseteq Everyone /\ Spent(Priceable) \in Nat
    BY EntryType, SpentType DEF TypeOK, WellRegistered
  <2>5. Left' \cap report'.priced = Priceable
    BY <2>1, <2>2, <2>4
  <2>6. PricedKnown' = Spent(Priceable) /\ Spent(report.priced)' = Spent(Priceable)
    <3>1. SumFunctionOnSet(TokensIn(report'.merged), {}) = 0
      BY SumEmpty
    <3>2. SumFunctionOnSet(TokensBy', Priceable) = Spent(Priceable)
      BY <2>2 DEF Spent
    <3>3. SumFunctionOnSet(TokensIn(report.merged), PricedNames)' = 0
      BY <2>3, <3>1
    <3>4. Spent(Left \cap report.priced)' = Spent(Priceable)
      BY <2>5, <3>2 DEF Spent
    <3>5. Spent(report.priced)' = Spent(Priceable)
      BY <2>1, <3>2 DEF Spent
    <3> QED
      BY <2>4, <3>3, <3>4, <3>5 DEF PricedKnown
  <2>7. ASSUME NEW e \in Named PROVE e.client \in Priceable <=> AllPriced(e.name)'
    <3>1. \A f \in Named : f.client = e.client => f = e
      BY EntryOfClient DEF Named, TypeOK, WellRegistered
    <3> QED
      BY <2>1, <3>1 DEF Priceable, AllPriced
  <2> QED
    BY <2>1, <2>3, <2>4, <2>5, <2>6, <2>7 DEF CostInv
<1>4. CASE UNCHANGED <<report, served>>
  BY <1>4 DEF CostInv, PricedKnown, PricedNames, HasCost, AllPriced, Left, Spent, TokensBy
<1>5. Registers => UNCHANGED <<report, served>>
  BY DEF Registers, RegisterClient, counters
<1> QED
  BY <1>2, <1>3, <1>4, <1>5, CostMerge, OutsideSteps

\* When no client goes by two names, the cost a budget is held against is the spending on the names
\* all of whose clients report costs, as current as the summary is; and there is none when there
\* is no such name, so that a backend without costs leaves no budget to exceed.
THEOREM Costs == ASSUME OneNameEach PROVE Spec => []CostOfPricedNames
<1>1. TypeOK /\ ReportInv /\ CostInv => CostOfPricedNames
  <2> SUFFICES ASSUME TypeOK, ReportInv, CostInv, report.left = {}
               PROVE  LET cost == TotalCost(report.merged)
                      IN  IF report.priced = {} THEN cost = NoCost
                          ELSE cost # NoCost /\ cost \in report.pricedFloor..Spent(report.priced)
    BY DEF CostOfPricedNames
  <2> DEFINE costs == [m \in PricedNames |-> report.merged[m].cost]
             sum == SumFunctionOnSet(TokensIn(report.merged), PricedNames)
  <2>1. PricedNames = {m \in DOMAIN report.merged : report.merged[m].cost # NoCost}
        /\ Left \cap report.priced = {}
    BY DEF PricedNames, HasCost, AllPriced, Left
  <2>2. TotalCost(report.merged) = IF PricedNames = {} THEN NoCost ELSE SumFunction(costs)
    BY <2>1 DEF TotalCost
  <2>3. /\ report.pricedFloor \in Nat /\ sum \in Nat /\ Spent(report.priced) \in Nat
        /\ \A m \in DOMAIN report.merged : TokensIn(report.merged)[m] \in Nat
        /\ IsFiniteSet(PricedNames)
    BY CostTypes
  <2>4. \A m \in PricedNames : TokensIn(report.merged)[m] \in Nat
                              /\ costs[m] = TokensIn(report.merged)[m]
    BY <2>3 DEF CostInv, PricedNames, TokensIn
  <2> HIDE DEF costs
  <2>5. SumFunctionOnSet(costs, PricedNames) = sum
    BY <2>3, <2>4, SumSame
  <2>6. SumFunction(costs) = sum
    BY <2>5 DEF SumFunction, costs
  <2>7. PricedKnown = sum
    BY <2>1, <2>3, SumEmpty DEF PricedKnown, Spent
  <2>8. /\ report.priced = {} <=> PricedNames = {}
        /\ report.pricedFloor <= sum /\ sum <= Spent(report.priced)
    BY <2>1, <2>7 DEF CostInv
  <2> QED
    BY <2>2, <2>3, <2>6, <2>8, ItemsAssumption
<1>2. /\ TypeOK /\ TypeOK' /\ CountInv /\ ReportInv /\ [Next]_vars => ReportInv'
      /\ TypeOK /\ CountInv /\ ReportInv /\ CostInv /\ [Next]_vars => CostInv'
  BY ReportStep, CostStep
<1> QED
  BY <1>1, <1>2, TypeInit, TypeStep, CountInit, CountStep, ReportInit, CostInit, PTL DEF Spec
=============================================================================
