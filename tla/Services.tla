------------------------------ MODULE Services ------------------------------
(***************************************************************************)
(* The gRPC server of a call: internal/server/server.go, as startServices  *)
(* and its stop function use it, beside LMHandler's own Start and Stop,    *)
(* which only its tests use.  The port is handed out before a goroutine    *)
(* serves it; Stop may overtake that goroutine and the handlers.  Behind   *)
(* the LM service stands LMHandler.tla, behind the RLM service the Subcall *)
(* of Subcalls.tla; here each is a handler that answers or fails.          *)
(***************************************************************************)
EXTENDS Integers, FiniteSets

CONSTANTS
  Items, CallOf,        \* the prompts, numbered, and the call each belongs to
  ServiceOf,            \* the service a call is for: LM or RLM
  Kind,                 \* what an item carries: text, json, or malformed JSON
  Concurrency,          \* slots of a batch, by service
  Owners,               \* who keeps the server: server.Server, or LMHandler itself
  StartsBound           \* bound: starts

Calls == {CallOf[i] : i \in Items}
Starts == 1..StartsBound

ASSUME ItemsAssumption ==
  /\ Items \subseteq Nat /\ IsFiniteSet(Items)
  /\ ServiceOf \in [Calls -> {"LM", "RLM"}] /\ Kind \in [Items -> {"text", "json", "malformed"}]
ASSUME BoundsAssumption ==
  /\ Concurrency \in [{"LM", "RLM"} -> Nat \ {0}] /\ Owners \subseteq {"Server", "LMHandler"}
  /\ StartsBound \in Nat

VARIABLES
  owner,
  step,         \* the owner's goroutine: down, up, or within its stop
  starts,       \* how often it started; the n-th listener, server and goroutine are n
  server,       \* its field: the server in force, or 0
  life, port,   \* the servers and the listeners
  target,       \* the server goroutine n will serve its listener on; 0: it has yet to read it
  goroutine,
  crashed,      \* the host process is gone
  sentTo,       \* the port a call was sent to, or 0
  phase,        \* where the goroutine of item i is
  responses,    \* the response in place i: none, or what it answers and how
  heard         \* what the caller got; its context is done once it is not none
vars == <<owner, step, starts, server, life, port, target, goroutine, crashed, sentTo, phase,
          responses, heard>>
lifecycle == <<owner, step, starts, server, life, port, target, goroutine>>
requests == <<sentTo, phase, responses, heard>>

NoResponse == [to |-> 0, kind |-> "none"]
Response(i, kind) == [to |-> i, kind |-> kind]
ItemsOf(c) == {i \in Items : CallOf[i] = c}
UnderWay(c) == {i \in ItemsOf(c) : phase[i] \notin {"unsent", "asked", "done"}}
Accepted(c) == \E i \in ItemsOf(c) : phase[i] # "unsent"
Answered(c) == \A i \in ItemsOf(c) : phase[i] = "done"

Init ==
  /\ owner \in Owners /\ step = "down" /\ starts = 0 /\ server = 0 /\ crashed = FALSE
  /\ life = [n \in Starts |-> "none"] /\ port = [n \in Starts |-> "none"]
  /\ target = [n \in Starts |-> 0] /\ goroutine = [n \in Starts |-> "none"]
  /\ sentTo = [c \in Calls |-> 0] /\ phase = [i \in Items |-> "unsent"]
  /\ responses = [i \in Items |-> NoResponse] /\ heard = [c \in Calls |-> "none"]

----------------------------------------------------------------------------
\* RegisterAndStart gives its goroutine the server it made; LMHandler's reads the field later.
CapturedNever(n) == 0
Captured(n) == IF owner = "Server" THEN n ELSE 0

Start ==
  LET n == starts + 1 IN
  /\ ~crashed /\ step = "down" /\ n \in Starts
  /\ step' = "up" /\ starts' = n /\ server' = n
  /\ life' = [life EXCEPT ![n] = "made"] /\ port' = [port EXCEPT ![n] = "open"]
  /\ target' = [target EXCEPT ![n] = Captured(n)]
  /\ goroutine' = [goroutine EXCEPT ![n] = "spawned"]
  /\ UNCHANGED <<owner, crashed, requests>>

\* The method call on a nil server panics, and so ends the process.
ReadField(n) ==
  /\ ~crashed /\ goroutine[n] = "spawned" /\ target[n] = 0
  /\ target' = [target EXCEPT ![n] = server] /\ crashed' = (server = 0)
  /\ UNCHANGED <<owner, step, starts, server, life, port, goroutine, requests>>

\* grpc's Serve: on a stopped server it closes the listener and returns.
Serve(n) ==
  /\ ~crashed /\ goroutine[n] = "spawned" /\ target[n] # 0
  /\ IF life[target[n]] = "made"
       THEN goroutine' = [goroutine EXCEPT ![n] = "serving"] /\ UNCHANGED port
       ELSE /\ goroutine' = [goroutine EXCEPT ![n] = "ended"]
            /\ port' = [port EXCEPT ![n] = "closed"]
  /\ UNCHANGED <<owner, step, starts, server, life, target, crashed, requests>>

\* grpc's Stop closes the server's listeners and connections: the contexts of its handlers
\* are done, the handlers run on.  A second Stop finds no server, and does nothing.
ServedBy(n) == {k \in Starts : goroutine[k] = "serving" /\ target[k] = n}
CutOff(c) == sentTo[c] \in ServedBy(server) /\ Accepted(c) /\ heard[c] = "none"
StopListeningOnly ==
  /\ ~crashed /\ step = "up" /\ step' = "stopping"
  /\ life' = [life EXCEPT ![server] = "stopped"]
  /\ port' = [k \in Starts |-> IF k \in ServedBy(server) THEN "closed" ELSE port[k]]
  /\ goroutine' = [k \in Starts |-> IF k \in ServedBy(server) THEN "ended" ELSE goroutine[k]]
  /\ UNCHANGED <<owner, starts, server, target, crashed, requests>>
Stop ==
  /\ ~crashed /\ step = "up" /\ step' = "stopping"
  /\ life' = [life EXCEPT ![server] = "stopped"]
  /\ port' = [k \in Starts |-> IF k \in ServedBy(server) THEN "closed" ELSE port[k]]
  /\ goroutine' = [k \in Starts |-> IF k \in ServedBy(server) THEN "ended" ELSE goroutine[k]]
  /\ heard' = [c \in Calls |-> IF CutOff(c) THEN "unavailable" ELSE heard[c]]
  /\ UNCHANGED <<owner, starts, server, target, crashed, sentTo, phase, responses>>

ForgetServer ==
  /\ ~crashed /\ step = "stopping" /\ server' = 0
  /\ step' = IF owner = "Server" THEN "closing" ELSE "down"
  /\ UNCHANGED <<owner, starts, life, port, target, goroutine, crashed, requests>>

\* startServices's stop function closes the listener too: Serve may not have seen it yet.
CloseListenerLeftToServe ==
  /\ ~crashed /\ step = "closing" /\ step' = "down"
  /\ UNCHANGED <<owner, starts, server, life, port, target, goroutine, crashed, requests>>
CloseListener ==
  /\ ~crashed /\ step = "closing" /\ step' = "down"
  /\ port' = [port EXCEPT ![starts] = "closed"]
  /\ UNCHANGED <<owner, starts, server, life, target, goroutine, crashed, requests>>

----------------------------------------------------------------------------
\* The script knows the port it was started with; an orphaned container may call it late.
Send(c, n) ==
  /\ sentTo[c] = 0 /\ port[n] # "none"
  /\ sentTo' = [sentTo EXCEPT ![c] = n]
  /\ UNCHANGED <<lifecycle, crashed, phase, responses, heard>>

\* A call waits in the listener's backlog until the server serves.
Accept(c) ==
  /\ ~crashed /\ sentTo[c] # 0 /\ ~Accepted(c) /\ heard[c] = "none"
  /\ goroutine[sentTo[c]] = "serving"
  /\ phase' = [i \in Items |-> IF CallOf[i] = c THEN "asked" ELSE phase[i]]
  /\ UNCHANGED <<lifecycle, crashed, sentTo, responses, heard>>

Refuse(c) ==
  /\ sentTo[c] # 0 /\ heard[c] = "none"
  /\ crashed \/ (~Accepted(c) /\ port[sentTo[c]] = "closed")
  /\ heard' = [heard EXCEPT ![c] = "unavailable"]
  /\ UNCHANGED <<lifecycle, crashed, sentTo, phase, responses>>

\* The script's 600 s deadline, or its death.
GiveUp(c) ==
  /\ sentTo[c] # 0 /\ heard[c] = "none"
  /\ heard' = [heard EXCEPT ![c] = "unavailable"]
  /\ UNCHANGED <<lifecycle, crashed, sentTo, phase, responses>>

----------------------------------------------------------------------------
\* SubcallBatched and CompleteBatched start their goroutines in order, each in a free slot.
FreeSlotOfDone(c) ==
  Cardinality({i \in ItemsOf(c) : phase[i] # "asked"}) < Concurrency[ServiceOf[c]]
FreeSlot(c) == Cardinality(UnderWay(c)) < Concurrency[ServiceOf[c]]
Go(i) ==
  /\ ~crashed /\ phase[i] = "asked" /\ FreeSlot(CallOf[i])
  /\ \A j \in ItemsOf(CallOf[i]) : j < i => phase[j] # "asked"
  /\ phase' = [phase EXCEPT ![i] = "admitted"]
  /\ UNCHANGED <<lifecycle, crashed, sentTo, responses, heard>>

\* The closure's loop variable: since go 1.22 each iteration has its own.
IndexShared(i) ==
  CHOOSE j \in ItemsOf(CallOf[i]) :
    /\ phase[j] # "asked"
    /\ \A k \in ItemsOf(CallOf[i]) : phase[k] # "asked" => k <= j
Index(i) == i

RespondContentOnly(i, kind) ==
  /\ phase' = [phase EXCEPT ![i] = "done"]
  /\ responses' = IF kind = "error" THEN responses
                  ELSE [responses EXCEPT ![Index(i)] = Response(Index(i), kind)]
Respond(i, kind) ==
  /\ phase' = [phase EXCEPT ![i] = "done"]
  /\ responses' = [responses EXCEPT ![Index(i)] = Response(Index(i), kind)]

BadPrompt(i) ==
  /\ ~crashed /\ phase[i] = "admitted" /\ Kind[Index(i)] = "malformed"
  /\ Respond(i, "error")
  /\ UNCHANGED <<lifecycle, crashed, sentTo, heard>>

\* RLM.Subcall logs its prompt as a string: anything else panics, and nothing recovers.
Panics(i) == ServiceOf[CallOf[i]] = "RLM" /\ Kind[Index(i)] # "text"
Dispatch(i) ==
  /\ ~crashed /\ phase[i] = "admitted" /\ Kind[Index(i)] # "malformed"
  /\ phase' = [phase EXCEPT ![i] = "called"] /\ crashed' = Panics(i)
  /\ UNCHANGED <<lifecycle, sentTo, responses, heard>>

\* An LM call fails once its context is done; a sub-call turns a child's failure into content.
Return(i) ==
  /\ ~crashed /\ phase[i] = "called"
  /\ \/ /\ ServiceOf[CallOf[i]] = "RLM" \/ heard[CallOf[i]] = "none"
        /\ Respond(i, "content")
     \/ Respond(i, "error")
  /\ UNCHANGED <<lifecycle, crashed, sentTo, heard>>

Reply(c) ==
  /\ ~crashed /\ Answered(c) /\ heard[c] = "none"
  /\ heard' = [heard EXCEPT ![c] = "responses"]
  /\ UNCHANGED <<lifecycle, crashed, sentTo, phase, responses>>

----------------------------------------------------------------------------
Goroutine(n) == ReadField(n) \/ Serve(n)
Handle(i) == Go(i) \/ BadPrompt(i) \/ Dispatch(i) \/ Return(i)
Connection(c) == Accept(c) \/ Refuse(c) \/ Reply(c)
Stopping == ForgetServer \/ CloseListener

Next ==
  \/ Start \/ Stop \/ Stopping
  \/ \E n \in Starts : Goroutine(n)
  \/ \E c \in Calls, n \in Starts : Send(c, n)
  \/ \E c \in Calls : Connection(c) \/ GiveUp(c)
  \/ \E i \in Items : Handle(i)

Spec == Init /\ [][Next]_vars

\* Goroutines run on and handlers return; nobody need stop the server or give up.
FairSpec ==
  /\ Spec /\ WF_vars(Stopping)
  /\ \A n \in Starts : WF_vars(Goroutine(n))
  /\ \A c \in Calls : WF_vars(Connection(c))
  /\ \A i \in Items : WF_vars(Handle(i))

----------------------------------------------------------------------------
(* Properties *)

\* Every variable keeps its type; a server that was made has a listener and a goroutine, and an
\* item that is done has a response, never the nil its batch was allocated with.
TypeOK ==
  /\ owner \in Owners /\ step \in {"down", "up", "stopping", "closing"}
  /\ starts \in 0..StartsBound /\ server \in 0..starts /\ crashed \in BOOLEAN
  /\ life \in [Starts -> {"none", "made", "stopped"}]
  /\ port \in [Starts -> {"none", "open", "closed"}]
  /\ target \in [Starts -> 0..StartsBound]
  /\ goroutine \in [Starts -> {"none", "spawned", "serving", "ended"}]
  /\ \A n \in Starts :
       /\ life[n] = "none" <=> n > starts
       /\ life[n] = "none" <=> port[n] = "none"
       /\ life[n] = "none" <=> goroutine[n] = "none"
  /\ sentTo \in [Calls -> 0..StartsBound]
  /\ phase \in [Items -> {"unsent", "asked", "admitted", "called", "done"}]
  /\ \A i \in Items : phase[i] = "done" => responses[i] # NoResponse
  /\ responses \in [Items -> [to : Items \cup {0}, kind : {"none", "content", "error"}]]
  /\ heard \in [Calls -> {"none", "responses", "unavailable"}]

\* The server that was started for a port is the one that serves it, and the host survives,
\* though Stop, or Stop and the next Start, come before the goroutine runs.  Only of
\* server.Server: LMHandler's goroutine may meet a nil server, or the next one.
OwnServer ==
  owner = "Server" =>
    ~crashed /\ \A n \in Starts : goroutine[n] = "serving" => target[n] = n

\* When startServices's stop function returns nothing listens, though the goroutine that was to
\* serve may not have run yet, so nothing connects to a call that has returned.
PortsReleased == owner = "Server" /\ step = "down" => \A n \in Starts : port[n] # "open"

\* A handler with a live context belongs to a server that has not been stopped: a late handler
\* cannot start work its call would have to answer for.
LiveOnlyWhileUp ==
  \A c \in Calls : UnderWay(c) # {} /\ heard[c] = "none" => life[target[sentTo[c]]] = "made"

\* A caller that gets responses gets one for each of its items, in the item's place, whatever
\* order the goroutines ran in and whichever of them failed.
InPlace ==
  \A c \in Calls : heard[c] = "responses" =>
    \A i \in ItemsOf(c) : responses[i].to = i

\* A caller hears of its call: the responses, or that the server is gone, also when the call came
\* before the server served or after it stopped.
CallerHears == \A c \in Calls : sentTo[c] # 0 ~> heard[c] # "none"
=============================================================================
