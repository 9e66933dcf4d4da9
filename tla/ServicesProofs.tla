---------------------------- MODULE ServicesProofs --------------------------
(***************************************************************************)
(* Machine-checked proofs about Services, for every value of its           *)
(* constants: which server serves a port, what listens when a call has     *)
(* returned, whose handlers still work, and where responses end up.        *)
(***************************************************************************)
EXTENDS Services, TLAPS

\* The owner's side of a step, and the callers' side.
Running == Start \/ Stop \/ ForgetServer \/ CloseListener
           \/ \E n \in Starts : ReadField(n) \/ Serve(n)
Calling == \/ \E c \in Calls : \/ \E n \in Starts : Send(c, n)
                               \/ Accept(c) \/ Refuse(c) \/ GiveUp(c) \/ Reply(c)
           \/ \E i \in Items : Go(i) \/ BadPrompt(i) \/ Dispatch(i) \/ Return(i)
\* A step is one or the other.
LEMMA NextDisjuncts == Next => Running \/ Calling
BY DEF Next, Running, Calling, Stopping, Goroutine, Handle, Connection

\* The callers' side leaves the servers alone, and the owner's side the requests, but that Stop
\* cuts off the callers.
LEMMA Sides ==
  /\ Calling => UNCHANGED lifecycle
  /\ Running => UNCHANGED <<sentTo, phase, responses>> /\ (~Stop => UNCHANGED heard)
<1>1. Calling => UNCHANGED lifecycle
  BY DEF Calling, Send, Accept, Refuse, GiveUp, Reply, Go, BadPrompt, Dispatch, Return
<1>2. Running => UNCHANGED <<sentTo, phase, responses>> /\ (~Stop => UNCHANGED heard)
  BY DEF Running, Start, Stop, ForgetServer, CloseListener, ReadField, Serve, requests
<1> QED
  BY <1>1, <1>2

\* The types of the servers, and those of the requests.
ServerTypes ==
  /\ owner \in Owners /\ step \in {"down", "up", "stopping", "closing"}
  /\ starts \in 0..StartsBound /\ server \in 0..starts /\ crashed \in BOOLEAN
  /\ life \in [Starts -> {"none", "made", "stopped"}]
  /\ port \in [Starts -> {"none", "open", "closed"}]
  /\ target \in [Starts -> 0..StartsBound]
  /\ goroutine \in [Starts -> {"none", "spawned", "serving", "ended"}]
  /\ \A n \in Starts :
       /\ life[n] = "none" <=> n > starts
       /\ life[n] = "none" <=> port[n] = "none"
       /\ life[n] = "none" <=> goroutine[n] = "none"
RequestTypes ==
  /\ sentTo \in [Calls -> 0..StartsBound]
  /\ phase \in [Items -> {"unsent", "asked", "admitted", "called", "done"}]
  /\ \A i \in Items : phase[i] = "done" => responses[i] # NoResponse
  /\ responses \in [Items -> [to : Items \cup {0}, kind : {"none", "content", "error"}]]
  /\ heard \in [Calls -> {"none", "responses", "unavailable"}]
\* Together they are TypeOK.
LEMMA Types == TypeOK <=> ServerTypes /\ RequestTypes
BY DEF TypeOK, ServerTypes, RequestTypes

\* The initial state is well typed.
LEMMA InitType == Init => TypeOK
<1> SUFFICES ASSUME Init PROVE TypeOK
  OBVIOUS
<1>1. ServerTypes
  <2>1. StartsBound \in Nat /\ Starts = 1..StartsBound
    BY BoundsAssumption DEF Starts
  <2>2. starts = 0 /\ server = 0 /\ owner \in Owners /\ step = "down" /\ crashed = FALSE
    BY DEF Init
  <2>3. /\ life = [n \in Starts |-> "none"] /\ port = [n \in Starts |-> "none"]
        /\ target = [n \in Starts |-> 0] /\ goroutine = [n \in Starts |-> "none"]
    BY DEF Init
  <2>4. \A n \in Starts : /\ n > starts /\ life[n] = "none" /\ port[n] = "none"
                          /\ goroutine[n] = "none"
    BY <2>1, <2>2, <2>3
  <2>5. starts \in 0..StartsBound /\ server \in 0..starts
    BY <2>1, <2>2
  <2>6. target \in [Starts -> 0..StartsBound]
    BY <2>1, <2>3
  <2>7. /\ life \in [Starts -> {"none", "made", "stopped"}]
        /\ port \in [Starts -> {"none", "open", "closed"}]
        /\ goroutine \in [Starts -> {"none", "spawned", "serving", "ended"}]
    BY <2>3
  <2> QED
    BY <2>2, <2>4, <2>5, <2>6, <2>7 DEF ServerTypes
<1>2. RequestTypes
  BY BoundsAssumption DEF Init, RequestTypes, NoResponse
<1> QED
  BY <1>1, <1>2, Types

\* The owner's steps keep the types of its servers.
LEMMA ServerTypesStep == ServerTypes /\ Running => ServerTypes'
<1> SUFFICES ASSUME ServerTypes, Running PROVE ServerTypes'
  OBVIOUS
<1>0. StartsBound \in Nat /\ Starts = 1..StartsBound
  BY BoundsAssumption DEF Starts
<1> USE <1>0 DEF ServerTypes
<1>1. CASE Start
  <2>1. /\ starts + 1 \in Starts /\ step' = "up" /\ starts' = starts + 1 /\ server' = starts + 1
        /\ life' = [life EXCEPT ![starts + 1] = "made"]
        /\ port' = [port EXCEPT ![starts + 1] = "open"]
        /\ target' = [target EXCEPT ![starts + 1] = Captured(starts + 1)]
        /\ goroutine' = [goroutine EXCEPT ![starts + 1] = "spawned"]
        /\ UNCHANGED <<owner, crashed>>
    BY <1>1 DEF Start
  <2>2. Captured(starts + 1) \in 0..StartsBound
    BY <2>1 DEF Captured
  <2> QED
    BY <2>1, <2>2
<1>2. ASSUME NEW n \in Starts, ReadField(n) PROVE ServerTypes'
  <2>1. server \in 0..StartsBound
    OBVIOUS
  <2> QED
    BY <1>2, <2>1 DEF ReadField
<1>3. ASSUME NEW n \in Starts, Serve(n) PROVE ServerTypes'
  <2>1. CASE life[target[n]] = "made"
    BY <1>3, <2>1 DEF Serve
  <2>2. CASE life[target[n]] # "made"
    BY <1>3, <2>2 DEF Serve
  <2> QED
    BY <2>1, <2>2
<1>4. CASE Stop
  <2>1. /\ step' = "stopping" /\ UNCHANGED <<owner, starts, server, target, crashed>>
        /\ life' = [life EXCEPT ![server] = "stopped"]
        /\ port' = [k \in Starts |-> IF k \in ServedBy(server) THEN "closed" ELSE port[k]]
        /\ goroutine' = [k \in Starts |-> IF k \in ServedBy(server) THEN "ended" ELSE goroutine[k]]
    BY <1>4 DEF Stop
  <2>2. \A k \in ServedBy(server) : goroutine[k] = "serving"
    BY DEF ServedBy
  <2>3. life' \in [Starts -> {"none", "made", "stopped"}]
    BY <2>1
  <2>4. \A n \in Starts : life'[n] = "none" <=> life[n] = "none"
    BY <2>1
  <2>5. \A n \in Starts : /\ port'[n] = "none" <=> port[n] = "none"
                          /\ goroutine'[n] = "none" <=> goroutine[n] = "none"
    BY <2>1, <2>2
  <2>6. /\ port' \in [Starts -> {"none", "open", "closed"}]
        /\ goroutine' \in [Starts -> {"none", "spawned", "serving", "ended"}]
    BY <2>1
  <2> QED
    BY <2>1, <2>3, <2>4, <2>5, <2>6
<1>5. CASE ForgetServer
  BY <1>5 DEF ForgetServer
<1>6. CASE CloseListener
  <2>1. port' = [port EXCEPT ![starts] = "closed"]
        /\ UNCHANGED <<owner, starts, server, life, target, goroutine, crashed>> /\ step' = "down"
    BY <1>6 DEF CloseListener
  <2>2. \A n \in Starts : port'[n] = "none" <=> port[n] = "none"
    BY <2>1
  <2> QED
    BY <2>1, <2>2
<1> QED
  BY <1>1, <1>2, <1>3, <1>4, <1>5, <1>6 DEF Running

\* A response has its place.
LEMMA RespondTypes ==
  ASSUME RequestTypes, NEW i \in Items, NEW kind \in {"content", "error"}, Respond(i, kind),
         UNCHANGED <<sentTo, heard>>
  PROVE  RequestTypes'
<1>1. /\ Response(i, kind) \in [to : Items \cup {0}, kind : {"none", "content", "error"}]
      /\ Response(i, kind) # NoResponse
  BY DEF Response, NoResponse
<1>2. /\ phase' = [phase EXCEPT ![i] = "done"]
      /\ responses' = [responses EXCEPT ![i] = Response(i, kind)]
  BY DEF Respond, Index
<1> HIDE DEF Respond
<1> QED
  BY <1>1, <1>2 DEF RequestTypes

\* The callers' steps keep the types of the requests.
LEMMA RequestTypesStep == TypeOK /\ Calling => RequestTypes' /\ crashed' \in BOOLEAN
<1> SUFFICES ASSUME RequestTypes, crashed \in BOOLEAN, Calling
             PROVE  RequestTypes' /\ crashed' \in BOOLEAN
  BY Types DEF ServerTypes
<1>1. ASSUME NEW c \in Calls, NEW n \in Starts, Send(c, n)
      PROVE  RequestTypes' /\ crashed' \in BOOLEAN
  <2>1. n \in 0..StartsBound
    BY BoundsAssumption DEF Starts
  <2> QED
    BY <1>1, <2>1 DEF Send, RequestTypes
<1>2. ASSUME NEW c \in Calls, Accept(c) \/ Refuse(c) \/ GiveUp(c) \/ Reply(c)
      PROVE  RequestTypes' /\ crashed' \in BOOLEAN
  <2>1. CASE Accept(c)
    <3>1. phase' = [i \in Items |-> IF CallOf[i] = c THEN "asked" ELSE phase[i]]
      BY <2>1 DEF Accept
    <3>2. \A i \in Items : phase'[i] = "done" => phase[i] = "done"
      BY <3>1
    <3>3. UNCHANGED <<crashed, sentTo, responses, heard>>
      BY <2>1 DEF Accept
    <3> QED
      BY <3>1, <3>2, <3>3 DEF RequestTypes
  <2>2. CASE Refuse(c)
    BY <2>2 DEF Refuse, RequestTypes
  <2>3. CASE GiveUp(c)
    BY <2>3 DEF GiveUp, RequestTypes
  <2>4. CASE Reply(c)
    BY <2>4 DEF Reply, RequestTypes
  <2> QED
    BY <1>2, <2>1, <2>2, <2>3, <2>4
<1>3. ASSUME NEW i \in Items, Go(i) PROVE RequestTypes' /\ crashed' \in BOOLEAN
  BY <1>3 DEF Go, RequestTypes
<1>4. ASSUME NEW i \in Items, BadPrompt(i) \/ Return(i)
      PROVE  RequestTypes' /\ crashed' \in BOOLEAN
  <2>1. /\ Respond(i, "content") \/ Respond(i, "error")
        /\ UNCHANGED <<crashed, sentTo, heard>>
    BY <1>4 DEF BadPrompt, Return
  <2> QED
    BY <2>1, RespondTypes
<1>5. ASSUME NEW i \in Items, Dispatch(i) PROVE RequestTypes' /\ crashed' \in BOOLEAN
  <2>1. Panics(i) \in BOOLEAN
    BY DEF Panics
  <2> QED
    BY <1>5, <2>1 DEF Dispatch, RequestTypes
<1> QED
  BY <1>1, <1>2, <1>3, <1>4, <1>5 DEF Calling

\* Every step keeps the types.
LEMMA TypeStep == TypeOK /\ [Next]_vars => TypeOK'
<1> SUFFICES ASSUME TypeOK, [Next]_vars PROVE TypeOK'
  OBVIOUS
<1>1. CASE Running
  <2>1. ServerTypes'
    BY <1>1, Types, ServerTypesStep
  <2>2. CASE Stop
    <3>1. heard' \in [Calls -> {"none", "responses", "unavailable"}]
      BY <2>2, Types DEF Stop, RequestTypes
    <3>2. RequestTypes'
      BY <1>1, <3>1, Types, Sides DEF RequestTypes
    <3> QED
      BY <2>1, <3>2 DEF TypeOK, ServerTypes, RequestTypes
  <2>3. CASE ~Stop
    <3>1. RequestTypes'
      BY <1>1, <2>3, Types, Sides DEF RequestTypes
    <3> QED
      BY <2>1, <3>1 DEF TypeOK, ServerTypes, RequestTypes
  <2> QED
    BY <2>2, <2>3
<1>2. CASE Calling
  <2>1. RequestTypes' /\ crashed' \in BOOLEAN
    BY <1>2, RequestTypesStep
  <2>2. ServerTypes'
    BY <1>2, <2>1, Types, Sides DEF ServerTypes, lifecycle
  <2> QED
    BY <2>1, <2>2 DEF TypeOK, ServerTypes, RequestTypes
<1>3. CASE UNCHANGED vars
  BY <1>3 DEF vars, TypeOK
<1> QED
  BY <1>1, <1>2, <1>3, NextDisjuncts

\* The servers and the requests are well typed; each start has a listener and a goroutine.
THEOREM Typing == Spec => []TypeOK
BY InitType, TypeStep, PTL DEF Spec

----------------------------------------------------------------------------
\* What makes OwnServer inductive: RegisterAndStart's goroutine is given its server when it is
\* made, so it never looks for one.
OwnInv ==
  owner = "Server" => ~crashed /\ \A n \in Starts : goroutine[n] # "none" => target[n] = n
NoPanics == \A i \in Items : ServiceOf[CallOf[i]] = "RLM" => Kind[i] # "json"

\* Every step keeps it, if no sub-call has a JSON prompt.
LEMMA OwnStep == ASSUME NoPanics PROVE TypeOK /\ OwnInv /\ [Next]_vars => OwnInv'
<1> SUFFICES ASSUME TypeOK, OwnInv, [Next]_vars PROVE OwnInv'
  OBVIOUS
<1>0. ServerTypes /\ StartsBound \in Nat /\ Starts = 1..StartsBound
  BY Types, BoundsAssumption DEF Starts
<1> USE <1>0 DEF OwnInv, ServerTypes
<1>1. CASE Start
  BY <1>1 DEF Start, Captured
<1>2. ASSUME NEW n \in Starts, ReadField(n) PROVE OwnInv'
  <2>1. owner = "Server" => target[n] = n
    BY <1>2 DEF ReadField
  <2> QED
    BY <1>2, <2>1 DEF ReadField
<1>3. ASSUME NEW n \in Starts, Serve(n) PROVE OwnInv'
  <2>1. \A k \in Starts : goroutine'[k] # "none" => goroutine[k] # "none"
    BY <1>3 DEF Serve
  <2> QED
    BY <1>3, <2>1 DEF Serve
<1>4. CASE Stop
  <2>1. \A k \in Starts : goroutine'[k] # "none" => goroutine[k] # "none"
    BY <1>4 DEF Stop, ServedBy
  <2> QED
    BY <1>4, <2>1 DEF Stop
<1>5. CASE ForgetServer \/ CloseListener
  BY <1>5 DEF ForgetServer, CloseListener
<1>6. CASE Calling
  <2>1. UNCHANGED lifecycle
    BY <1>6, Sides
  <2>2. crashed' = crashed \/ crashed' = FALSE
    <3>1. ASSUME NEW i \in Items, Dispatch(i) PROVE crashed' = FALSE
      <4>1. Kind[i] \in {"text", "json", "malformed"} /\ Kind[i] # "malformed"
        BY <3>1, ItemsAssumption DEF Dispatch, Index
      <4> QED
        BY <3>1, <4>1 DEF Dispatch, Panics, NoPanics, Index
    <3>2. CASE \E i \in Items : Dispatch(i)
      BY <3>1, <3>2
    <3>3. CASE ~\E i \in Items : Dispatch(i)
      BY <1>6, <3>3 DEF Calling, Send, Accept, Refuse, GiveUp, Reply, Go, BadPrompt, Return
    <3> QED
      BY <3>2, <3>3
  <2> QED
    BY <2>1, <2>2 DEF lifecycle
<1>7. CASE UNCHANGED vars
  BY <1>7 DEF vars
<1> QED
  BY <1>1, <1>2, <1>3, <1>4, <1>5, <1>6, <1>7, NextDisjuncts DEF Running

\* The port of a call is served by the server that was started for it, whenever its goroutine
\* runs, and serving ends no process; provided no sub-call has a JSON prompt (RLM.Subcall
\* panics on one).
THEOREM Owned == ASSUME NoPanics PROVE Spec => []OwnServer
<1>1. Init => OwnInv
  BY DEF Init, OwnInv
<1>2. OwnInv => OwnServer
  BY DEF OwnInv, OwnServer
<1> QED
  BY <1>1, <1>2, OwnStep, Typing, PTL DEF Spec

----------------------------------------------------------------------------
\* What makes PortsReleased inductive: only the last listener may be open, and only while its
\* owner has not stopped.
PortInv ==
  owner = "Server" => \A n \in Starts : port[n] = "open" => n = starts /\ step # "down"

\* A start opens the next listener when all before it are closed; no stop forgets to close.
LEMMA PortStep == TypeOK /\ PortInv /\ [Next]_vars => PortInv'
<1> SUFFICES ASSUME TypeOK, PortInv, [Next]_vars PROVE PortInv'
  OBVIOUS
<1>0. ServerTypes /\ StartsBound \in Nat /\ Starts = 1..StartsBound
  BY Types, BoundsAssumption DEF Starts
<1> USE <1>0 DEF PortInv, ServerTypes
<1>1. CASE Start
  BY <1>1 DEF Start
<1>2. ASSUME NEW n \in Starts, ReadField(n) PROVE PortInv'
  BY <1>2 DEF ReadField
<1>3. ASSUME NEW n \in Starts, Serve(n) PROVE PortInv'
  <2>1. \A k \in Starts : port'[k] = "open" => port[k] = "open"
    BY <1>3 DEF Serve
  <2> QED
    BY <1>3, <2>1 DEF Serve
<1>4. CASE Stop
  <2>1. \A k \in Starts : port'[k] = "open" => port[k] = "open"
    BY <1>4 DEF Stop
  <2> QED
    BY <1>4, <2>1 DEF Stop
<1>5. CASE ForgetServer
  BY <1>5 DEF ForgetServer
<1>6. CASE CloseListener
  <2>1. \A k \in Starts : port'[k] = "open" => port[k] = "open" /\ k # starts
    BY <1>6 DEF CloseListener
  <2> QED
    BY <1>6, <2>1 DEF CloseListener
<1>7. CASE Calling
  BY <1>7, Sides DEF lifecycle
<1>8. CASE UNCHANGED vars
  BY <1>8 DEF vars
<1> QED
  BY <1>1, <1>2, <1>3, <1>4, <1>5, <1>6, <1>7, <1>8, NextDisjuncts DEF Running

\* No port of a call is open once its stop function has returned.
THEOREM Ports == Spec => []PortsReleased
<1>1. Init => PortInv
  BY DEF Init, PortInv
<1>2. PortInv => PortsReleased
  BY DEF PortInv, PortsReleased
<1> QED
  BY <1>1, <1>2, PortStep, Typing, PTL DEF Spec

----------------------------------------------------------------------------
\* What makes LiveOnlyWhileUp inductive: a goroutine serves a server that is in force, and a call
\* that was accepted and not cut off has one.
LiveInv ==
  /\ \A n \in Starts : goroutine[n] = "serving" => target[n] # 0 /\ life[target[n]] = "made"
  /\ \A c \in Calls : Accepted(c) /\ heard[c] = "none" =>
       sentTo[c] \in Starts /\ goroutine[sentTo[c]] = "serving"

\* The owner's steps other than Stop end no goroutine that serves.
LEMMA ServesOn ==
  ASSUME LiveInv, UNCHANGED <<sentTo, phase, heard>>,
         \A n \in Starts : goroutine[n] = "serving" => goroutine'[n] = "serving",
         \A n \in Starts : goroutine'[n] = "serving" =>
           target'[n] # 0 /\ life'[target'[n]] = "made"
  PROVE  LiveInv'
<1>1. \A c \in Calls : Accepted(c)' => Accepted(c)
  BY DEF Accepted, ItemsOf
<1> QED
  BY <1>1 DEF LiveInv

\* A step of a call that is accepted by no one but a server that serves.
LEMMA AcceptedBefore ==
  ASSUME LiveInv, UNCHANGED lifecycle,
         \A c \in Calls : Accepted(c)' /\ heard'[c] = "none" =>
           \/ Accepted(c) /\ heard[c] = "none" /\ sentTo'[c] = sentTo[c]
           \/ sentTo'[c] \in Starts /\ goroutine[sentTo'[c]] = "serving"
  PROVE  LiveInv'
BY DEF LiveInv, lifecycle

\* Every step keeps it: Stop cuts off the callers of the server it stops.
LEMMA LiveStep == TypeOK /\ LiveInv /\ [Next]_vars => LiveInv'
<1> SUFFICES ASSUME TypeOK, LiveInv, [Next]_vars PROVE LiveInv'
  OBVIOUS
<1>0. ServerTypes /\ RequestTypes /\ StartsBound \in Nat /\ Starts = 1..StartsBound
  BY Types, BoundsAssumption DEF Starts
<1> USE <1>0 DEF ServerTypes
<1>a. \A n \in Starts : goroutine[n] = "serving" =>
        /\ target[n] \in Starts /\ life[target[n]] = "made"
  BY DEF LiveInv
<1>1. CASE Start
  <2>1. /\ starts + 1 \in Starts
        /\ life' = [life EXCEPT ![starts + 1] = "made"]
        /\ target' = [target EXCEPT ![starts + 1] = Captured(starts + 1)]
        /\ goroutine' = [goroutine EXCEPT ![starts + 1] = "spawned"]
        /\ UNCHANGED <<sentTo, phase, heard>>
    BY <1>1 DEF Start, requests
  <2>2. goroutine[starts + 1] = "none" /\ life[starts + 1] = "none"
    BY <2>1
  <2>3. \A n \in Starts : goroutine[n] = "serving" <=> goroutine'[n] = "serving"
    BY <2>1, <2>2
  <2>4. \A n \in Starts : goroutine'[n] = "serving" => target'[n] # 0 /\ life'[target'[n]] = "made"
    BY <2>1, <2>2, <2>3, <1>a
  <2> QED
    BY <2>1, <2>3, <2>4, ServesOn
<1>2. ASSUME NEW n \in Starts, ReadField(n) PROVE LiveInv'
  <2>1. \A k \in Starts : goroutine[k] = "serving" => target'[k] = target[k]
    BY <1>2 DEF ReadField
  <2>2. UNCHANGED <<goroutine, life, sentTo, phase, heard>>
    BY <1>2 DEF ReadField, requests
  <2> QED
    BY <2>1, <2>2, <1>a, ServesOn
<1>3. ASSUME NEW n \in Starts, Serve(n) PROVE LiveInv'
  <2>1. UNCHANGED <<life, target, sentTo, phase, heard>> /\ goroutine[n] = "spawned" /\ target[n] # 0
    BY <1>3 DEF Serve, requests
  <2>2. \A k \in Starts : goroutine[k] = "serving" => goroutine'[k] = "serving"
    BY <1>3 DEF Serve
  <2>3. \A k \in Starts : goroutine'[k] = "serving" =>
          goroutine[k] = "serving" \/ (k = n /\ life[target[n]] = "made")
    BY <1>3 DEF Serve
  <2> QED
    BY <2>1, <2>2, <2>3, <1>a, ServesOn
<1>4. CASE Stop
  <2>1. /\ life' = [life EXCEPT ![server] = "stopped"] /\ UNCHANGED <<target, sentTo, phase>>
        /\ goroutine' = [k \in Starts |-> IF k \in ServedBy(server) THEN "ended" ELSE goroutine[k]]
        /\ heard' = [c \in Calls |-> IF CutOff(c) THEN "unavailable" ELSE heard[c]]
    BY <1>4 DEF Stop
  <2>2. \A k \in Starts : goroutine'[k] = "serving" => goroutine[k] = "serving" /\ target[k] # server
    BY <2>1 DEF ServedBy
  <2>3. \A k \in Starts : goroutine'[k] = "serving" => target'[k] # 0 /\ life'[target'[k]] = "made"
    BY <2>1, <2>2, <1>a
  <2>4. ASSUME NEW c \in Calls, Accepted(c)', heard'[c] = "none"
        PROVE  sentTo'[c] \in Starts /\ goroutine'[sentTo'[c]] = "serving"
    <3>1. Accepted(c)
      BY <2>1, <2>4 DEF Accepted, ItemsOf
    <3>2. heard[c] = "none" /\ ~CutOff(c)
      BY <2>1, <2>4
    <3>3. sentTo[c] \in Starts /\ goroutine[sentTo[c]] = "serving"
      BY <3>1, <3>2 DEF LiveInv
    <3>4. sentTo[c] \notin ServedBy(server)
      BY <3>1, <3>2 DEF CutOff
    <3> QED
      BY <2>1, <3>3, <3>4
  <2> QED
    BY <2>3, <2>4 DEF LiveInv
<1>5. CASE ForgetServer \/ CloseListener
  <2>1. UNCHANGED <<life, target, goroutine, sentTo, phase, heard>>
    BY <1>5 DEF ForgetServer, CloseListener, requests
  <2> QED
    BY <2>1, <1>a, ServesOn
<1>6. CASE Calling
  <2>0. UNCHANGED lifecycle
    BY <1>6, Sides
  <2>1. ASSUME NEW c \in Calls, NEW n \in Starts, Send(c, n) PROVE LiveInv'
    <3>1. sentTo[c] = 0 /\ sentTo' = [sentTo EXCEPT ![c] = n] /\ UNCHANGED <<phase, heard>>
      BY <2>1 DEF Send
    <3>2. \A d \in Calls : Accepted(d)' /\ heard'[d] = "none" =>
            Accepted(d) /\ heard[d] = "none" /\ sentTo'[d] = sentTo[d]
      <4>1. \A d \in Calls : Accepted(d)' => Accepted(d)
        BY <3>1 DEF Accepted, ItemsOf
      <4>2. ~(Accepted(c) /\ heard[c] = "none")
        BY <3>1 DEF LiveInv
      <4> QED
        BY <3>1, <4>1, <4>2 DEF RequestTypes
    <3> QED
      BY <2>0, <3>2, AcceptedBefore
  <2>2. ASSUME NEW c \in Calls, Accept(c) PROVE LiveInv'
    <3>1. /\ sentTo[c] # 0 /\ goroutine[sentTo[c]] = "serving" /\ UNCHANGED <<sentTo, heard>>
          /\ phase' = [i \in Items |-> IF CallOf[i] = c THEN "asked" ELSE phase[i]]
      BY <2>2 DEF Accept
    <3>2. sentTo[c] \in Starts
      BY <3>1 DEF RequestTypes
    <3>3. \A d \in Calls : d # c /\ Accepted(d)' => Accepted(d)
      BY <3>1 DEF Accepted, ItemsOf
    <3> QED
      BY <2>0, <3>1, <3>2, <3>3, AcceptedBefore
  <2>3. ASSUME NEW c \in Calls, Refuse(c) \/ GiveUp(c) \/ Reply(c) PROVE LiveInv'
    <3>1. UNCHANGED <<sentTo, phase>> /\ \A d \in Calls : heard'[d] = "none" => heard[d] = "none"
      BY <2>3 DEF Refuse, GiveUp, Reply, RequestTypes
    <3>2. \A d \in Calls : Accepted(d)' => Accepted(d)
      BY <3>1 DEF Accepted, ItemsOf
    <3> QED
      BY <2>0, <3>1, <3>2, AcceptedBefore
  <2>4. ASSUME NEW i \in Items, Go(i) \/ BadPrompt(i) \/ Dispatch(i) \/ Return(i) PROVE LiveInv'
    <3>1. UNCHANGED <<sentTo, heard>> /\ phase[i] # "unsent"
      BY <2>4 DEF Go, BadPrompt, Dispatch, Return
    <3>2. \A j \in Items : j # i => phase'[j] = phase[j]
      BY <2>4 DEF Go, BadPrompt, Dispatch, Return, Respond, RequestTypes
    <3>3. \A d \in Calls : Accepted(d)' => Accepted(d)
      BY <3>1, <3>2 DEF Accepted, ItemsOf
    <3> QED
      BY <2>0, <3>1, <3>3, AcceptedBefore
  <2> QED
    BY <1>6, <2>1, <2>2, <2>3, <2>4 DEF Calling
<1>7. CASE UNCHANGED vars
  <2>1. UNCHANGED <<life, target, goroutine, sentTo, phase, heard>>
    BY <1>7 DEF vars
  <2> QED
    BY <2>1, <1>a, ServesOn
<1> QED
  BY <1>1, <1>2, <1>3, <1>4, <1>5, <1>6, <1>7, NextDisjuncts DEF Running

\* No handler works on under a live context for a server that has been stopped.
THEOREM Live == Spec => []LiveOnlyWhileUp
<1>1. Init => LiveInv
  BY DEF Init, LiveInv, Accepted, ItemsOf
<1>2. LiveInv => LiveOnlyWhileUp
  <2>1. \A c \in Calls : UnderWay(c) # {} => Accepted(c)
    BY DEF UnderWay, Accepted
  <2> QED
    BY <2>1 DEF LiveInv, LiveOnlyWhileUp
<1> QED
  BY <1>1, <1>2, LiveStep, Typing, PTL DEF Spec

----------------------------------------------------------------------------
\* What makes InPlace inductive: a goroutine that is done has written its own place, and a caller
\* hears only when all are done.
PlaceInv ==
  /\ \A i \in Items : phase[i] = "done" => responses[i].to = i
  /\ \A c \in Calls : heard[c] = "responses" => Answered(c)

\* No goroutine writes another's place, and none that is done runs again.
LEMMA PlaceStep == TypeOK /\ PlaceInv /\ [Next]_vars => PlaceInv'
<1> SUFFICES ASSUME TypeOK, PlaceInv, [Next]_vars PROVE PlaceInv'
  OBVIOUS
<1>0. RequestTypes
  BY Types
<1> USE <1>0 DEF PlaceInv, Answered, ItemsOf
<1>1. CASE Running
  <2>1. \A c \in Calls : heard'[c] = "responses" => heard[c] = "responses"
    <3>1. CASE Stop
      BY <3>1 DEF Stop, RequestTypes
    <3>2. CASE ~Stop
      BY <1>1, <3>2, Sides
    <3> QED
      BY <3>1, <3>2
  <2> QED
    BY <1>1, <2>1, Sides
<1>2. ASSUME NEW c \in Calls, NEW n \in Starts, Send(c, n) PROVE PlaceInv'
  BY <1>2 DEF Send
<1>3. ASSUME NEW c \in Calls, Accept(c) PROVE PlaceInv'
  <2>1. /\ heard[c] = "none" /\ UNCHANGED <<responses, heard>>
        /\ phase' = [i \in Items |-> IF CallOf[i] = c THEN "asked" ELSE phase[i]]
    BY <1>3 DEF Accept
  <2> QED
    BY <2>1
<1>4. ASSUME NEW c \in Calls, Refuse(c) \/ GiveUp(c) \/ Reply(c) PROVE PlaceInv'
  <2>1. UNCHANGED <<phase, responses>>
    BY <1>4 DEF Refuse, GiveUp, Reply
  <2>2. \A d \in Calls : heard'[d] = "responses" =>
          heard[d] = "responses" \/ (d = c /\ Answered(c))
    BY <1>4 DEF Refuse, GiveUp, Reply, RequestTypes
  <2> QED
    BY <2>1, <2>2
<1>5. ASSUME NEW i \in Items, Go(i) \/ Dispatch(i) PROVE PlaceInv'
  <2>1. /\ phase[i] # "done" /\ UNCHANGED <<responses, heard>>
        /\ \E p \in {"admitted", "called"} : phase' = [phase EXCEPT ![i] = p]
    BY <1>5 DEF Go, Dispatch
  <2> QED
    BY <2>1 DEF RequestTypes
<1>6. ASSUME NEW i \in Items, BadPrompt(i) \/ Return(i) PROVE PlaceInv'
  <2>1. /\ phase' = [phase EXCEPT ![i] = "done"] /\ heard' = heard
        /\ \E kind \in {"content", "error"} :
             responses' = [responses EXCEPT ![i] = Response(i, kind)]
    BY <1>6 DEF BadPrompt, Return, Respond, Index
  <2>2. responses'[i].to = i /\ \A j \in Items : j # i => responses'[j] = responses[j]
    BY <2>1 DEF Response, RequestTypes
  <2> QED
    BY <2>1, <2>2 DEF RequestTypes
<1>7. CASE UNCHANGED vars
  BY <1>7 DEF vars
<1> QED
  BY <1>1, <1>2, <1>3, <1>4, <1>5, <1>6, <1>7, NextDisjuncts DEF Calling

\* Responses stand where their prompts stood.
THEOREM Placed == Spec => []InPlace
<1>1. Init => PlaceInv
  BY DEF Init, PlaceInv
<1>2. PlaceInv => InPlace
  BY DEF PlaceInv, InPlace, Answered, ItemsOf
<1> QED
  BY <1>1, <1>2, PlaceStep, Typing, PTL DEF Spec
=============================================================================
