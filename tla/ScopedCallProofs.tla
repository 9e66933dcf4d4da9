-------------------------- MODULE ScopedCallProofs --------------------------
(***************************************************************************)
(* Machine-checked proof that Completion implements ScopedCall, for every  *)
(* value of the constants.                                                 *)
(***************************************************************************)
EXTENDS CompletionProofs

\* What a call may hold: nothing, or the first one, two or three of the resources in their order.
Resources == {"server", "workspace", "container"}
One == <<"server">>
Two == <<"server", "workspace">>
All == <<"server", "workspace", "container">>

\* A sequence and its extension by one element, seen from either side.
LEMMA Extension ==
  ASSUME NEW S, NEW s \in Seq(S), NEW t \in Seq(S), NEW e \in S,
         Len(t) = Len(s) + 1, t[Len(t)] = e, \A i \in 1..Len(s) : t[i] = s[i]
  PROVE  s \o <<e>> = t /\ Append(s, e) = t
<1>1. /\ Append(s, e) \in Seq(S) /\ Len(Append(s, e)) = Len(s) + 1
      /\ \A i \in 1..Len(s) : Append(s, e)[i] = s[i]
      /\ Append(s, e)[Len(s) + 1] = e
  BY AppendProperties
<1>2. \A i \in 1..Len(t) : Append(s, e)[i] = t[i]
  <2>1. Len(s) \in Nat /\ \A i \in 1..Len(t) : i \in 1..Len(s) \/ i = Len(s) + 1
    BY LenProperties
  <2> QED
    BY <2>1, <1>1
<1>3. Append(s, e) = t
  BY <1>1, <1>2, SeqEqual
<1> QED
  BY <1>3, AppendIsConcat

\* A prefix of a sequence is a SubSeq of it.
LEMMA Prefix ==
  ASSUME NEW S, NEW s \in Seq(S), NEW t \in Seq(S),
         Len(s) <= Len(t), \A i \in 1..Len(s) : t[i] = s[i]
  PROVE  SubSeq(t, 1, Len(s)) = s
<1>1. Len(s) \in Nat /\ \A i \in 1..Len(s) : t[i] \in S
  BY LenProperties, ElementOfSeq
<1>2. /\ SubSeq(t, 1, Len(s)) \in Seq(S)
      /\ Len(SubSeq(t, 1, Len(s))) = IF 1 <= Len(s) THEN Len(s) - 1 + 1 ELSE 0
      /\ \A i \in 1..(Len(s) - 1 + 1) : SubSeq(t, 1, Len(s))[i] = t[1 + i - 1]
  BY <1>1, SubSeqProperties
<1>3. Len(SubSeq(t, 1, Len(s))) = Len(s) /\ \A i \in 1..Len(s) : SubSeq(t, 1, Len(s))[i] = s[i]
  BY <1>1, <1>2
<1> QED
  BY <1>2, <1>3, SeqEqual

\* The four, place by place.
LEMMA HeldShapes ==
  /\ {<<>>, One, Two, All} \subseteq Seq(Resources)
  /\ Len(<<>>) = 0 /\ Len(One) = 1 /\ Len(Two) = 2 /\ Len(All) = 3
  /\ One[1] = "server" /\ Two[1] = "server" /\ Two[2] = "workspace"
  /\ All[1] = "server" /\ All[2] = "workspace" /\ All[3] = "container"
BY EmptySeq DEF One, Two, All, Resources

\* What acquiring and releasing make of these sequences.
LEMMA HeldSequences ==
  /\ One \o <<"workspace">> = Two /\ Two \o <<"container">> = All
  /\ <<>> \o <<"server">> = One
  /\ \A s \in {<<>>, One, Two, All} : s \o <<>> = s /\ SubSeq(s, 1, Len(s)) = s
  /\ Append(<<>>, "server") = One /\ Append(One, "workspace") = Two
  /\ Append(Two, "container") = All
  /\ SubSeq(One, 1, 0) = <<>> /\ SubSeq(Two, 1, 1) = One /\ SubSeq(All, 1, 1) = One
<1> DEFINE none == <<>>
<1>1. /\ {none, One, Two, All} \subseteq Seq(Resources)
      /\ Len(none) = 0 /\ Len(One) = 1 /\ Len(Two) = 2 /\ Len(All) = 3
      /\ {"server", "workspace", "container"} = Resources
      /\ One[Len(One)] = "server" /\ Two[Len(Two)] = "workspace" /\ All[Len(All)] = "container"
  BY HeldShapes DEF Resources
<1>2. /\ \A i \in 1..0 : One[i] = none[i]
      /\ \A i \in 1..1 : Two[i] = One[i] /\ All[i] = One[i]
      /\ \A i \in 1..2 : All[i] = Two[i]
  <2>1. (\A i \in 1..1 : i = 1) /\ (\A i \in 1..2 : i = 1 \/ i = 2)
    OBVIOUS
  <2> QED
    BY <2>1, HeldShapes
<1> HIDE DEF none
<1>3. none \o <<"server">> = One /\ Append(none, "server") = One
  <2>1. /\ none \in Seq(Resources) /\ One \in Seq(Resources) /\ "server" \in Resources
        /\ Len(One) = Len(none) + 1 /\ One[Len(One)] = "server"
        /\ \A i \in 1..Len(none) : One[i] = none[i]
    BY <1>1, <1>2
  <2> QED
    BY <2>1, Extension
<1>4. One \o <<"workspace">> = Two /\ Append(One, "workspace") = Two
  <2>1. /\ One \in Seq(Resources) /\ Two \in Seq(Resources) /\ "workspace" \in Resources
        /\ Len(Two) = Len(One) + 1 /\ Two[Len(Two)] = "workspace"
        /\ \A i \in 1..Len(One) : Two[i] = One[i]
    BY <1>1, <1>2
  <2> QED
    BY <2>1, Extension
<1>5. Two \o <<"container">> = All /\ Append(Two, "container") = All
  <2>1. /\ Two \in Seq(Resources) /\ All \in Seq(Resources) /\ "container" \in Resources
        /\ Len(All) = Len(Two) + 1 /\ All[Len(All)] = "container"
        /\ \A i \in 1..Len(Two) : All[i] = Two[i]
    BY <1>1, <1>2
  <2> QED
    BY <2>1, Extension
<1>6. \A s \in {none, One, Two, All} : s \o <<>> = s /\ SubSeq(s, 1, Len(s)) = s
  <2> SUFFICES ASSUME NEW s \in {none, One, Two, All}
               PROVE  s \o <<>> = s /\ SubSeq(s, 1, Len(s)) = s
    OBVIOUS
  <2>1. s \in Seq(Resources)
    BY <1>1
  <2>2. s \o <<>> = s
    BY <2>1, ConcatEmptySeq
  <2>3. Len(s) \in Nat
    BY <2>1, LenProperties
  <2>4. SubSeq(s, 1, Len(s)) = s
    BY <2>1, <2>3, Prefix
  <2> QED
    BY <2>2, <2>4
<1>7. SubSeq(One, 1, 0) = <<>>
  BY SubSeqEmpty
<1>8. SubSeq(Two, 1, 1) = One /\ SubSeq(All, 1, 1) = One
  <2>1. /\ One \in Seq(Resources) /\ Two \in Seq(Resources) /\ All \in Seq(Resources)
        /\ Len(One) = 1 /\ Len(One) <= Len(Two) /\ Len(One) <= Len(All)
        /\ \A i \in 1..Len(One) : Two[i] = One[i] /\ All[i] = One[i]
    BY <1>1, <1>2
  <2>2. SubSeq(Two, 1, Len(One)) = One
    BY <2>1, Prefix
  <2>3. SubSeq(All, 1, Len(One)) = One
    BY <2>1, Prefix
  <2> QED
    BY <2>1, <2>2, <2>3
<1> QED
  BY <1>3, <1>4, <1>5, <1>6, <1>7, <1>8 DEF none

\* What a call holds, by the resources that are up.
HeldBy(serves, exists, up) ==
  (IF serves THEN <<"server">> ELSE <<>>)
  \o (IF exists THEN <<"workspace">> ELSE <<>>)
  \o (IF up THEN <<"container">> ELSE <<>>)

\* In the order in which a call takes them, these are the four sequences.
LEMMA HeldIs ==
  /\ HeldBy(FALSE, FALSE, FALSE) = <<>> /\ HeldBy(TRUE, FALSE, FALSE) = One
  /\ HeldBy(TRUE, TRUE, FALSE) = Two /\ HeldBy(TRUE, TRUE, TRUE) = All
<1>1. <<>> \o <<>> = <<>> /\ One \o <<>> = One /\ Two \o <<>> = Two
  BY HeldSequences
<1>2. HeldBy(FALSE, FALSE, FALSE) = (<<>> \o <<>>) \o <<>>
  BY DEF HeldBy
<1>3. HeldBy(TRUE, FALSE, FALSE) = (One \o <<>>) \o <<>>
  BY DEF HeldBy, One
<1>4. HeldBy(TRUE, TRUE, FALSE) = (One \o <<"workspace">>) \o <<>>
  BY DEF HeldBy, One
<1>5. HeldBy(TRUE, TRUE, TRUE) = (One \o <<"workspace">>) \o <<"container">>
  BY DEF HeldBy, One
<1> QED
  BY <1>1, <1>2, <1>3, <1>4, <1>5, HeldSequences

\* The sequences' lengths and what precedes them.
LEMMA Lengths ==
  /\ Len(<<>>) = 0 /\ Len(One) = 1 /\ Len(Two) = 2 /\ Len(All) = 3
  /\ \A s \in {<<>>, One, Two, All} : Len(s) \in 0..3 /\ SubSeq(s, 1, Len(s)) = s
BY HeldShapes, HeldSequences

\* The same at both ends of a step.
LEMMA HeldEnds ==
  /\ Held = HeldBy(server, workspace = "made", container = "up")
  /\ Held' = HeldBy(server', workspace' = "made", container' = "up")
BY DEF Held, HeldBy

\* What is lost depends on the directory and the container alone.
LEMMA LostKept == UNCHANGED <<workspace, container>> => Lost' = Lost
BY DEF Lost

\* The shapes a call in order can have.
LEMMA HeldInOrder ==
  ASSUME TypeOK, ScopeInv
  PROVE  /\ Held \in {<<>>, One, Two, All}
         /\ ~server => Held = <<>> /\ workspace # "made" /\ container # "up"
         /\ server /\ workspace # "made" => Held = One /\ container # "up"
         /\ server /\ workspace = "made" /\ container # "up" => Held = Two
         /\ container = "up" => Held = All /\ server /\ workspace = "made"
<1>1. server \in BOOLEAN
  BY DEF TypeOK
<1>2. /\ server <=> deferred # <<>>
      /\ container = "up" <=> deferred = BothDeferred
      /\ workspace = "made" <=> pc = "environment" \/ container = "up"
      /\ pc = "environment" => deferred = <<"stopServer">>
  BY DEF ScopeInv
<1>3. (container = "up" => server /\ workspace = "made") /\ (workspace = "made" => server)
  BY <1>2, DeferStacks
<1> QED
  BY <1>1, <1>3, HeldEnds, HeldIs

\* A step that touches neither the resources nor the phase is a stuttering step of the promise.
LEMMA Stutters ==
  ASSUME UNCHANGED <<server, workspace, container, cancelled>>, Phase' = Phase
  PROVE  UNCHANGED Scoped!vars
<1>1. Held' = Held /\ cancelled' = cancelled /\ Lost' = Lost
  BY HeldEnds, LostKept
<1> QED
  BY <1>1 DEF Scoped!vars

\* A return statement begins to give back, and gives nothing back yet.
LEMMA Returns ==
  ASSUME TypeOK, ScopeInv, InCall, pc' = "unwinding",
         UNCHANGED <<server, workspace, container, cancelled>>
  PROVE  Scoped!Release
<1>1. Phase \in {"active", "closing"} /\ Phase' = "closing"
  BY DEF Phase, InCall
<1>2. Held' = Held /\ cancelled' = cancelled /\ Lost' = Lost
  BY HeldEnds, LostKept
<1>3. Held \in {<<>>, One, Two, All}
  BY HeldInOrder
<1>4. Len(Held) \in 0..3 /\ SubSeq(Held, 1, Len(Held)) = Held
  BY <1>3, Lengths
<1>5. Len(Held) \in 0..Len(Held)
  BY <1>4
<1>6. Lost' = Lost \cup {}
  BY <1>2
<1> QED
  BY <1>1, <1>2, <1>4, <1>5, <1>6 DEF Scoped!Release

\* The initial state promises nothing yet.
LEMMA ScopedInit == Init => Scoped!Init
<1> SUFFICES ASSUME Init PROVE Scoped!Init
  OBVIOUS
<1>1. Phase = "idle" /\ cancelled = FALSE /\ Lost = {}
  BY DEF Init, Phase, InCall, Lost
<1>2. Held = <<>>
  BY HeldEnds, HeldIs DEF Init
<1> QED
  BY <1>1, <1>2 DEF Scoped!Init

\* Every step of a call is a step of the promise, or none.
LEMMA ScopedStep == TypeOK /\ ScopeInv /\ [Next]_vars => [Scoped!Next]_(Scoped!vars)
<1> SUFFICES ASSUME TypeOK, ScopeInv, [Next]_vars PROVE Scoped!Next \/ UNCHANGED Scoped!vars
  OBVIOUS
<1> DEFINE Kept == UNCHANGED <<server, workspace, container, cancelled>>
<1>a. ASSUME ReturnWith("failed", NoAnswer), InCall, Kept PROVE Scoped!Next
  BY <1>a, Returns DEF ReturnWith, Scoped!Next
<1>b. ASSUME Kept, InCall, InCall', pc # "unwinding", pc' # "unwinding"
      PROVE  UNCHANGED Scoped!vars
  BY <1>b, Stutters DEF Phase
<1>c. Held \in {<<>>, One, Two, All} /\ Len(<<>>) = 0 /\ Len(One) = 1 /\ Len(Two) = 2 /\ Len(All) = 3
  BY HeldInOrder, Lengths
<1> HIDE DEF Kept
<1>1. CASE Begin
  <2>1. pc \in {"idle", "returned"} /\ pc' \in {"fallback", "client"} /\ cancelled' = FALSE
    BY <1>1 DEF Begin, InCall, TypeOK
  <2>2. server' = server /\ workspace' = "none" /\ container' = "none"
    BY <1>1 DEF Begin
  <2>3. ~server /\ workspace # "made" /\ container # "up"
    BY <2>1 DEF ScopeInv, BothDeferred
  <2>4. Held' = Held
    BY <2>2, <2>3, HeldEnds
  <2>5. Phase = "idle" /\ Phase' = "active" /\ Lost' = {}
    BY <2>1, <2>2 DEF Phase, InCall, Lost
  <2> QED
    BY <2>1, <2>4, <2>5 DEF Scoped!Next, Scoped!Open
<1>2. CASE Fallback \/ DefaultAnswer
  <2>1. pc' = "unwinding" /\ InCall /\ Kept
    BY <1>2 DEF Fallback, DefaultAnswer, ReturnWith, InCall, resources, Kept
  <2> QED
    BY <2>1, Returns DEF Kept, Scoped!Next
<1>3. CASE NewClient \/ LoadContext
  <2>1. InCall /\ Kept /\ pc # "unwinding"
    BY <1>3 DEF NewClient, LoadContext, InCall, resources, Kept
  <2>2. CASE ReturnWith("failed", NoAnswer)
    BY <2>1, <2>2, <1>a
  <2>3. CASE ~ReturnWith("failed", NoAnswer)
    <3>1. pc' \in {"services", "check"}
      BY <1>3, <2>3 DEF NewClient, LoadContext
    <3> QED
      BY <2>1, <3>1, <1>b DEF InCall
  <2> QED
    BY <2>2, <2>3
<1>4. CASE StartServices
  <2>1. pc = "services" /\ InCall /\ Phase = "active"
    BY <1>4 DEF StartServices, InCall, Phase
  <2>2. UNCHANGED <<workspace, container, cancelled>>
    BY <1>4 DEF StartServices
  <2>3. CASE ReturnWith("failed", NoAnswer)
    <3>1. pc' # "workspace"
      BY <2>3 DEF ReturnWith
    <3>2. Kept
      BY <1>4, <2>2, <3>1 DEF StartServices, Kept
    <3> QED
      BY <2>1, <2>3, <3>2, <1>a
  <2>4. CASE ~ReturnWith("failed", NoAnswer)
    <3>1. pc' = "workspace" /\ server' = TRUE
      BY <1>4, <2>4 DEF StartServices
    <3>2. ~server /\ workspace # "made" /\ container # "up"
      BY <2>1 DEF ScopeInv, BothDeferred
    <3>3. Held = <<>> /\ Held' = One
      BY <2>2, <3>1, <3>2, HeldEnds, HeldIs, HeldInOrder DEF TypeOK
    <3>4. Phase' = "active"
      BY <3>1 DEF Phase, InCall
    <3>5. Lost' = Lost /\ cancelled' = cancelled
      BY <2>2, LostKept
    <3>6. Scoped!Order[1] = "server" /\ Len(Scoped!Order) = 3
      BY HeldShapes DEF Scoped!Order, All
    <3>7. Append(Held, Scoped!Order[Len(Held) + 1]) = Held'
      BY <3>3, <3>6, <1>c, HeldSequences
    <3>8. Len(Held) < Len(Scoped!Order)
      BY <3>3, <3>6, <1>c
    <3> QED
      BY <2>1, <3>4, <3>5, <3>7, <3>8 DEF Scoped!Next, Scoped!Acquire
  <2> QED
    BY <2>3, <2>4
<1>5. CASE MakeWorkspace
  <2>1. pc = "workspace" /\ InCall /\ Phase = "active"
    BY <1>5 DEF MakeWorkspace, InCall, Phase
  <2>2. UNCHANGED <<server, container, cancelled>>
    BY <1>5 DEF MakeWorkspace
  <2>3. CASE ReturnWith("failed", NoAnswer)
    <3>1. pc' # "environment"
      BY <2>3 DEF ReturnWith
    <3>2. Kept
      BY <1>5, <2>2, <3>1 DEF MakeWorkspace, Kept
    <3> QED
      BY <2>1, <2>3, <3>2, <1>a
  <2>4. CASE ~ReturnWith("failed", NoAnswer)
    <3>1. pc' = "environment" /\ workspace' = "made"
      BY <1>5, <2>4 DEF MakeWorkspace
    <3>2. server /\ workspace = "none" /\ container # "up"
      BY <2>1, DeferStacks DEF ScopeInv, TypeOK
    <3>3. Held = One /\ Held' = Two
      BY <2>2, <3>1, <3>2, HeldEnds, HeldIs, HeldInOrder DEF TypeOK
    <3>4. Phase' = "active"
      BY <3>1 DEF Phase, InCall
    <3>5. Lost' = Lost /\ cancelled' = cancelled
      BY <2>2, <3>1, <3>2 DEF Lost
    <3>6. Scoped!Order[2] = "workspace" /\ Len(Scoped!Order) = 3
      BY HeldShapes DEF Scoped!Order, All
    <3>7. Append(Held, Scoped!Order[Len(Held) + 1]) = Held'
      BY <3>3, <3>6, <1>c, HeldSequences
    <3>8. Len(Held) < Len(Scoped!Order)
      BY <3>3, <3>6, <1>c
    <3> QED
      BY <2>1, <3>4, <3>5, <3>7, <3>8 DEF Scoped!Next, Scoped!Acquire
  <2> QED
    BY <2>3, <2>4
<1>6. CASE NewEnvironment
  <2>1. pc = "environment" /\ Phase = "active"
    BY <1>6 DEF NewEnvironment, InCall, Phase
  <2>2. UNCHANGED <<server, cancelled>>
    BY <1>6 DEF NewEnvironment
  <2>3. server /\ workspace = "made" /\ container # "up" /\ container # "orphaned"
    BY <2>1, DeferStacks DEF ScopeInv
  <2>4. Held = Two
    BY <2>3, HeldInOrder
  <2>5. CASE ReturnWith("failed", NoAnswer)
    <3>1. pc' = "unwinding"
      BY <2>5 DEF ReturnWith
    <3>2. workspace' \in {"none", "left"} /\ container' = container
      BY <1>6, <3>1 DEF NewEnvironment, RemoveAll
    <3>3. Held' = One
      BY <2>2, <2>3, <3>2, HeldEnds, HeldIs DEF TypeOK
    <3>4. Phase' = "closing"
      BY <3>1 DEF Phase, InCall
    <3> DEFINE away == IF workspace' = "left" THEN {"workspace"} ELSE {}
    <3>5. Lost' = Lost \cup away /\ away \in SUBSET {"workspace", "container"}
          /\ "container" \notin away
      BY <2>3, <3>2 DEF Lost
    <3>6. 1 \in 0..Len(Held) /\ Held' = SubSeq(Held, 1, 1)
      BY <2>4, <3>3, <1>c, HeldSequences
    <3>7. \A r \in away : \E k \in (1 + 1)..Len(Held) : Held[k] = r
      <4>1. 2 \in (1 + 1)..Len(Held) /\ Held[2] = "workspace"
        BY <2>4, HeldShapes
      <4> QED
        BY <4>1
    <3> HIDE DEF away
    <3> QED
      BY <2>1, <2>2, <3>4, <3>5, <3>6, <3>7 DEF Scoped!Next, Scoped!Release
  <2>6. CASE ~ReturnWith("failed", NoAnswer)
    <3>1. pc' = "context" /\ container' = "up" /\ workspace' = workspace
      BY <1>6, <2>6 DEF NewEnvironment
    <3>2. Held' = All
      BY <2>2, <2>3, <3>1, HeldEnds, HeldIs DEF TypeOK
    <3>3. Phase' = "active"
      BY <3>1 DEF Phase, InCall
    <3>4. Lost' = Lost
      BY <2>3, <3>1 DEF Lost
    <3>5. Scoped!Order[3] = "container" /\ Len(Scoped!Order) = 3
      BY HeldShapes DEF Scoped!Order, All
    <3>6. Append(Held, Scoped!Order[Len(Held) + 1]) = Held'
      BY <2>4, <3>2, <3>5, <1>c, HeldSequences
    <3>7. Len(Held) < Len(Scoped!Order)
      BY <2>4, <3>5, <1>c
    <3> QED
      BY <2>1, <2>2, <3>3, <3>4, <3>6, <3>7 DEF Scoped!Next, Scoped!Acquire
  <2> QED
    BY <2>5, <2>6
<1>7. CASE CheckTimeout \/ ModelError \/ StopAtLimit \/ SubmitAnswer
  <2>1. InCall /\ Kept /\ pc # "unwinding" /\ pc' \in {"model", "unwinding"}
    BY <1>7 DEF CheckTimeout, ModelError, StopAtLimit, SubmitAnswer, TurnDone, ReturnWith,
                InCall, resources, Kept
  <2>2. CASE pc' = "unwinding"
    BY <2>1, <2>2, Returns DEF Kept, Scoped!Next
  <2>3. CASE pc' = "model"
    BY <2>1, <2>3, <1>b DEF InCall
  <2> QED
    BY <2>1, <2>2, <2>3
<1>8. CASE ModelReply \/ StartExec \/ ExecRefused \/ ExecReturn \/ ExecAborted \/ NextIteration
  <2>1. /\ pc \in {"model", "exec", "running"} /\ Kept
        /\ pc' \in {"exec", "running", "check", "default"}
    BY <1>8 DEF ModelReply, StartExec, ExecRefused, ExecReturn, ExecAborted, NextIteration,
                TurnDone, resources, Kept
  <2> QED
    BY <2>1, <1>b DEF InCall
<1>9. CASE Cleanup
  <2>1. pc = "unwinding" /\ deferred[Len(deferred)] = "cleanup" /\ deferred # <<>>
    BY <1>9 DEF Cleanup, PopDeferred
  <2>2. container = "up" /\ server /\ workspace = "made"
    BY <2>1, DeferStacks DEF ScopeInv
  <2>3. /\ pc' = pc /\ server' = server /\ workspace' \in {"none", "left"} /\ cancelled' = cancelled
        /\ container' = IF cancelled THEN "orphaned" ELSE "stopped"
    BY <1>9 DEF Cleanup, RemoveAll
  <2>4. Held = All
    BY <2>2, HeldInOrder
  <2>5. Held' = One
    BY <2>2, <2>3, HeldEnds, HeldIs DEF TypeOK
  <2>6. Phase = "closing" /\ Phase' = "closing"
    BY <2>1, <2>3 DEF Phase, InCall
  <2>7. 1 \in 0..Len(Held) /\ Held' = SubSeq(Held, 1, 1)
    BY <2>4, <2>5, <1>c, HeldSequences
  <2>8. Lost' = Lost \cup Lost' /\ Lost' \in SUBSET {"workspace", "container"}
        /\ ("container" \in Lost' => cancelled)
    BY <2>2, <2>3 DEF Lost
  <2>9. \A r \in Lost' : \E k \in (1 + 1)..Len(Held) : Held[k] = r
    <3>1. /\ 2 \in (1 + 1)..Len(Held) /\ Held[2] = "workspace"
          /\ 3 \in (1 + 1)..Len(Held) /\ Held[3] = "container"
      BY <2>4, HeldShapes
    <3> QED
      BY <2>8, <3>1
  <2> QED
    BY <2>3, <2>6, <2>7, <2>8, <2>9 DEF Scoped!Next, Scoped!Release
<1>10. CASE StopServer
  <2>1. pc = "unwinding" /\ deferred[Len(deferred)] = "stopServer" /\ deferred # <<>>
    BY <1>10 DEF StopServer, PopDeferred
  <2>2. container # "up" /\ server /\ workspace # "made"
    BY <2>1, DeferStacks DEF ScopeInv
  <2>3. pc' = pc /\ server' = FALSE /\ UNCHANGED <<workspace, container, cancelled>>
    BY <1>10 DEF StopServer
  <2>4. Held = One
    BY <2>2, HeldInOrder
  <2>5. Held' = <<>>
    BY <2>2, <2>3, HeldEnds, HeldIs DEF TypeOK
  <2>6. Phase = "closing" /\ Phase' = "closing"
    BY <2>1, <2>3 DEF Phase, InCall
  <2>7. 0 \in 0..Len(Held) /\ Held' = SubSeq(Held, 1, 0)
    BY <2>4, <2>5, <1>c, HeldSequences
  <2>8. Lost' = Lost \cup {}
    BY <2>3, LostKept
  <2> QED
    BY <2>3, <2>6, <2>7, <2>8 DEF Scoped!Next, Scoped!Release
<1>11. CASE Return
  <2>1. pc = "unwinding" /\ deferred = <<>> /\ pc' = "returned" /\ Kept
    BY <1>11 DEF Return, resources, Kept
  <2>2. ~server /\ Held = <<>>
    BY <2>1, HeldInOrder DEF ScopeInv
  <2>3. Held' = Held /\ cancelled' = cancelled
        /\ Lost' = Lost
    BY <2>1, HeldEnds, LostKept DEF Kept
  <2>4. Phase = "closing" /\ Phase' = "idle"
    BY <2>1 DEF Phase, InCall
  <2> QED
    BY <2>2, <2>3, <2>4 DEF Scoped!Next, Scoped!Close
<1>12. CASE ContainerQuery \/ Tick
  <2>1. pc' = pc /\ UNCHANGED <<server, workspace, container, cancelled>>
    BY <1>12 DEF ContainerQuery, Tick, resources
  <2> QED
    BY <2>1, Stutters DEF Phase, InCall
<1>13. CASE Cancel
  <2>1. InCall /\ pc' = pc /\ cancelled' = TRUE /\ UNCHANGED <<server, workspace, container>>
    BY <1>13 DEF Cancel, resources
  <2>2. Held' = Held /\ Lost' = Lost
    BY <2>1, HeldEnds, LostKept
  <2>3. Phase # "idle" /\ Phase' = Phase
    BY <2>1 DEF Phase, InCall
  <2> QED
    BY <2>1, <2>2, <2>3 DEF Scoped!Next, Scoped!Cancel
<1>14. CASE UNCHANGED vars
  <2>1. pc' = pc /\ UNCHANGED <<server, workspace, container, cancelled>>
    BY <1>14 DEF vars
  <2> QED
    BY <2>1, Stutters DEF Phase, InCall
<1> QED
  BY <1>1, <1>2, <1>3, <1>4, <1>5, <1>6, <1>7, <1>8, <1>9, <1>10, <1>11, <1>12, <1>13, <1>14,
     NextDisjuncts

\* Completion implements ScopedCall: whatever return a call takes, and whenever it is cancelled,
\* it takes the server, the directory and the container in that order, gives them back in the
\* reverse order, and loses at most a directory it could not remove and, when cancelled, the
\* container.
THEOREM Implementation == Spec => Implements
<1>1. Spec => [](TypeOK /\ ScopeInv)
  BY Typing, ScopeInit, ScopeStep, PTL DEF Spec
<1> QED
  BY <1>1, ScopedInit, ScopedStep, PTL DEF Spec, Implements, Scoped!Spec
=============================================================================
