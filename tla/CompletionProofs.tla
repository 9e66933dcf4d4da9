-------------------------- MODULE CompletionProofs --------------------------
(***************************************************************************)
(* Machine-checked proofs about Completion, for every value of its         *)
(* constants: types, the release of what was started, and the counters,    *)
(* limits and answers of the loop.                                         *)
(***************************************************************************)
EXTENDS Completion, SequenceTheorems, WellFoundedInduction, TLAPS

\* Adding usages yields a usage.
LEMMA PlusType == ASSUME NEW u \in Usage, NEW v \in Usage PROVE Plus(u, v) \in Usage
BY DEF Plus, Usage

\* Appending an element of S keeps a sequence over S.
LEMMA AppendType == ASSUME NEW S, NEW s \in Seq(S), NEW e \in S PROVE Append(s, e) \in Seq(S)
OBVIOUS

\* A sequence without its last element is a sequence.
LEMMA FrontType ==
  ASSUME NEW S, NEW s \in Seq(S), s # <<>>
  PROVE  SubSeq(s, 1, Len(s) - 1) \in Seq(S)
<1>1. Len(s) \in Nat /\ \A i \in 1..(Len(s) - 1) : s[i] \in S
  BY LenProperties
<1> QED
  BY <1>1, SubSeqProperties

\* The empty turn is a turn.
LEMMA EmptyTurnType == EmptyTurn \in Turns
<1>1. <<>> \in Seq(Results)
  BY EmptySeq
<1> QED
  BY <1>1 DEF EmptyTurn, Turns, Responses

\* Recording a result keeps the turn well typed, when a block was left.
LEMMA RecordType ==
  ASSUME turn \in Turns, turn.blocks > 0, NEW failed \in BOOLEAN, NEW answer \in FinalAnswers,
         Record(failed, answer)
  PROVE  turn' \in Turns
<1>1. Append(turn.results, [failed |-> failed, answer |-> answer]) \in Seq(Results)
  BY AppendType DEF Turns, Results
<1>2. turn.response \in Responses /\ turn.blocks \in Nat /\ turn.blocks - 1 \in Nat
  BY DEF Turns
<1>3. turn' = [response |-> turn.response, blocks |-> turn.blocks - 1,
               results |-> Append(turn.results, [failed |-> failed, answer |-> answer])]
  BY DEF Record, Turns
<1> QED
  BY <1>1, <1>2, <1>3 DEF Turns

\* A return statement yields an outcome.
LEMMA ReturnType ==
  ASSUME NEW kind \in OutcomeKinds, NEW answer \in FinalAnswers \cup Responses,
         ReturnWith(kind, answer)
  PROVE  outcome' \in Outcomes
BY DEF ReturnWith, Outcome, Outcomes

\* A non-empty set of numbers has a least element.
LEMMA Least ==
  ASSUME NEW T, T \subseteq Nat, T # {}
  PROVE  \E k \in T : \A j \in T : ~(j < k)
<1> DEFINE R == OpToRel(<, Nat)
<1>1. IsWellFoundedOn(R, Nat)
  BY NatLessThanWellFounded
<1>2. \A j, k \in Nat : j < k => <<j, k>> \in R
  BY DEF OpToRel
<1> HIDE DEF R
<1>3. \E k \in T : \A j \in T : <<j, k>> \notin R
  BY <1>1, WFMin
<1> QED
  BY <1>2, <1>3

\* The answer picked from a turn that submits one is an answer.
LEMMA FinalAnswerType ==
  ASSUME NEW t \in Turns, Submitted(t)
  PROVE  FinalAnswer(t) \in FinalAnswers
<1> DEFINE T == {k \in DOMAIN t.results : Submits(t, k)}
<1>1. t.results \in Seq(Results)
  BY DEF Turns
<1>2. T \subseteq Nat /\ T # {} /\ DOMAIN t.results = 1..Len(t.results)
  BY <1>1, LenProperties DEF Submitted
<1>3. PICK k \in T : \A j \in T : ~(j < k)
  <2> HIDE DEF T
  <2> QED BY <1>2, Least
<1>4. Submits(t, k) /\ \A j \in 1..(k - 1) : ~Submits(t, j)
  BY <1>2, <1>3
<1> DEFINE P(x) == Submits(t, x) /\ \A j \in 1..(x - 1) : ~Submits(t, j)
<1>5. PICK x \in DOMAIN t.results : x = CHOOSE y \in DOMAIN t.results : P(y)
  BY <1>4
<1>6. t.results[x] \in Results
  BY <1>1, <1>2, <1>5, ElementOfSeq
<1> QED
  BY <1>5, <1>6 DEF FinalAnswer, Results

\* A step is one of the actions, whatever group Next puts it in.
LEMMA NextDisjuncts ==
  Next => \/ Begin \/ Fallback \/ NewClient \/ StartServices \/ MakeWorkspace \/ NewEnvironment
          \/ LoadContext \/ CheckTimeout \/ ModelReply \/ ModelError \/ StartExec \/ ExecRefused
          \/ ExecReturn \/ ExecAborted \/ StopAtLimit \/ SubmitAnswer \/ NextIteration
          \/ DefaultAnswer \/ Cleanup \/ StopServer \/ Return \/ ContainerQuery \/ Tick \/ Cancel
BY DEF Next, Host, Setup, Turn, Finish, Unwind

\* The depth of an RLM is fixed.
LEMMA DepthFixed == [Next]_vars => depth' = depth
<1> SUFFICES ASSUME [Next]_vars PROVE depth' = depth
  OBVIOUS
<1>1. CASE Begin \/ Fallback \/ NewClient \/ StartServices \/ MakeWorkspace \/ NewEnvironment \/ LoadContext
  BY <1>1 DEF Begin, Fallback, NewClient, StartServices, MakeWorkspace, NewEnvironment, LoadContext
<1>2. CASE CheckTimeout \/ ModelReply \/ ModelError \/ StartExec \/ ExecRefused \/ ExecReturn \/ ExecAborted
  BY <1>2 DEF CheckTimeout, ModelReply, ModelError, StartExec, ExecRefused, ExecReturn, ExecAborted
<1>3. CASE StopAtLimit \/ SubmitAnswer \/ NextIteration \/ DefaultAnswer
  BY <1>3 DEF StopAtLimit, SubmitAnswer, NextIteration, DefaultAnswer
<1>4. CASE Cleanup \/ StopServer \/ Return \/ ContainerQuery \/ Tick \/ Cancel
  BY <1>4 DEF Cleanup, StopServer, Return, ContainerQuery, Tick, Cancel
<1> QED
  BY <1>1, <1>2, <1>3, <1>4, NextDisjuncts DEF vars

\* The initial state is well typed.
LEMMA InitType == Init => TypeInv
<1>1. <<>> \in Seq({"stopServer", "cleanup"}) /\ <<>> \in Seq(Turns)
  BY EmptySeq
<1>2. Pending \in Outcomes
  BY DEF Pending, Outcome, Outcomes, OutcomeKinds, FinalAnswers
<1>3. Zero \in Usage /\ NoAnswer \in Responses
  BY DEF Zero, Usage, Responses
<1> SUFFICES ASSUME Init PROVE TypeInv
  OBVIOUS
<1>4. depth \in Depths /\ pc = "idle" /\ calls = 0 /\ elapsed = 0 /\ iteration = 0 /\ consecutiveErrors = 0
  BY DEF Init
<1>5. cancelled = FALSE /\ server = FALSE /\ workspace = "none" /\ executing = FALSE
  BY DEF Init
<1>6. deferred \in Seq({"stopServer", "cleanup"}) /\ history \in Seq(Turns)
  BY <1>1 DEF Init
<1>7. turn \in Turns /\ bestPartialAnswer \in Responses /\ usage \in Usage
  BY <1>3, EmptyTurnType DEF Init
<1>8. container = "none" /\ outcome \in Outcomes
  BY <1>2 DEF Init
<1> QED
  BY <1>4, <1>5, <1>6, <1>7, <1>8 DEF TypeOK, TypeInv

\* Every step keeps the types and the count of blocks, action by action.
LEMMA TypeStep == TypeInv /\ [Next]_vars => TypeInv'
<1> SUFFICES ASSUME TypeInv, [Next]_vars PROVE TypeInv'
  OBVIOUS
<1>0. depth' = depth
  BY DepthFixed
<1> USE <1>0 DEF TypeInv, TypeOK, tracking, loop, resources
<1>a. ASSUME NEW kind \in OutcomeKinds, ReturnWith(kind, NoAnswer)
      PROVE  pc' = "unwinding" /\ outcome' \in Outcomes
  BY <1>a, ReturnType DEF ReturnWith, FinalAnswers
<1>b. {"failed", "fallback", "default", "answer"} \subseteq OutcomeKinds /\ LimitKinds \subseteq OutcomeKinds
  BY DEF OutcomeKinds
<1>c. ReturnWith("failed", NoAnswer) => pc' = "unwinding" /\ outcome' \in Outcomes
  BY <1>a, <1>b
<1>d. Pending \in Outcomes /\ NoAnswer \in Responses /\ Zero \in Usage
  BY DEF Pending, Outcome, Outcomes, OutcomeKinds, FinalAnswers, Responses, Zero, Usage
<1>e. <<>> \in Seq(Turns)
  BY EmptySeq
<1>f. \A u \in CallUsage : Plus(usage, u) \in Usage
  BY UsageAssumption, PlusType
<1>1. CASE Begin
  <2>1. calls + 1 \in Nat
    OBVIOUS
  <2>2. calls' = calls + 1 /\ elapsed' = 0 /\ iteration' = 0 /\ cancelled' = FALSE /\ executing' = FALSE
    BY <1>1 DEF Begin
  <2>3. usage' \in Usage /\ outcome' \in Outcomes /\ history' \in Seq(Turns) /\ turn' \in Turns
    BY <1>1, <1>d, <1>e, EmptyTurnType DEF Begin
  <2>4. container' = "none" /\ workspace' = "none" /\ UNCHANGED <<deferred, server>>
    BY <1>1 DEF Begin
  <2>5. /\ pc' \in {"fallback", "client"}
        /\ consecutiveErrors' \in Nat /\ bestPartialAnswer' \in Responses
    BY <1>1, <1>d DEF Begin, ResetTracking
  <2> QED
    BY <2>1, <2>2, <2>3, <2>4, <2>5
<1>2. CASE Fallback
  <2>1. ReturnWith("fallback", NoAnswer) => pc' = "unwinding" /\ outcome' \in Outcomes
    BY <1>a, <1>b
  <2> QED BY <1>2, <1>c, <1>f, <2>1 DEF Fallback
<1>3. CASE NewClient
  BY <1>3, <1>c DEF NewClient
<1>4. CASE StartServices
  <2>1. Append(deferred, "stopServer") \in Seq({"stopServer", "cleanup"})
    BY AppendType
  <2> QED BY <1>4, <1>c, <2>1 DEF StartServices
<1>5. CASE MakeWorkspace
  BY <1>5, <1>c DEF MakeWorkspace
<1>6. CASE NewEnvironment
  <2>1. Append(deferred, "cleanup") \in Seq({"stopServer", "cleanup"})
    BY AppendType
  <2> QED BY <1>6, <1>c, <2>1 DEF NewEnvironment, RemoveAll
<1>7. CASE LoadContext
  BY <1>7, <1>c DEF LoadContext
<1>8. CASE CheckTimeout
  <2>1. ReturnWith("timeout", bestPartialAnswer) => pc' = "unwinding" /\ outcome' \in Outcomes
    BY ReturnType, <1>b DEF ReturnWith, LimitKinds
  <2> QED BY <1>8, <2>1 DEF CheckTimeout
<1>9. CASE ModelReply
  <2>1. usage' \in Usage
    BY <1>9, <1>f DEF ModelReply
  <2>2. \A b \in 0..MaxBlocks :
          [response |-> <<calls, iteration>>, blocks |-> b, results |-> <<>>] \in Turns
    <3>1. <<>> \in Seq(Results)
      BY EmptySeq
    <3> QED
      BY <3>1, BoundsAssumption DEF Turns, Responses
  <2>3. turn' \in Turns
    BY <1>9, <2>2, EmptyTurnType DEF ModelReply
  <2> QED
    BY <1>9, <2>1, <2>3 DEF ModelReply
<1>10. CASE ModelError
  BY <1>10, <1>c DEF ModelError
<1>11. CASE StartExec
  BY <1>11 DEF StartExec
<1>12. CASE ExecRefused
  <2>1. turn' \in Turns
    BY <1>12, RecordType DEF ExecRefused, FinalAnswers
  <2> QED BY <1>12, <2>1 DEF ExecRefused
<1>13. CASE ExecReturn
  <2>1. turn' \in Turns
    BY <1>13, RecordType DEF ExecReturn
  <2> QED BY <1>13, <2>1 DEF ExecReturn
<1>14. CASE ExecAborted
  <2>1. turn' \in Turns
    BY <1>14, RecordType DEF ExecAborted, FinalAnswers
  <2> QED BY <1>14, <2>1 DEF ExecAborted
<1>g. CloseTurn => consecutiveErrors' \in Nat /\ history' \in Seq(Turns)
  BY AppendType DEF CloseTurn, ErrorCount
<1>15. CASE StopAtLimit
  <2>1. LimitHit(ErrorCount) # "none" => LimitHit(ErrorCount) \in OutcomeKinds
    BY DEF LimitHit, LimitKinds, OutcomeKinds
  <2>2. ReturnWith(LimitHit(ErrorCount), bestPartialAnswer) => pc' = "unwinding" /\ outcome' \in Outcomes
    BY <1>15, <2>1, ReturnType DEF ReturnWith, StopAtLimit
  <2> QED BY <1>15, <1>g, <2>2 DEF StopAtLimit
<1>16. CASE SubmitAnswer
  <2>1. FinalAnswer(turn) \in FinalAnswers
    BY <1>16, FinalAnswerType DEF SubmitAnswer
  <2>2. ReturnWith("answer", FinalAnswer(turn)) => pc' = "unwinding" /\ outcome' \in Outcomes
    BY <1>b, <2>1, ReturnType DEF ReturnWith
  <2> QED BY <1>16, <1>g, <2>2 DEF SubmitAnswer
<1>17. CASE NextIteration
  <2>1. turn.response \in Responses
    BY DEF Turns
  <2>2. bestPartialAnswer' \in Responses
    BY <1>17, <2>1 DEF NextIteration, UpdateBestPartial
  <2>3. pc' \in {"check", "default"} /\ iteration' \in Nat /\ turn' \in Turns
    BY <1>17, EmptyTurnType DEF NextIteration
  <2> QED BY <1>17, <1>g, <2>2, <2>3 DEF NextIteration
<1>18. CASE DefaultAnswer
  <2>1. ReturnWith("default", NoAnswer) => pc' = "unwinding" /\ outcome' \in Outcomes
    BY <1>a, <1>b
  <2> QED BY <1>18, <1>c, <1>f, <2>1 DEF DefaultAnswer
<1>h. \A name : PopDeferred(name) => deferred' \in Seq({"stopServer", "cleanup"})
  BY FrontType DEF PopDeferred
<1>19. CASE Cleanup
  BY <1>19, <1>h DEF Cleanup, RemoveAll
<1>20. CASE StopServer
  BY <1>20, <1>h DEF StopServer
<1>21. CASE Return
  BY <1>21 DEF Return
<1>22. CASE ContainerQuery
  BY <1>22, <1>f DEF ContainerQuery
<1>23. CASE Tick
  BY <1>23 DEF Tick
<1>24. CASE Cancel
  BY <1>24 DEF Cancel
<1>25. CASE UNCHANGED vars
  BY <1>25 DEF vars
<1> QED
  BY <1>1, <1>2, <1>3, <1>4, <1>5, <1>6, <1>7, <1>8, <1>9, <1>10, <1>11, <1>12, <1>13, <1>14,
     <1>15, <1>16, <1>17, <1>18, <1>19, <1>20, <1>21, <1>22, <1>23, <1>24, <1>25, NextDisjuncts

\* Every reachable state of Completion is well typed.
THEOREM Typing == Spec => []TypeOK
<1>1. TypeInv => TypeOK
  BY DEF TypeInv
<1> QED
  BY <1>1, InitType, TypeStep, PTL DEF Spec

----------------------------------------------------------------------------
\* The three defer stacks there are, and what pushing and popping make of them.
LEMMA DeferStacks ==
  /\ <<>> # <<"stopServer">> /\ <<>> # BothDeferred /\ <<"stopServer">> # BothDeferred
  /\ Append(<<>>, "stopServer") = <<"stopServer">>
  /\ Append(<<"stopServer">>, "cleanup") = BothDeferred
  /\ SubSeq(<<"stopServer">>, 1, Len(<<"stopServer">>) - 1) = <<>>
  /\ SubSeq(BothDeferred, 1, Len(BothDeferred) - 1) = <<"stopServer">>
  /\ <<"stopServer">>[Len(<<"stopServer">>)] = "stopServer"
  /\ BothDeferred[Len(BothDeferred)] = "cleanup"
<1>1. <<>> # <<"stopServer">> /\ <<>> # BothDeferred /\ <<"stopServer">> # BothDeferred
  BY DEF BothDeferred
<1>2. Append(<<>>, "stopServer") = <<"stopServer">>
  OBVIOUS
<1>3. Append(<<"stopServer">>, "cleanup") = BothDeferred
  <2> DEFINE S == {"stopServer", "cleanup"}
             one == <<"stopServer">>
  <2>1. one \in Seq(S) /\ Len(one) = 1 /\ one[1] = "stopServer"
    OBVIOUS
  <2>2. BothDeferred \in Seq(S) /\ Len(BothDeferred) = 2
        /\ BothDeferred[1] = "stopServer" /\ BothDeferred[2] = "cleanup"
    BY DEF BothDeferred
  <2> HIDE DEF one
  <2>3. /\ Append(one, "cleanup") \in Seq(S) /\ Len(Append(one, "cleanup")) = 2
        /\ Append(one, "cleanup")[1] = "stopServer" /\ Append(one, "cleanup")[2] = "cleanup"
    <3> SUFFICES ASSUME NEW s \in Seq(S), Len(s) = 1, s[1] = "stopServer", NEW e \in S, e = "cleanup"
                 PROVE  /\ Append(s, e) \in Seq(S) /\ Len(Append(s, e)) = 2
                        /\ Append(s, e)[1] = "stopServer" /\ Append(s, e)[2] = e
      BY <2>1
    <3>1. Append(s, e) \in Seq(S)
      BY AppendType
    <3>2. Len(Append(s, e)) = 2 /\ Append(s, e)[1] = s[1] /\ Append(s, e)[2] = e
      OBVIOUS
    <3> QED
      BY <3>1, <3>2
  <2>4. Append(one, "cleanup") = BothDeferred
    <3>1. \A i \in 1..2 : Append(one, "cleanup")[i] = BothDeferred[i]
      BY <2>2, <2>3
    <3> QED
      BY <3>1, <2>2, <2>3, SeqEqual
  <2> QED
    BY <2>4 DEF one
<1>4. SubSeq(<<"stopServer">>, 1, Len(<<"stopServer">>) - 1) = <<>>
  <2>1. Len(<<"stopServer">>) - 1 = 0
    OBVIOUS
  <2> QED
    BY <2>1, SubSeqEmpty
<1>5. SubSeq(BothDeferred, 1, Len(BothDeferred) - 1) = <<"stopServer">>
  <2>1. Len(BothDeferred) - 1 = 1 /\ BothDeferred[1] = "stopServer"
    BY DEF BothDeferred
  <2>2. \A i \in 1..1 : BothDeferred[i] \in {"stopServer"}
    BY <2>1
  <2>3. /\ SubSeq(BothDeferred, 1, 1) \in Seq({"stopServer"})
        /\ Len(SubSeq(BothDeferred, 1, 1)) = 1
        /\ SubSeq(BothDeferred, 1, 1)[1] = "stopServer"
    <3>1. /\ SubSeq(BothDeferred, 1, 1) \in Seq({"stopServer"})
          /\ Len(SubSeq(BothDeferred, 1, 1)) = IF 1 <= 1 THEN 1 - 1 + 1 ELSE 0
          /\ \A i \in 1..(1 - 1 + 1) : SubSeq(BothDeferred, 1, 1)[i] = BothDeferred[1 + i - 1]
      BY <2>2, SubSeqProperties
    <3> QED
      BY <3>1, <2>1
  <2>4. <<"stopServer">> \in Seq({"stopServer"}) /\ Len(<<"stopServer">>) = 1
    OBVIOUS
  <2>5. \A i \in 1..1 : SubSeq(BothDeferred, 1, 1)[i] = <<"stopServer">>[i]
    BY <2>3
  <2> HIDE DEF BothDeferred
  <2>6. SubSeq(BothDeferred, 1, 1) = <<"stopServer">>
    BY <2>3, <2>4, <2>5, SeqEqual
  <2> QED
    BY <2>1, <2>6
<1>6. /\ <<"stopServer">>[Len(<<"stopServer">>)] = "stopServer"
      /\ BothDeferred[Len(BothDeferred)] = "cleanup"
  BY DEF BothDeferred
<1> QED
  BY <1>1, <1>2, <1>3, <1>4, <1>5, <1>6

\* The resources of a call follow its defer stack.
LEMMA ScopeInit == Init => ScopeInv
BY DeferStacks DEF Init, ScopeInv, Looping

\* Every step keeps the resources in step with the defer stack.
LEMMA ScopeStep == TypeOK /\ ScopeInv /\ [Next]_vars => ScopeInv'
<1> SUFFICES ASSUME TypeOK, ScopeInv, [Next]_vars PROVE ScopeInv'
  OBVIOUS
<1> USE DeferStacks DEF ScopeInv, Looping, InCall, tracking, loop, resources
<1>1. CASE Begin
  BY <1>1 DEF Begin
<1>2. CASE Fallback
  BY <1>2 DEF Fallback, ReturnWith
<1>3. CASE NewClient
  BY <1>3 DEF NewClient, ReturnWith
<1>4. CASE StartServices
  <2>1. deferred = <<>> /\ container # "up" /\ workspace = "none" /\ ~executing
    BY <1>4 DEF StartServices, TypeOK
  <2>2. CASE ReturnWith("failed", NoAnswer) /\ UNCHANGED <<server, deferred>>
    BY <1>4, <2>1, <2>2 DEF StartServices, ReturnWith
  <2>3. CASE pc' = "workspace" /\ server' = TRUE /\ deferred' = <<"stopServer">>
    BY <1>4, <2>1, <2>3 DEF StartServices
  <2> QED
    BY <1>4, <2>1, <2>2, <2>3 DEF StartServices
<1>5. CASE MakeWorkspace
  BY <1>5 DEF MakeWorkspace, ReturnWith
<1>6. CASE NewEnvironment
  BY <1>6 DEF NewEnvironment, ReturnWith, RemoveAll
<1>7. CASE LoadContext
  BY <1>7 DEF LoadContext, ReturnWith
<1>8. CASE CheckTimeout
  BY <1>8 DEF CheckTimeout, ReturnWith
<1>9. CASE ModelReply
  BY <1>9 DEF ModelReply
<1>10. CASE ModelError
  BY <1>10 DEF ModelError, ReturnWith
<1>11. CASE StartExec
  BY <1>11 DEF StartExec
<1>12. CASE ExecRefused
  BY <1>12 DEF ExecRefused
<1>13. CASE ExecReturn
  BY <1>13 DEF ExecReturn
<1>14. CASE ExecAborted
  BY <1>14 DEF ExecAborted
<1>15. CASE StopAtLimit
  BY <1>15 DEF StopAtLimit, ReturnWith, TurnDone
<1>16. CASE SubmitAnswer
  BY <1>16 DEF SubmitAnswer, ReturnWith, TurnDone
<1>17. CASE NextIteration
  BY <1>17 DEF NextIteration, TurnDone
<1>18. CASE DefaultAnswer
  BY <1>18 DEF DefaultAnswer, ReturnWith
<1>19. CASE Cleanup
  BY <1>19 DEF Cleanup, PopDeferred, RemoveAll
<1>20. CASE StopServer
  BY <1>20 DEF StopServer, PopDeferred
<1>21. CASE Return
  BY <1>21 DEF Return
<1>22. CASE ContainerQuery
  BY <1>22 DEF ContainerQuery
<1>23. CASE Tick
  BY <1>23 DEF Tick
<1>24. CASE Cancel
  BY <1>24 DEF Cancel
<1>25. CASE UNCHANGED vars
  BY <1>25 DEF vars
<1> QED
  BY <1>1, <1>2, <1>3, <1>4, <1>5, <1>6, <1>7, <1>8, <1>9, <1>10, <1>11, <1>12, <1>13,
     <1>14, <1>15, <1>16, <1>17, <1>18, <1>19, <1>20, <1>21, <1>22, <1>23, <1>24, <1>25, NextDisjuncts

\* A call gives back all it took, on every path out of it.
THEOREM Released == Spec => []ReleasedOnReturn
<1>1. TypeOK /\ ScopeInv => ReleasedOnReturn
  BY DeferStacks DEF TypeOK, ScopeInv, ReleasedOnReturn, InCall
<1> QED
  BY <1>1, Typing, ScopeInit, ScopeStep, PTL DEF Spec

\* The container never outlives its server and its directory, unless it was cancelled.
THEOREM Served == Spec => []ServedWhileUp
<1>1. ScopeInv => ServedWhileUp
  BY DeferStacks DEF ScopeInv, ServedWhileUp, Looping
<1> QED
  BY <1>1, Typing, ScopeInit, ScopeStep, PTL DEF Spec

----------------------------------------------------------------------------
(* The loop: its limits, its answers and its processes *)

SettingUp == pc \in {"client", "services", "workspace", "environment", "context"}
InTurn == pc \in {"check", "model", "exec", "running"}

\* A history with one more turn: the turn is last, the others stand where they stood.
LEMMA AppendTurn ==
  ASSUME NEW h \in Seq(Turns), NEW t \in Turns
  PROVE  /\ Append(h, t) # <<>> /\ Len(Append(h, t)) = Len(h) + 1 /\ Len(h) \in Nat
         /\ DOMAIN h = 1..Len(h) /\ DOMAIN Append(h, t) = 1..(Len(h) + 1)
         /\ Append(h, t)[Len(h) + 1] = t
         /\ \A k \in 1..Len(h) : Append(h, t)[k] = h[k]
BY AppendProperties, LenProperties

\* The empty history has no turns.
LEMMA NoTurns == Len(<<>>) = 0 /\ DOMAIN <<>> = {} /\ 1..Len(<<>>) = {}
OBVIOUS

\* The limits a turn is checked against, when none and when one is hit.
LEMMA LimitHitKinds ==
  ASSUME NEW n \in Nat
  PROVE  /\ LimitHit(n) \in {"none", "errors", "budget", "tokens"}
         /\ LimitHit(n) = "errors" <=> ErrorsReached(n)
         /\ LimitHit(n) = "none" => ~Exceeds(usage.cost, MaxBudget) /\ ~Exceeds(usage.tokens, MaxTokens)
BY DEF LimitHit

----------------------------------------------------------------------------
\* A process the host no longer waits for is one whose exec was cancelled.
AbandonedInv == executing /\ pc # "running" => cancelled

\* Every step keeps it: only a cancelled exec leaves its process behind.
LEMMA AbandonedStep == AbandonedInv /\ [Next]_vars => AbandonedInv'
<1> SUFFICES ASSUME AbandonedInv, [Next]_vars PROVE AbandonedInv'
  OBVIOUS
<1> USE DEF AbandonedInv, resources, tracking, loop
<1>1. CASE Begin \/ NewClient \/ StartServices \/ MakeWorkspace \/ NewEnvironment \/ LoadContext
  BY <1>1 DEF Begin, NewClient, StartServices, MakeWorkspace, NewEnvironment, LoadContext, ReturnWith
<1>2. CASE Fallback \/ CheckTimeout \/ ModelReply \/ ModelError \/ DefaultAnswer
  BY <1>2 DEF Fallback, CheckTimeout, ModelReply, ModelError, DefaultAnswer, ReturnWith
<1>3. CASE StartExec \/ ExecRefused \/ ExecReturn \/ ExecAborted
  BY <1>3 DEF StartExec, ExecRefused, ExecReturn, ExecAborted
<1>4. CASE StopAtLimit \/ SubmitAnswer \/ NextIteration
  BY <1>4 DEF StopAtLimit, SubmitAnswer, NextIteration, ReturnWith, TurnDone
<1>5. CASE Cleanup \/ StopServer \/ Return \/ ContainerQuery \/ Tick \/ Cancel
  BY <1>5 DEF Cleanup, StopServer, Return, ContainerQuery, Tick, Cancel, PopDeferred
<1>6. CASE UNCHANGED vars
  BY <1>6 DEF vars
<1> QED
  BY <1>1, <1>2, <1>3, <1>4, <1>5, <1>6, NextDisjuncts

\* No process is started beside another of the same call.
THEOREM OneProcess == Spec => OneProcessAtATime
<1>1. Init => AbandonedInv
  BY DEF Init, AbandonedInv
<1>2. AbandonedInv /\ [Next]_vars => [pc # "running" /\ pc' = "running" => ~executing]_vars
  <2> SUFFICES ASSUME AbandonedInv, Next, pc # "running", pc' = "running" PROVE ~executing
    OBVIOUS
  <2>1. StartExec
    <3>1. ~(Begin \/ NewClient \/ StartServices \/ MakeWorkspace \/ NewEnvironment \/ LoadContext)
      BY DEF Begin, NewClient, StartServices, MakeWorkspace, NewEnvironment, LoadContext, ReturnWith
    <3>2. ~(Fallback \/ CheckTimeout \/ ModelReply \/ ModelError \/ DefaultAnswer)
      BY DEF Fallback, CheckTimeout, ModelReply, ModelError, DefaultAnswer, ReturnWith
    <3>3. ~(ExecRefused \/ ExecReturn \/ ExecAborted \/ StopAtLimit \/ SubmitAnswer \/ NextIteration)
      BY DEF ExecRefused, ExecReturn, ExecAborted, StopAtLimit, SubmitAnswer, NextIteration, ReturnWith
    <3>4. ~(Cleanup \/ StopServer \/ Return \/ ContainerQuery \/ Tick \/ Cancel)
      BY DEF Cleanup, StopServer, Return, ContainerQuery, Tick, Cancel
    <3> QED
      BY <3>1, <3>2, <3>3, <3>4, NextDisjuncts
  <2> QED
    BY <2>1 DEF StartExec, AbandonedInv
<1> QED
  BY <1>1, <1>2, AbandonedStep, PTL DEF Spec, OneProcessAtATime

----------------------------------------------------------------------------
\* While a call loops it has one turn behind it for each iteration, none of which submitted an
\* answer; the turn that does is the last, and the call returns its answer or a limit's error.
Settles(o, t) == o.kind \in LimitKinds \/ o = Outcome("answer", FinalAnswer(t))
LoopInv ==
  /\ SettingUp => history = <<>> /\ iteration = 0
  /\ InTurn => Len(history) = iteration /\ iteration < Iterations
  /\ pc = "default" \/ outcome.kind = "default" => Len(history) = Iterations
  /\ SettingUp \/ Looping \/ pc = "fallback" => outcome = Pending
  /\ \A k \in DOMAIN history :
       Submitted(history[k]) => k = Len(history) /\ Settles(outcome, history[k])

\* At the start no iteration has been made.
LEMMA LoopInit == Init => LoopInv
BY NoTurns DEF Init, LoopInv, SettingUp, InTurn, Looping, Pending, Outcome

\* The iteration bound is positive, so a call that is set up enters the loop.
LEMMA SomeIterations == Iterations > 0 /\ Iterations \in Int
BY FieldsAssumption DEF Iterations, OrDefault

\* Steps that leave the turns behind the call alone and either stay where they are or move on
\* within the loop.
LEMMA SettledKept ==
  ASSUME LoopInv, history' = history, outcome = Pending
  PROVE  \A k \in DOMAIN history' : ~Submitted(history'[k])
BY DEF LoopInv, Settles, Pending, Outcome, LimitKinds

\* A turn that closes joins the others as the last one.
LEMMA ClosedTurn ==
  ASSUME TypeOK, LoopInv, TurnDone, CloseTurn
  PROVE  /\ Len(history) \in Nat /\ Len(history') = Len(history) + 1
         /\ DOMAIN history' = 1..Len(history') /\ history'[Len(history')] = turn
         /\ \A k \in 1..Len(history) : history'[k] = history[k] /\ ~Submitted(history[k])
<1>1. /\ history' = Append(history, turn) /\ history \in Seq(Turns) /\ turn \in Turns
      /\ outcome = Pending
  BY DEF TypeOK, CloseTurn, LoopInv, TurnDone, Looping
<1>2. \A k \in DOMAIN history : ~Submitted(history[k])
  BY <1>1 DEF LoopInv, Settles, Pending, Outcome, LimitKinds
<1> QED
  BY <1>1, <1>2, AppendTurn

\* Every step keeps the account of the loop.
LEMMA LoopStep == TypeOK /\ LoopInv /\ [Next]_vars => LoopInv'
<1> SUFFICES ASSUME TypeOK, LoopInv, [Next]_vars PROVE LoopInv'
  OBVIOUS
<1> USE SomeIterations DEF resources, tracking, loop, SettingUp, InTurn, Looping
<1>a. outcome = Pending /\ history' = history => \A k \in DOMAIN history' : ~Submitted(history'[k])
  BY SettledKept
<1>b. outcome' = outcome /\ history' = history
      => \A k \in DOMAIN history' :
           Submitted(history'[k]) => k = Len(history') /\ Settles(outcome', history'[k])
  BY DEF LoopInv, Settles
<1>1. CASE Begin
  <2>1. history' = <<>> /\ iteration' = 0 /\ outcome' = Pending /\ pc' \in {"fallback", "client"}
    BY <1>1 DEF Begin
  <2> QED
    BY <2>1, NoTurns DEF LoopInv, Pending, Outcome
<1>2. CASE Fallback
  BY <1>2, <1>a DEF Fallback, LoopInv, ReturnWith, Outcome
<1>3. CASE NewClient \/ StartServices \/ MakeWorkspace \/ NewEnvironment
  <2>1. outcome = Pending /\ history' = history /\ iteration' = iteration
    BY <1>3 DEF NewClient, StartServices, MakeWorkspace, NewEnvironment, LoopInv
  <2>2. \/ pc' \in {"services", "workspace", "environment", "context"} /\ outcome' = outcome
        \/ pc' = "unwinding" /\ outcome' = Outcome("failed", NoAnswer)
    BY <1>3 DEF NewClient, StartServices, MakeWorkspace, NewEnvironment, ReturnWith
  <2>3. history = <<>> /\ iteration = 0
    BY <1>3 DEF NewClient, StartServices, MakeWorkspace, NewEnvironment, LoopInv
  <2> QED
    BY <2>1, <2>2, <2>3, <1>a DEF LoopInv, Outcome, Pending
<1>4. CASE LoadContext
  <2>1. outcome = Pending /\ history' = <<>> /\ history = <<>> /\ iteration' = 0
    BY <1>4 DEF LoadContext, LoopInv
  <2>2. \/ pc' = "check" /\ outcome' = outcome
        \/ pc' = "unwinding" /\ outcome' = Outcome("failed", NoAnswer)
    BY <1>4 DEF LoadContext, ReturnWith
  <2> QED
    BY <2>1, <2>2, <1>a, NoTurns DEF LoopInv, Outcome, Pending
<1>5. CASE CheckTimeout \/ ModelReply \/ ModelError
  <2>1. pc \in {"check", "model"} /\ outcome = Pending /\ history' = history /\ iteration' = iteration
    BY <1>5 DEF CheckTimeout, ModelReply, ModelError, LoopInv
  <2>2. \/ pc' \in {"model", "exec"} /\ outcome' = outcome
        \/ pc' = "unwinding" /\ outcome' \in {Outcome("failed", NoAnswer),
                                              Outcome("timeout", bestPartialAnswer)}
    BY <1>5 DEF CheckTimeout, ModelReply, ModelError, ReturnWith
  <2> QED
    BY <2>1, <2>2, <1>a DEF LoopInv, Outcome, Pending
<1>6. CASE StartExec \/ ExecRefused \/ ExecReturn \/ ExecAborted
  <2>1. /\ pc \in {"exec", "running"} /\ pc' \in {"exec", "running"} /\ outcome = Pending
        /\ history' = history /\ iteration' = iteration /\ outcome' = outcome
    BY <1>6 DEF StartExec, ExecRefused, ExecReturn, ExecAborted, LoopInv
  <2> QED
    BY <2>1, <1>a DEF LoopInv, Outcome, Pending
<1>c. TurnDone => pc = "exec" /\ Len(history) = iteration /\ iteration < Iterations
  BY DEF TurnDone, LoopInv
<1>7. CASE StopAtLimit
  <2>1. TurnDone /\ CloseTurn /\ pc' = "unwinding" /\ outcome'.kind \in LimitKinds
    <3>1. TurnDone /\ CloseTurn /\ ReturnWith(LimitHit(ErrorCount), bestPartialAnswer)
      BY <1>7 DEF StopAtLimit
    <3>2. LimitHit(ErrorCount) \in LimitKinds
      BY <1>7 DEF StopAtLimit, LimitHit, LimitKinds
    <3> QED
      BY <3>1, <3>2 DEF ReturnWith, Outcome
  <2>2. \A k \in DOMAIN history' : Submitted(history'[k]) => k = Len(history')
    BY <2>1, ClosedTurn
  <2> QED
    BY <2>1, <2>2 DEF LoopInv, Settles, LimitKinds
<1>8. CASE SubmitAnswer
  <2>1. TurnDone /\ CloseTurn /\ pc' = "unwinding" /\ outcome' = Outcome("answer", FinalAnswer(turn))
    BY <1>8 DEF SubmitAnswer, ReturnWith
  <2>2. \A k \in DOMAIN history' :
          Submitted(history'[k]) => k = Len(history') /\ history'[k] = turn
    BY <2>1, ClosedTurn
  <2>3. \A k \in DOMAIN history' : Submitted(history'[k]) => Settles(outcome', history'[k])
    BY <2>1, <2>2 DEF Settles
  <2>4. outcome'.kind = "answer"
    BY <2>1 DEF Outcome
  <2> QED
    BY <2>1, <2>2, <2>3, <2>4 DEF LoopInv
<1>9. CASE NextIteration
  <2>1. /\ TurnDone /\ CloseTurn /\ ~Submitted(turn) /\ iteration' = iteration + 1
        /\ outcome' = outcome /\ outcome = Pending
        /\ pc' = IF iteration + 1 < Iterations THEN "check" ELSE "default"
    BY <1>9 DEF NextIteration, LoopInv, TurnDone
  <2>2. \A k \in DOMAIN history' : ~Submitted(history'[k])
    BY <2>1, ClosedTurn
  <2>3. /\ Len(history') = iteration' /\ iteration \in Nat
        /\ pc' = "default" => iteration' = Iterations
        /\ pc' = "check" => iteration' < Iterations
    BY <2>1, <1>c, ClosedTurn DEF TypeOK
  <2> QED
    BY <2>1, <2>2, <2>3 DEF LoopInv, Pending, Outcome
<1>10. CASE DefaultAnswer
  <2>1. /\ pc = "default" /\ outcome = Pending /\ history' = history /\ Len(history) = Iterations
        /\ pc' = "unwinding" /\ iteration' = iteration
        /\ outcome' \in {Outcome("default", NoAnswer), Outcome("failed", NoAnswer)}
    BY <1>10 DEF DefaultAnswer, LoopInv, ReturnWith
  <2> QED
    BY <2>1, <1>a DEF LoopInv
<1>11. CASE Cleanup \/ StopServer \/ Return
  <2>1. /\ pc' \in {"unwinding", "returned"} /\ outcome' = outcome /\ history' = history
        /\ iteration' = iteration
    BY <1>11 DEF Cleanup, StopServer, Return, PopDeferred
  <2> QED
    BY <2>1, <1>b DEF LoopInv
<1>12. CASE ContainerQuery \/ Tick \/ Cancel \/ UNCHANGED vars
  <2>1. pc' = pc /\ outcome' = outcome /\ history' = history /\ iteration' = iteration
    BY <1>12 DEF ContainerQuery, Tick, Cancel, vars
  <2> QED
    BY <2>1, <1>b DEF LoopInv
<1> QED
  BY <1>1, <1>2, <1>3, <1>4, <1>5, <1>6, <1>7, <1>8, <1>9, <1>10, <1>11, <1>12, NextDisjuncts

\* So the invariant of the loop holds in every reachable state.
LEMMA LoopHolds == Spec => []LoopInv
BY LoopInit, LoopStep, Typing, PTL DEF Spec

\* The default answer is asked for after exactly MaxIterations turns without an answer.
THEOREM DefaultIsLast == Spec => []DefaultAfterAllIterations
<1>1. LoopInv => DefaultAfterAllIterations
  BY DEF LoopInv, DefaultAfterAllIterations, Settles, Looping, Pending, Outcome, LimitKinds
<1> QED
  BY <1>1, LoopHolds, PTL

\* The first answer a turn submits is the one FinalAnswer takes from it.
LEMMA FirstOfTurn ==
  ASSUME NEW t \in Turns, NEW k \in DOMAIN t.results, Submits(t, k),
         \A j \in 1..(k - 1) : ~Submits(t, j)
  PROVE  FinalAnswer(t) = t.results[k].answer
<1> DEFINE P(x) == Submits(t, x) /\ \A j \in 1..(x - 1) : ~Submits(t, j)
<1>1. DOMAIN t.results = 1..Len(t.results) /\ Len(t.results) \in Nat
  BY LenProperties DEF Turns
<1>2. \A x \in DOMAIN t.results : P(x) => x = k
  <2> SUFFICES ASSUME NEW x \in DOMAIN t.results, P(x), x # k PROVE FALSE
    OBVIOUS
  <2>1. x \in Nat /\ k \in Nat /\ x > 0 /\ k > 0
    BY <1>1
  <2>2. x < k => x \in 1..(k - 1)
    BY <2>1
  <2>3. k < x => k \in 1..(x - 1)
    BY <2>1
  <2> QED
    BY <2>1, <2>2, <2>3
<1>3. k = CHOOSE x \in DOMAIN t.results : P(x)
  <2>1. P(k)
    OBVIOUS
  <2> HIDE DEF P
  <2> QED BY <2>1, <1>2
<1> QED
  BY <1>3 DEF FinalAnswer

\* The first answer of a call is returned, unless its turn hits a limit.
THEOREM FirstAnswer == Spec => []FirstAnswerReturned
<1>1. TypeOK /\ LoopInv => FirstAnswerReturned
  <2> SUFFICES ASSUME TypeOK, LoopInv, NEW i \in DOMAIN history, NEW k \in DOMAIN history[i].results,
                      Submits(history[i], k), \A j \in 1..(k - 1) : ~Submits(history[i], j)
               PROVE  /\ i = Len(history)
                      /\ \/ outcome = Outcome("answer", history[i].results[k].answer)
                         \/ outcome.kind \in LimitKinds
    BY DEF FirstAnswerReturned
  <2>1. history[i] \in Turns
    BY ElementOfSeq, LenProperties DEF TypeOK
  <2>2. FinalAnswer(history[i]) = history[i].results[k].answer
    BY <2>1, FirstOfTurn
  <2>3. Submitted(history[i])
    BY DEF Submitted
  <2> QED
    BY <2>2, <2>3 DEF LoopInv, Settles
<1> QED
  BY <1>1, Typing, LoopHolds, PTL

----------------------------------------------------------------------------
\* The spending limits hold whenever the host is about to ask the model again: a turn that
\* passes one is the last, and only code that runs in the container spends between turns.
LEMMA SpendingStep ==
  TypeOK /\ LoopInv /\ SpendingGatesModelCalls /\ [Next]_vars => SpendingGatesModelCalls'
<1> SUFFICES ASSUME TypeOK, LoopInv, SpendingGatesModelCalls, [Next]_vars
             PROVE  SpendingGatesModelCalls'
  OBVIOUS
<1> USE DEF SpendingGatesModelCalls, resources, tracking, loop
<1>1. CASE Begin \/ NewClient \/ StartServices \/ MakeWorkspace \/ NewEnvironment
  BY <1>1 DEF Begin, NewClient, StartServices, MakeWorkspace, NewEnvironment, ReturnWith
<1>2. CASE LoadContext
  BY <1>2 DEF LoadContext, ReturnWith, LoopInv, SettingUp
<1>3. CASE Fallback \/ CheckTimeout \/ ModelReply \/ ModelError \/ DefaultAnswer
  BY <1>3 DEF Fallback, CheckTimeout, ModelReply, ModelError, DefaultAnswer, ReturnWith
<1>4. CASE StartExec \/ ExecRefused \/ ExecReturn \/ ExecAborted
  BY <1>4 DEF StartExec, ExecRefused, ExecReturn, ExecAborted
<1>5. CASE StopAtLimit \/ SubmitAnswer
  BY <1>5 DEF StopAtLimit, SubmitAnswer, ReturnWith
<1>6. CASE NextIteration
  <2>1. LimitHit(ErrorCount) = "none" /\ usage' = usage
    BY <1>6 DEF NextIteration
  <2>2. ErrorCount \in Nat
    BY DEF TypeOK, ErrorCount
  <2> QED
    BY <2>1, <2>2, LimitHitKinds
<1>7. CASE Cleanup \/ StopServer \/ Return
  BY <1>7 DEF Cleanup, StopServer, Return, PopDeferred
<1>8. CASE ContainerQuery \/ Tick \/ Cancel
  BY <1>8 DEF ContainerQuery, Tick, Cancel
<1>9. CASE UNCHANGED vars
  BY <1>9 DEF vars
<1> QED
  BY <1>1, <1>2, <1>3, <1>4, <1>5, <1>6, <1>7, <1>8, <1>9, NextDisjuncts

\* The host asks the model again only within the budget and the token limit.
THEOREM Spending == Spec => []SpendingGatesModelCalls
<1>1. Init => SpendingGatesModelCalls
  BY DEF Init, SpendingGatesModelCalls
<1> QED
  BY <1>1, SpendingStep, Typing, LoopHolds, PTL DEF Spec

----------------------------------------------------------------------------
\* The error counter before the loop, and what it counts once a turn closes.
StreakInv ==
  /\ SettingUp => consecutiveErrors = 0
  /\ ErrorStreak

\* One more turn lengthens the run of failing ones, or ends it.
LEMMA StreakGrows ==
  ASSUME NEW h \in Seq(Turns), NEW t \in Turns, NEW n \in Nat, Streak(n, h)
  PROVE  Streak(IF HadError(t) THEN n + 1 ELSE 0, Append(h, t))
<1> DEFINE g == Append(h, t)
<1>1. /\ Len(g) = Len(h) + 1 /\ Len(h) \in Nat /\ g[Len(h) + 1] = t
      /\ \A k \in 1..Len(h) : g[k] = h[k]
  BY AppendTurn
<1> HIDE DEF g
<1>2. n <= Len(h) /\ (n < Len(h) => ~HadError(h[Len(h) - n]))
  BY DEF Streak
<1>3. \A k \in 1..Len(h) : k > Len(h) - n => HadError(h[k])
  BY DEF Streak
<1>4. CASE HadError(t)
  <2>1. n + 1 <= Len(g)
    BY <1>1, <1>2
  <2>2. \A k \in 1..Len(g) : k > Len(g) - (n + 1) => HadError(g[k])
    <3> SUFFICES ASSUME NEW k \in 1..Len(g), k > Len(g) - (n + 1) PROVE HadError(g[k])
      OBVIOUS
    <3>1. CASE k = Len(h) + 1
      BY <1>1, <1>4, <3>1
    <3>2. CASE k # Len(h) + 1
      <4>1. k \in 1..Len(h) /\ k > Len(h) - n
        BY <1>1, <3>2
      <4> QED
        BY <4>1, <1>1, <1>3
    <3> QED
      BY <3>1, <3>2
  <2>3. n + 1 < Len(g) => ~HadError(g[Len(g) - (n + 1)])
    <3> SUFFICES ASSUME n + 1 < Len(g) PROVE ~HadError(g[Len(g) - (n + 1)])
      OBVIOUS
    <3>1. Len(g) - (n + 1) = Len(h) - n /\ Len(h) - n \in 1..Len(h) /\ n < Len(h)
      BY <1>1
    <3> QED
      BY <3>1, <1>1, <1>2
  <2>4. Streak(n + 1, g)
    BY <2>1, <2>2, <2>3 DEF Streak
  <2> QED
    BY <2>4, <1>4 DEF g
<1>5. CASE ~HadError(t)
  <2>1. Streak(0, g)
    BY <1>1, <1>5 DEF Streak
  <2> QED
    BY <2>1, <1>5 DEF g
<1> QED
  BY <1>4, <1>5

\* Closing a turn makes the counter that of the longer history.
LEMMA StreakCloses ==
  ASSUME TypeOK, TurnDone, ErrorStreak, CloseTurn
  PROVE  Streak(consecutiveErrors', history') /\ consecutiveErrors' = ErrorCount
BY StreakGrows DEF TypeOK, TurnDone, ErrorStreak, CloseTurn, ErrorCount, Looping

\* Every step keeps the counter the length of the run.
LEMMA StreakStep == TypeOK /\ LoopInv /\ StreakInv /\ [Next]_vars => StreakInv'
<1> SUFFICES ASSUME TypeOK, LoopInv, StreakInv, [Next]_vars PROVE StreakInv'
  OBVIOUS
<1> USE DEF StreakInv, resources, tracking, loop, SettingUp, Looping
<1>a. ErrorCount \in Nat
  BY DEF TypeOK, ErrorCount
<1>1. CASE Begin
  BY <1>1 DEF Begin, ResetTracking, ErrorStreak, Pending, Outcome
<1>2. CASE Fallback \/ NewClient \/ StartServices \/ MakeWorkspace \/ NewEnvironment
  <2>1. /\ outcome = Pending /\ UNCHANGED consecutiveErrors /\ UNCHANGED history
        /\ pc \in {"fallback", "client", "services", "workspace", "environment"}
    BY <1>2 DEF Fallback, NewClient, StartServices, MakeWorkspace, NewEnvironment, LoopInv
  <2>2. \/ /\ pc # "fallback" /\ pc' \in {"services", "workspace", "environment", "context"}
           /\ outcome' = outcome
        \/ /\ pc' = "unwinding"
           /\ outcome' \in {Outcome("failed", NoAnswer), Outcome("fallback", NoAnswer)}
    BY <1>2 DEF Fallback, NewClient, StartServices, MakeWorkspace, NewEnvironment, ReturnWith
  <2> QED
    BY <2>1, <2>2 DEF ErrorStreak, Pending, Outcome
<1>3. CASE LoadContext
  <2>1. history = <<>> /\ consecutiveErrors = 0 /\ outcome = Pending
    BY <1>3 DEF LoadContext, LoopInv
  <2>2. UNCHANGED <<consecutiveErrors, history>>
    BY <1>3 DEF LoadContext
  <2>3. \/ pc' = "check" /\ outcome' = outcome
        \/ pc' = "unwinding" /\ outcome' = Outcome("failed", NoAnswer)
    BY <1>3 DEF LoadContext, ReturnWith
  <2>4. Streak(0, <<>>)
    BY NoTurns DEF Streak
  <2> QED
    BY <2>1, <2>2, <2>3, <2>4 DEF ErrorStreak, Pending, Outcome
<1>4. CASE CheckTimeout \/ ModelReply \/ ModelError \/ DefaultAnswer
  <2>1. /\ pc \in {"check", "model", "default"} /\ UNCHANGED <<consecutiveErrors, history>>
        /\ outcome = Pending
    BY <1>4 DEF CheckTimeout, ModelReply, ModelError, DefaultAnswer, LoopInv
  <2>2. \/ pc' \in {"model", "exec"} /\ outcome' = outcome
        \/ /\ pc' = "unwinding"
           /\ outcome' \in {Outcome("failed", NoAnswer), Outcome("default", NoAnswer),
                            Outcome("timeout", bestPartialAnswer)}
    BY <1>4 DEF CheckTimeout, ModelReply, ModelError, DefaultAnswer, ReturnWith
  <2> QED
    BY <2>1, <2>2 DEF ErrorStreak, Pending, Outcome, ErrorsReached
<1>5. CASE StartExec \/ ExecRefused \/ ExecReturn \/ ExecAborted
  <2>1. /\ pc \in {"exec", "running"} /\ pc' \in {"exec", "running"}
        /\ UNCHANGED <<consecutiveErrors, history, outcome>>
    BY <1>5 DEF StartExec, ExecRefused, ExecReturn, ExecAborted
  <2> QED
    BY <2>1 DEF ErrorStreak, ErrorsReached
<1>6. CASE StopAtLimit
  <2>1. TurnDone /\ CloseTurn /\ pc' = "unwinding" /\ outcome'.kind = LimitHit(ErrorCount)
    BY <1>6 DEF StopAtLimit, ReturnWith, Outcome
  <2>2. Streak(consecutiveErrors', history') /\ consecutiveErrors' = ErrorCount
    BY <2>1, StreakCloses
  <2> QED
    BY <2>1, <2>2, <1>a, LimitHitKinds DEF ErrorStreak
<1>7. CASE SubmitAnswer
  <2>1. TurnDone /\ CloseTurn /\ pc' = "unwinding" /\ outcome'.kind = "answer"
    BY <1>7 DEF SubmitAnswer, ReturnWith, Outcome
  <2>2. Streak(consecutiveErrors', history')
    BY <2>1, StreakCloses
  <2> QED
    BY <2>1, <2>2 DEF ErrorStreak
<1>8. CASE NextIteration
  <2>1. /\ TurnDone /\ CloseTurn /\ pc' \in {"check", "default"} /\ outcome' = Pending
        /\ LimitHit(ErrorCount) = "none"
    BY <1>8 DEF NextIteration, LoopInv, TurnDone
  <2>2. Streak(consecutiveErrors', history') /\ consecutiveErrors' = ErrorCount
    BY <2>1, StreakCloses
  <2> QED
    BY <2>1, <2>2, <1>a, LimitHitKinds DEF ErrorStreak, Pending, Outcome
<1>9. CASE Cleanup \/ StopServer \/ Return
  <2>1. /\ pc' \in {"unwinding", "returned"} /\ UNCHANGED <<consecutiveErrors, history, outcome>>
    BY <1>9 DEF Cleanup, StopServer, Return, PopDeferred
  <2> QED
    BY <2>1 DEF ErrorStreak, ErrorsReached
<1>10. CASE ContainerQuery \/ Tick \/ Cancel \/ UNCHANGED vars
  <2>1. UNCHANGED <<pc, consecutiveErrors, history, outcome>>
    BY <1>10 DEF ContainerQuery, Tick, Cancel, vars
  <2> QED
    BY <2>1 DEF ErrorStreak, ErrorsReached
<1> QED
  BY <1>1, <1>2, <1>3, <1>4, <1>5, <1>6, <1>7, <1>8, <1>9, <1>10, NextDisjuncts

\* The error counter is the run of failing turns that ends this call's history.
THEOREM Errors == Spec => []ErrorStreak
<1>1. Init => StreakInv
  BY DEF Init, StreakInv, ErrorStreak, Looping, SettingUp, Pending, Outcome
<1>2. StreakInv => ErrorStreak
  BY DEF StreakInv
<1> QED
  BY <1>1, <1>2, StreakStep, Typing, LoopHolds, PTL DEF Spec

----------------------------------------------------------------------------
\* The partial answer is the latest non-blank response of the turns behind this call: that of
\* a limit stands before the turn that hit it, so for a limit other than the deadline one turn
\* of the history is left out.
Behind == IF outcome.kind \in LimitKinds \ {"timeout"} THEN Len(history) - 1 ELSE Len(history)
PartialIsLatest ==
  outcome.kind \in LimitKinds =>
    /\ Latest(history, Behind, outcome.answer)
    /\ outcome.answer # NoAnswer => outcome.answer[1] = calls
Own(r) == r # NoAnswer => r[1] = calls
PartialInv ==
  /\ SettingUp => bestPartialAnswer = NoAnswer
  /\ pc \in {"exec", "running"} => Own(turn.response)
  /\ Looping => Latest(history, Len(history), bestPartialAnswer) /\ Own(bestPartialAnswer)
  /\ PartialIsLatest

\* One more turn changes nothing about the latest response of those before it ...
LEMMA LatestKept ==
  ASSUME NEW h \in Seq(Turns), NEW t \in Turns, NEW r, Latest(h, Len(h), r)
  PROVE  Latest(Append(h, t), Len(h), r)
BY AppendTurn DEF Latest

\* ... and, counted in, its own response is the latest, unless it is blank.
LEMMA LatestGrows ==
  ASSUME NEW h \in Seq(Turns), NEW t \in Turns, NEW r, Latest(h, Len(h), r)
  PROVE  Latest(Append(h, t), Len(h) + 1, IF t.response # NoAnswer THEN t.response ELSE r)
<1> DEFINE g == Append(h, t)
           n == Len(h)
<1>1. n \in Nat /\ g[n + 1] = t /\ \A k \in 1..n : g[k] = h[k]
  BY AppendTurn
<1> HIDE DEF g, n
<1>2. Latest(h, n, r)
  BY DEF n
<1>3. CASE t.response # NoAnswer
  <2>1. n + 1 \in 1..(n + 1) /\ t.response = g[n + 1].response
        /\ \A j \in (n + 1 + 1)..(n + 1) : g[j].response = NoAnswer
    BY <1>1
  <2>2. Latest(g, n + 1, t.response)
    BY <2>1, <1>3 DEF Latest
  <2> QED
    BY <2>2, <1>3 DEF g, n
<1>4. CASE t.response = NoAnswer
  <2>1. \A k \in 1..(n + 1) : k \in 1..n \/ k = n + 1
    BY <1>1
  <2>2. CASE r = NoAnswer /\ \A k \in 1..n : h[k].response = NoAnswer
    <3>1. \A k \in 1..(n + 1) : g[k].response = NoAnswer
      BY <2>1, <2>2, <1>1, <1>4
    <3>2. Latest(g, n + 1, r)
      BY <3>1, <2>2 DEF Latest
    <3> QED
      BY <3>2, <1>4 DEF g, n
  <2>3. CASE \E k \in 1..n : /\ r = h[k].response /\ r # NoAnswer
                             /\ \A j \in (k + 1)..n : h[j].response = NoAnswer
    <3>1. PICK k \in 1..n : /\ r = h[k].response /\ r # NoAnswer
                            /\ \A j \in (k + 1)..n : h[j].response = NoAnswer
      BY <2>3
    <3>2. k \in 1..(n + 1) /\ r = g[k].response
      BY <3>1, <1>1
    <3>3. \A j \in (k + 1)..(n + 1) : g[j].response = NoAnswer
      <4> SUFFICES ASSUME NEW j \in (k + 1)..(n + 1) PROVE g[j].response = NoAnswer
        OBVIOUS
      <4>1. CASE j = n + 1
        BY <4>1, <1>1, <1>4
      <4>2. CASE j # n + 1
        <5>1. j \in (k + 1)..n /\ j \in 1..n
          BY <4>2, <1>1
        <5> QED
          BY <5>1, <3>1, <1>1
      <4> QED
        BY <4>1, <4>2
    <3>4. Latest(g, n + 1, r)
      BY <3>1, <3>2, <3>3 DEF Latest
    <3> QED
      BY <3>4, <1>4 DEF g, n
  <2> QED
    BY <1>2, <2>2, <2>3 DEF Latest
<1> QED
  BY <1>3, <1>4

\* Every step keeps the partial answer that of the turns behind it.
LEMMA PartialStep == TypeOK /\ LoopInv /\ PartialInv /\ [Next]_vars => PartialInv'
<1> SUFFICES ASSUME TypeOK, LoopInv, PartialInv, [Next]_vars PROVE PartialInv'
  OBVIOUS
<1> USE DEF PartialInv, Own, resources, tracking, loop, SettingUp, Looping
<1>a. LimitKinds \cap {"pending", "failed", "fallback", "default", "answer"} = {}
  BY DEF LimitKinds
<1>b. outcome' \in {Pending, Outcome("failed", NoAnswer), Outcome("fallback", NoAnswer),
                    Outcome("default", NoAnswer)}
      => PartialIsLatest'
  BY <1>a DEF PartialIsLatest, Pending, Outcome
<1>c. UNCHANGED <<outcome, history, calls>> => PartialIsLatest'
  BY DEF PartialIsLatest, Behind
<1>1. CASE Begin
  <2>1. /\ pc' \in {"fallback", "client"} /\ outcome' = Pending
        /\ pc' = "client" => bestPartialAnswer' = NoAnswer
    BY <1>1 DEF Begin, ResetTracking
  <2> QED
    BY <2>1, <1>b
<1>2. CASE Fallback \/ NewClient \/ StartServices \/ MakeWorkspace \/ NewEnvironment
  <2>1. /\ outcome = Pending /\ UNCHANGED bestPartialAnswer
        /\ pc \in {"fallback", "client", "services", "workspace", "environment"}
    BY <1>2 DEF Fallback, NewClient, StartServices, MakeWorkspace, NewEnvironment, LoopInv
  <2>2. \/ /\ pc # "fallback" /\ pc' \in {"services", "workspace", "environment", "context"}
           /\ outcome' = outcome
        \/ /\ pc' = "unwinding"
           /\ outcome' \in {Outcome("failed", NoAnswer), Outcome("fallback", NoAnswer)}
    BY <1>2 DEF Fallback, NewClient, StartServices, MakeWorkspace, NewEnvironment, ReturnWith
  <2> QED
    BY <2>1, <2>2, <1>b
<1>3. CASE LoadContext
  <2>1. history = <<>> /\ bestPartialAnswer = NoAnswer /\ outcome = Pending
    BY <1>3 DEF LoadContext, LoopInv
  <2>2. UNCHANGED <<bestPartialAnswer, history, calls>>
    BY <1>3 DEF LoadContext
  <2>3. \/ pc' = "check" /\ outcome' = outcome
        \/ pc' = "unwinding" /\ outcome' = Outcome("failed", NoAnswer)
    BY <1>3 DEF LoadContext, ReturnWith
  <2>4. Latest(<<>>, Len(<<>>), NoAnswer)
    BY NoTurns DEF Latest
  <2> QED
    BY <2>1, <2>2, <2>3, <2>4, <1>b
<1>4. CASE CheckTimeout
  <2>1. /\ pc = "check" /\ UNCHANGED <<bestPartialAnswer, history, calls>>
    BY <1>4 DEF CheckTimeout
  <2>2. CASE pc' = "model" /\ outcome' = outcome
    BY <2>1, <2>2, <1>c
  <2>3. CASE pc' = "unwinding" /\ outcome' = Outcome("timeout", bestPartialAnswer)
    <3>1. Behind' = Len(history')
      BY <2>3 DEF Behind, Outcome
    <3>2. outcome'.answer = bestPartialAnswer
      BY <2>3 DEF Outcome
    <3>3. Latest(history', Behind', outcome'.answer)
      BY <2>1, <3>1, <3>2
    <3> QED
      BY <2>1, <2>3, <3>2, <3>3 DEF PartialIsLatest
  <2> QED
    BY <1>4, <2>2, <2>3 DEF CheckTimeout, ReturnWith
<1>5. CASE ModelReply
  <2>1. /\ pc' = "exec" /\ pc = "model" /\ UNCHANGED <<bestPartialAnswer, history, calls, outcome>>
        /\ turn'.response = NoAnswer \/ turn'.response = <<calls, iteration>>
    BY <1>5 DEF ModelReply, EmptyTurn
  <2> QED
    BY <2>1, <1>c
<1>6. CASE ModelError \/ DefaultAnswer
  <2>1. /\ pc' = "unwinding"
        /\ outcome' \in {Outcome("failed", NoAnswer), Outcome("default", NoAnswer)}
    BY <1>6 DEF ModelError, DefaultAnswer, ReturnWith
  <2> QED
    BY <2>1, <1>b
<1>7. CASE StartExec \/ ExecRefused \/ ExecReturn \/ ExecAborted
  <2>1. /\ pc \in {"exec", "running"} /\ pc' \in {"exec", "running"}
        /\ UNCHANGED <<bestPartialAnswer, history, calls, outcome>>
    BY <1>7 DEF StartExec, ExecRefused, ExecReturn, ExecAborted
  <2>2. turn'.response = turn.response
    <3>1. turn \in Turns
      BY DEF TypeOK
    <3> QED
      BY <1>7, <3>1 DEF StartExec, ExecRefused, ExecReturn, ExecAborted, Record, Turns
  <2> QED
    BY <2>1, <2>2, <1>c
<1>d. TurnDone => /\ pc = "exec" /\ history \in Seq(Turns) /\ turn \in Turns
                  /\ Latest(history, Len(history), bestPartialAnswer)
  BY DEF TurnDone, TypeOK
<1>8. CASE StopAtLimit
  <2>1. /\ TurnDone /\ history' = Append(history, turn) /\ pc' = "unwinding"
        /\ outcome'.kind = LimitHit(ErrorCount) /\ outcome'.answer = bestPartialAnswer
        /\ LimitHit(ErrorCount) # "none" /\ calls' = calls
    BY <1>8 DEF StopAtLimit, CloseTurn, ReturnWith, Outcome
  <2>2. outcome'.kind \in LimitKinds \ {"timeout"}
    BY <2>1 DEF LimitHit, LimitKinds
  <2>3. Len(history') = Len(history) + 1 /\ Len(history) \in Nat
    BY <2>1, <1>d, AppendTurn
  <2>4. Behind' = Len(history)
    BY <2>2, <2>3 DEF Behind
  <2>5. Latest(history', Behind', outcome'.answer)
    BY <2>1, <2>4, <1>d, LatestKept
  <2>6. outcome'.answer # NoAnswer => outcome'.answer[1] = calls'
    BY <2>1, <1>d
  <2> QED
    BY <2>1, <2>5, <2>6 DEF PartialIsLatest
<1>9. CASE SubmitAnswer
  <2>1. pc' = "unwinding" /\ outcome'.kind = "answer"
    BY <1>9 DEF SubmitAnswer, ReturnWith, Outcome
  <2> QED
    BY <2>1, <1>a DEF PartialIsLatest
<1>10. CASE NextIteration
  <2>1. /\ TurnDone /\ history' = Append(history, turn) /\ pc' \in {"check", "default"}
        /\ outcome' = Pending /\ calls' = calls
        /\ bestPartialAnswer' = IF turn.response # NoAnswer THEN turn.response ELSE bestPartialAnswer
    BY <1>10 DEF NextIteration, CloseTurn, UpdateBestPartial, LoopInv, TurnDone
  <2>2. Latest(history', Len(history) + 1, bestPartialAnswer')
    BY <2>1, <1>d, LatestGrows
  <2>3. Len(history') = Len(history) + 1
    BY <2>1, <1>d, AppendTurn
  <2>4. Own(bestPartialAnswer)'
    BY <2>1, <1>d
  <2> QED
    BY <2>1, <2>2, <2>3, <2>4, <1>b
<1>11. CASE Cleanup \/ StopServer \/ Return
  <2>1. pc' \in {"unwinding", "returned"} /\ UNCHANGED <<history, outcome, calls>>
    BY <1>11 DEF Cleanup, StopServer, Return, PopDeferred
  <2> QED
    BY <2>1, <1>c
<1>12. CASE ContainerQuery \/ Tick \/ Cancel \/ UNCHANGED vars
  <2>1. UNCHANGED <<pc, bestPartialAnswer, history, turn, outcome, calls>>
    BY <1>12 DEF ContainerQuery, Tick, Cancel, vars
  <2> QED
    BY <2>1, <1>c
<1> QED
  BY <1>1, <1>2, <1>3, <1>4, <1>5, <1>6, <1>7, <1>8, <1>9, <1>10, <1>11, <1>12, NextDisjuncts

\* A limit error carries a response of this call, never one of an earlier call; a deadline's
\* carries the latest.
THEOREM Partial == Spec => []PartialIsCurrent
<1>1. Init => PartialInv
  BY DEF Init, PartialInv, PartialIsLatest, Looping, SettingUp, Pending, Outcome, LimitKinds
<1>2. TypeOK /\ PartialInv => PartialIsCurrent
  <2> SUFFICES ASSUME TypeOK, PartialInv, outcome.kind \in LimitKinds
               PROVE  /\ outcome.answer # NoAnswer
                            => \E k \in DOMAIN history : outcome.answer = history[k].response
                      /\ outcome.kind = "timeout" => Latest(history, Len(history), outcome.answer)
    BY DEF PartialIsCurrent
  <2>1. Latest(history, Behind, outcome.answer)
    BY DEF PartialInv, PartialIsLatest
  <2>2. /\ Len(history) \in Nat /\ DOMAIN history = 1..Len(history)
        /\ Behind \in {Len(history), Len(history) - 1}
    BY LenProperties DEF TypeOK, Behind
  <2>3. ASSUME outcome.answer # NoAnswer
        PROVE  \E k \in DOMAIN history : outcome.answer = history[k].response
    <3>1. PICK k \in 1..Behind : outcome.answer = history[k].response
      BY <2>1, <2>3 DEF Latest
    <3>2. k \in DOMAIN history
      BY <2>2
    <3> QED
      BY <3>1, <3>2
  <2>4. outcome.kind = "timeout" => Behind = Len(history)
    BY DEF Behind
  <2> QED
    BY <2>1, <2>3, <2>4
<1> QED
  BY <1>1, <1>2, PartialStep, Typing, LoopHolds, PTL DEF Spec
=============================================================================
