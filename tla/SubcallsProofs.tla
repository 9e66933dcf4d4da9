--------------------------- MODULE SubcallsProofs ---------------------------
(***************************************************************************)
(* Theorems about Subcalls, for every tree of sub-calls and all limits:    *)
(* type correctness, children run on what their parents have left, no      *)
(* sub-call outlives its parent's call with a live context, batches keep   *)
(* within their slots, and nothing is charged twice, with the sums of Sums.*)
(***************************************************************************)
EXTENDS Subcalls, Sums, FiniteSetTheorems, TLAPS

\* A node is not its own parent: its depth is one more.
LEMMA ParentDiffers ==
  ASSUME NEW c \in Nodes \ {Root}
  PROVE  Parent[c] \in Nodes /\ Parent[c] # c
BY TreeAssumption

\* What is left of a limit is a limit, and not more than the limit itself.
LEMMA LessType ==
  ASSUME NEW limit \in Limits, NEW n \in Nat
  PROVE  Less(limit, n) \in Limits /\ Within(Less(limit, n), limit)
BY LimitsAssumption DEF Limits, Less, Within

\* The initial state is well typed.
LEMMA InitType == Init => TypeOK
<1> SUFFICES ASSUME Init PROVE TypeOK
  OBVIOUS
<1>1. budget \in [Nodes -> Limits] /\ timeout \in [Nodes -> Limits] /\ tokens \in [Nodes -> Limits]
  BY LimitsAssumption DEF Init, Limits
<1>2. grant \in [Nodes -> [budget : Limits, timeout : Limits]]
  BY DEF Init, Limits
<1>3. batch \in [Nodes -> SUBSET Nodes]
  BY DEF Init
<1>4. phase \in [Nodes -> Phases]
  BY DEF Init, Phases
<1>5. answer \in [Nodes -> Answers]
  BY DEF Init, Answers
<1> QED
  BY <1>1, <1>2, <1>3, <1>4, <1>5 DEF Init, TypeOK

\* Spending one unit keeps the counters natural.
LEMMA SpendType ==
  ASSUME TypeOK, NEW n \in Nodes
  PROVE  /\ TotalUp(n) => total' \in [Nodes -> Nat]
         /\ Spend(n) => spent' \in [Nodes -> Nat] /\ total' \in [Nodes -> Nat]
<1>1. TotalUp(n) => total' \in [Nodes -> Nat]
  BY DEF TotalUp, TypeOK
<1>2. Spend(n) => spent' \in [Nodes -> Nat]
  <2>1. spent \in [Nodes -> Nat]
    BY DEF TypeOK
  <2> QED
    BY <2>1 DEF Spend
<1> QED
  BY <1>1, <1>2 DEF Spend

\* Every step keeps the types, action by action.
LEMMA TypeStep == TypeOK /\ [Next]_vars => TypeOK'
<1> SUFFICES ASSUME TypeOK, [Next]_vars PROVE TypeOK'
  OBVIOUS
<1> USE DEF TypeOK, fields, spending
<1>1. CASE UNCHANGED vars
  BY <1>1 DEF vars
<1>2. CASE Tick
  BY <1>2, SizesAssumption DEF Tick
<1>3. CASE \E n \in Nodes : Step(n) \/ Ask(n) \/ AskPlain(n) \/ GiveUp(n)
  <2> PICK n \in Nodes : Step(n) \/ Ask(n) \/ AskPlain(n) \/ GiveUp(n)
    BY <1>3
  <2>1. CASE SetUp(n)
    BY <2>1 DEF SetUp, MoveTo, Phases
  <2>2. CASE ModelCall(n)
    BY <2>2, SpendType DEF ModelCall, MoveTo, Phases
  <2>3. CASE ExecReturn(n)
    BY <2>3 DEF ExecReturn, MoveTo, Phases
  <2>4. CASE Continue(n)
    BY <2>4 DEF Continue, StoreCost, MoveTo, Phases
  <2>5. CASE Succeed(n)
    <3>1. spent' \in [Nodes -> Nat] /\ total' \in [Nodes -> Nat]
      BY <2>5, SpendType DEF Succeed
    <3> QED
      BY <2>5, <3>1 DEF Succeed, End, StoreCost, MoveTo, Phases, Answers
  <2>6. CASE Fail(n)
    BY <2>6 DEF Fail, End, StoreCost, MoveTo, Phases, Answers
  <2>7. CASE n # Root /\ Gate(n)
    <3>1. Parent[n] \in Nodes /\ now - started[Parent[n]] \in Int
      BY <2>7, ParentDiffers
    <3>2. RemainingBudget(Parent[n]) \in Limits /\ RemainingTimeout(Parent[n]) \in Limits
      BY <3>1, LimitsAssumption DEF RemainingBudget, RemainingTimeout, Less, Limits
    <3> QED
      BY <2>7, <3>2 DEF Gate, MoveTo, Phases
  <2>8. CASE n # Root /\ Fallback(n)
    BY <2>8, SpendType DEF Fallback, Respond, MoveTo, Phases, Answers
  <2>9. CASE n # Root /\ Refuse(n)
    BY <2>9 DEF Refuse, Respond, MoveTo, Phases, Answers
  <2>10. CASE n # Root /\ Spawn(n)
    <3>1. grant[n].budget \in Limits /\ grant[n].timeout \in Limits
      OBVIOUS
    <3>2. Parent[n] \in Nodes
      BY <2>10, ParentDiffers
    <3> QED
      BY <2>10, <3>1, <3>2 DEF Spawn, MoveTo, Phases
  <2>11. CASE n # Root /\ Add(n)
    <3>1. Parent[n] \in Nodes
      BY <2>11, ParentDiffers
    <3>2. cumulative' \in [Nodes -> Nat]
      BY <2>11, <3>1 DEF Add
    <3> QED
      BY <2>11, <3>2 DEF Add, Respond, MoveTo, Phases
  <2>12. CASE Ask(n)
    <3> PICK asked \in SUBSET {c \in Children(n) : phase[c] = "idle"} :
          /\ phase' = [c \in Nodes |-> IF c \in asked THEN "asked" ELSE phase[c]]
          /\ batch' = [c \in Nodes |-> IF c \in asked THEN asked ELSE batch[c]]
      BY <2>12 DEF Ask
    <3>1. asked \subseteq Nodes
      BY DEF Children
    <3>2. batch' \in [Nodes -> SUBSET Nodes]
      BY <3>1
    <3>3. phase' \in [Nodes -> Phases]
      BY DEF Phases
    <3> QED
      BY <2>12, <3>2, <3>3 DEF Ask
  <2>13. CASE AskPlain(n)
    <3>1. spent' \in [Nodes -> Nat] /\ total' \in [Nodes -> Nat]
      BY <2>13, SpendType DEF AskPlain
    <3>2. PICK c \in Children(n) : Respond(c, "lm")
      BY <2>13 DEF AskPlain
    <3>3. phase' \in [Nodes -> Phases] /\ answer' \in [Nodes -> Answers]
      BY <3>2 DEF Respond, MoveTo, Phases, Answers
    <3> QED
      BY <2>13, <3>1, <3>3 DEF AskPlain
  <2>14. CASE GiveUp(n)
    BY <2>14 DEF GiveUp
  <2> QED
    BY <2>1, <2>2, <2>3, <2>4, <2>5, <2>6, <2>7, <2>8, <2>9, <2>10, <2>11, <2>12, <2>13, <2>14
    DEF Step, Loop, Serve
<1> QED
  BY <1>1, <1>2, <1>3 DEF Next

\* In every reachable state of every tree, the variables have their types.
THEOREM Typing == Spec => []TypeOK
BY InitType, TypeStep, PTL DEF Spec
----------------------------------------------------------------------------
\* A step that moves one node on, and leaves the fields and the grants alone, keeps LimitsInv.
LEMMA MoveKeepsLimits ==
  ASSUME TypeOK, LimitsInv, NEW n \in Nodes, NEW q \in Phases,
         MoveTo(n, q), UNCHANGED <<fields, grant>>, \A m \in Nodes : started'[m] <= now',
         phase[n] # "idle", phase[n] \in Settled => q \in Settled,
         q # "gated", q \in Running => phase[n] \in Running
  PROVE  LimitsInv'
<1>1. \A m \in Nodes : phase'[m] = IF m = n THEN q ELSE phase[m]
  BY DEF MoveTo, TypeOK
<1>2. budget' = budget /\ timeout' = timeout /\ tokens' = tokens /\ grant' = grant
  BY DEF fields
<1> SUFFICES ASSUME NEW c \in Nodes \ {Root}
             PROVE  /\ phase'[c] # "idle" => phase'[Parent[c]] \in Settled
                    /\ phase'[c] = "gated" => phase[c] = "gated"
                    /\ phase'[c] \in Running => phase[c] \in Running
  BY <1>2 DEF LimitsInv, RunsInside
<1>3. Parent[c] \in Nodes /\ Parent[c] # c
  BY ParentDiffers
<1>4. phase[c] # "idle" => phase[Parent[c]] \in Settled
  BY DEF LimitsInv
<1> QED
  BY <1>1, <1>3, <1>4

\* At the start no sub-call has been asked for.
LEMMA LimitsInit == Init => LimitsInv
<1> SUFFICES ASSUME Init PROVE LimitsInv
  OBVIOUS
<1>1. \A c \in Nodes \ {Root} : phase[c] = "idle"
  BY DEF Init
<1>2. \A n \in Nodes : started[n] <= now
  BY DEF Init
<1> QED
  BY <1>1, <1>2 DEF LimitsInv, RunsInside, Running

\* Every step keeps LimitsInv.  Ask finds the fields of the one who asks settled, Gate reads at most
\* these fields, Spawn hands out what Gate read unless nothing is left; no other step sets a field.
LEMMA LimitsStep == TypeOK /\ LimitsInv /\ [Next]_vars => LimitsInv'
<1> SUFFICES ASSUME TypeOK, LimitsInv, [Next]_vars PROVE LimitsInv'
  OBVIOUS
<1>0. \A m \in Nodes : started[m] <= now /\ started[m] \in Nat /\ now \in Nat
  BY DEF LimitsInv, TypeOK
<1>1. CASE UNCHANGED vars
  BY <1>1 DEF vars, LimitsInv, RunsInside
<1>2. CASE Tick
  <2>1. \A m \in Nodes : started'[m] <= now'
    BY <1>0, <1>2 DEF Tick
  <2> QED
    BY <1>2, <2>1 DEF Tick, fields, LimitsInv, RunsInside
<1>3. CASE \E n \in Nodes : Step(n) \/ Ask(n) \/ AskPlain(n) \/ GiveUp(n)
  <2> PICK n \in Nodes : Step(n) \/ Ask(n) \/ AskPlain(n) \/ GiveUp(n)
    BY <1>3
  <2>0. ASSUME NEW c \in Nodes \ {Root}
        PROVE  /\ Parent[c] \in Nodes /\ Parent[c] # c
               /\ phase[c] # "idle" => phase[Parent[c]] \in Settled
    BY ParentDiffers DEF LimitsInv
  <2>1. CASE SetUp(n)
    <3>1. \A m \in Nodes : started'[m] <= now'
      BY <1>0, <2>1 DEF SetUp, TypeOK
    <3> QED
      BY <2>1, <3>1, MoveKeepsLimits DEF SetUp, Phases, Settled, Running
  <2>2. CASE ModelCall(n)
    BY <1>0, <2>2, MoveKeepsLimits DEF ModelCall, Phases, Settled, Running
  <2>3. CASE ExecReturn(n)
    BY <1>0, <2>3, MoveKeepsLimits DEF ExecReturn, Phases, Settled, Running
  <2>4. CASE Continue(n)
    BY <1>0, <2>4, MoveKeepsLimits DEF Continue, Phases, Settled, Running
  <2>5. CASE Succeed(n)
    <3>1. PICK q \in {"adding", "done"} : MoveTo(n, q)
      BY <2>5 DEF Succeed, End
    <3> QED
      BY <1>0, <2>5, <3>1, MoveKeepsLimits DEF Succeed, Phases, Settled, Running
  <2>6. CASE Fail(n)
    <3>1. PICK q \in {"adding", "done"} : MoveTo(n, q)
      BY <2>6 DEF Fail, End
    <3> QED
      BY <1>0, <2>6, <3>1, MoveKeepsLimits DEF Fail, Phases, Settled, Running
  <2>7. CASE n # Root /\ Gate(n)
    <3>1. \A m \in Nodes : phase'[m] = IF m = n THEN "gated" ELSE phase[m]
      BY <2>7 DEF Gate, MoveTo, TypeOK
    <3>2. \A m \in Nodes : m # n => grant'[m] = grant[m]
      BY <2>7 DEF Gate, TypeOK
    <3>3. grant'[n] = [budget |-> RemainingBudget(Parent[n]), timeout |-> RemainingTimeout(Parent[n])]
      BY <2>7 DEF Gate, TypeOK
    <3>4. Parent[n] \in Nodes /\ phase[n] = "asked"
      BY <2>0, <2>7 DEF Gate
    <3>5. Within(RemainingBudget(Parent[n]), budget[Parent[n]])
      BY <3>4, LessType DEF RemainingBudget, TypeOK
    <3>6. now - started[Parent[n]] \in Nat
      BY <1>0, <3>4
    <3>7. Within(RemainingTimeout(Parent[n]), timeout[Parent[n]])
      BY <3>4, <3>6, LessType DEF RemainingTimeout, TypeOK
    <3>8. budget' = budget /\ timeout' = timeout /\ tokens' = tokens /\ started' = started /\ now' = now
      BY <2>7 DEF Gate, fields
    <3> SUFFICES ASSUME NEW c \in Nodes \ {Root}
                 PROVE  /\ phase'[c] # "idle" => phase'[Parent[c]] \in Settled
                        /\ phase'[c] = "gated" => /\ Within(grant'[c].budget, budget[Parent[c]])
                                                 /\ Within(grant'[c].timeout, timeout[Parent[c]])
                        /\ phase'[c] \in Running => phase[c] \in Running
      BY <1>0, <3>8 DEF LimitsInv, RunsInside
    <3>9. phase'[c] # "idle" => phase'[Parent[c]] \in Settled
      BY <2>0, <3>1, <3>4 DEF Settled, Running
    <3>10. phase'[c] \in Running => phase[c] \in Running
      BY <3>1 DEF Running
    <3>11. phase'[c] = "gated" => /\ Within(grant'[c].budget, budget[Parent[c]])
                                 /\ Within(grant'[c].timeout, timeout[Parent[c]])
      BY <3>1, <3>2, <3>3, <3>5, <3>7 DEF LimitsInv
    <3> QED
      BY <3>9, <3>10, <3>11
  <2>8. CASE n # Root /\ Fallback(n)
    BY <1>0, <2>8, MoveKeepsLimits DEF Fallback, Respond, Phases, Settled, Running
  <2>9. CASE n # Root /\ Refuse(n)
    BY <1>0, <2>9, MoveKeepsLimits DEF Refuse, Respond, Phases, Settled, Running
  <2>10. CASE n # Root /\ Spawn(n)
    <3>1. \A m \in Nodes : phase'[m] = IF m = n THEN "setup" ELSE phase[m]
      BY <2>10 DEF Spawn, MoveTo, TypeOK
    <3>2. phase[n] = "gated" /\ DepthOf[n] < EffectiveDepth
      BY <2>10, TreeAssumption, SizesAssumption DEF Spawn, AtCap, EffectiveDepth
    <3>3. Parent[n] \in Nodes /\ Parent[n] # n
      BY <2>0, <2>10
    <3>4. budget'[n] = grant[n].budget /\ timeout'[n] = grant[n].timeout
      BY <2>10 DEF Spawn, TypeOK
    <3>5. \A m \in Nodes : m # n => budget'[m] = budget[m] /\ timeout'[m] = timeout[m]
      BY <2>10 DEF Spawn, TypeOK
    <3>6. grant' = grant /\ started' = started /\ now' = now
      BY <2>10 DEF Spawn
    <3>7. /\ Within(grant[n].budget, budget[Parent[n]]) /\ ~Exhausted(grant[n].budget)
          /\ Within(grant[n].timeout, timeout[Parent[n]]) /\ ~Exhausted(grant[n].timeout)
      BY <2>10, <3>2 DEF LimitsInv, Spawn, Exhausts
    <3>8. grant[n].budget \in Limits /\ grant[n].timeout \in Limits
      BY DEF TypeOK
    <3>9. AtMost(budget'[n], budget[Parent[n]]) /\ AtMost(timeout'[n], timeout[Parent[n]])
      BY <3>4, <3>7, <3>8, LimitsAssumption DEF Within, AtMost, Exhausted, Limits
    <3>10. \A m \in Nodes : started'[m] <= now'
      BY <1>0, <3>6
    <3>11. ASSUME NEW c \in Nodes \ {Root}
           PROVE  /\ phase'[c] # "idle" => phase'[Parent[c]] \in Settled
                  /\ phase[c] \notin {"idle", "asked", "gated"} \/ phase[c] = "gated" => Parent[c] # n
      BY <2>0, <3>1, <3>2 DEF Settled, Running
    <3>12. ASSUME NEW c \in Nodes \ {Root}, phase'[c] = "gated"
           PROVE  Within(grant'[c].budget, budget'[Parent[c]]) /\ Within(grant'[c].timeout, timeout'[Parent[c]])
      BY <2>0, <3>1, <3>5, <3>6, <3>11, <3>12 DEF LimitsInv
    <3>13. ASSUME NEW c \in Nodes \ {Root}, phase'[c] \in Running
           PROVE  /\ AtMost(budget'[c], budget'[Parent[c]]) /\ AtMost(timeout'[c], timeout'[Parent[c]])
                  /\ DepthOf[c] < EffectiveDepth
      <4>1. CASE c = n
        BY <3>2, <3>3, <3>4, <3>5, <3>9, <4>1
      <4>2. CASE c # n
        <5>1. phase[c] \in Running
          BY <3>1, <3>13, <4>2
        <5>2. Parent[c] # n /\ Parent[c] \in Nodes
          BY <2>0, <3>11, <5>1 DEF Running
        <5> QED
          BY <3>5, <4>2, <5>1, <5>2 DEF LimitsInv, RunsInside
      <4> QED
        BY <4>1, <4>2
    <3> QED
      BY <3>10, <3>11, <3>12, <3>13 DEF LimitsInv, RunsInside
  <2>11. CASE n # Root /\ Add(n)
    BY <1>0, <2>11, MoveKeepsLimits DEF Add, Respond, Phases, Settled, Running
  <2>12. CASE Ask(n)
    <3>1. PICK asked \in SUBSET {c \in Children(n) : phase[c] = "idle"} :
            phase' = [c \in Nodes |-> IF c \in asked THEN "asked" ELSE phase[c]]
      BY <2>12 DEF Ask
    <3>2. phase[n] = "exec"
      BY <2>12 DEF Ask
    <3>3. /\ budget' = budget /\ timeout' = timeout /\ tokens' = tokens /\ grant' = grant
          /\ started' = started /\ now' = now
      BY <2>12 DEF Ask, fields
    <3>4. ASSUME NEW c \in Nodes \ {Root}
          PROVE  /\ phase'[c] # "idle" => phase'[Parent[c]] \in Settled
                 /\ phase'[c] = "gated" => phase[c] = "gated"
                 /\ phase'[c] \in Running => phase[c] \in Running
      BY <2>0, <3>1, <3>2 DEF Children, Settled, Running
    <3> QED
      BY <1>0, <3>3, <3>4 DEF LimitsInv, RunsInside
  <2>13. CASE AskPlain(n)
    <3>1. PICK d \in Children(n) : phase[d] = "idle" /\ Respond(d, "lm")
      BY <2>13 DEF AskPlain
    <3>2. /\ d \in Nodes \ {Root} /\ Parent[d] = n /\ phase[n] = "exec"
          /\ \A m \in Nodes : phase'[m] = IF m = d THEN "done" ELSE phase[m]
      BY <2>13, <3>1 DEF AskPlain, Children, Respond, MoveTo, TypeOK
    <3>3. /\ budget' = budget /\ timeout' = timeout /\ tokens' = tokens /\ grant' = grant
          /\ started' = started /\ now' = now
      BY <2>13 DEF AskPlain, fields
    <3>4. ASSUME NEW c \in Nodes \ {Root}
          PROVE  /\ phase'[c] # "idle" => phase'[Parent[c]] \in Settled
                 /\ phase'[c] = "gated" => phase[c] = "gated"
                 /\ phase'[c] \in Running => phase[c] \in Running
      BY <2>0, <3>2 DEF Settled, Running
    <3> QED
      BY <1>0, <3>3, <3>4 DEF LimitsInv, RunsInside
  <2>14. CASE GiveUp(n)
    BY <2>14 DEF GiveUp, fields, LimitsInv, RunsInside
  <2> QED
    BY <2>1, <2>2, <2>3, <2>4, <2>5, <2>6, <2>7, <2>8, <2>9, <2>10, <2>11, <2>12, <2>13, <2>14
    DEF Step, Loop, Serve
<1> QED
  BY <1>1, <1>2, <1>3 DEF Next

----------------------------------------------------------------------------
\* Every step pays for the iteration it ends, and starts a sub-call with none.
LEMMA CallsStep == TypeOK /\ CallsInv /\ [Next]_vars => CallsInv'
<1> SUFFICES ASSUME TypeOK, CallsInv, [Next]_vars PROVE CallsInv'
  OBVIOUS
<1>0. ASSUME NEW m \in Nodes
      PROVE  /\ iteration[m] \in Nat /\ spent[m] \in Nat /\ cumulative[m] \in Nat
             /\ CallsOf(m) <= spent[m]
             /\ phase[m] \in {"idle", "asked", "gated"} => iteration[m] = 0
             /\ budget[m] # NoLimit => iteration[m] <= cumulative[m]
  BY DEF TypeOK, CallsInv
<1> USE <1>0 DEF CallsOf
<1> SUFFICES ASSUME NEW m \in Nodes
             PROVE  /\ CallsOf(m)' <= spent'[m]
                    /\ phase'[m] \in {"idle", "asked", "gated"} => iteration'[m] = 0
                    /\ budget'[m] # NoLimit => iteration'[m] <= cumulative'[m]
  BY DEF CallsInv
<1>1. CASE UNCHANGED vars
  BY <1>1 DEF vars
<1>2. CASE Tick
  BY <1>2 DEF Tick, spending, fields
<1>3. CASE \E n \in Nodes : Step(n) \/ Ask(n) \/ AskPlain(n) \/ GiveUp(n)
  <2> PICK n \in Nodes : Step(n) \/ Ask(n) \/ AskPlain(n) \/ GiveUp(n)
    BY <1>3
  <2> USE DEF TypeOK, spending, fields
  <2>0. \A q : \A x \in Nodes : MoveTo(x, q) => \A y \in Nodes : phase'[y] = IF y = x THEN q ELSE phase[y]
    BY DEF MoveTo
  <2>s. \A x \in Nodes : Spend(x) => \A y \in Nodes : spent'[y] = IF y = x THEN spent[x] + 1 ELSE spent[y]
    BY DEF Spend
  <2>c. \A x \in Nodes : StoreCost(x) =>
          \A y \in Nodes : cumulative'[y] = IF y = x /\ budget[x] # NoLimit THEN spent[x] ELSE cumulative[y]
    BY DEF StoreCost
  <2>1. CASE SetUp(n) \/ ExecReturn(n)
    BY <2>0, <2>1 DEF SetUp, ExecReturn
  <2>2. CASE ModelCall(n)
    BY <2>0, <2>s, <2>2 DEF ModelCall
  <2>3. CASE Continue(n)
    <3>1. /\ phase[n] = "limits" /\ MoveTo(n, "model") /\ StoreCost(n)
          /\ spent' = spent /\ budget' = budget
          /\ \A y \in Nodes : iteration'[y] = IF y = n THEN iteration[n] + 1 ELSE iteration[y]
      BY <2>3 DEF Continue
    <3> QED
      BY <3>1, <2>0, <2>c
  <2>4. CASE Succeed(n)
    <3>1. PICK q \in {"adding", "done"} : MoveTo(n, q)
      BY <2>4 DEF Succeed, End
    <3>2. /\ phase[n] = "limits" /\ StoreCost(n) /\ iteration' = iteration /\ budget' = budget
          /\ Spend(n) \/ spent' = spent
      BY <2>4 DEF Succeed
    <3>3. spent[m] <= spent'[m] /\ spent'[m] \in Nat
      BY <3>2, <2>s
    <3>4. phase'[m] = IF m = n THEN q ELSE phase[m]
      BY <3>1, <2>0
    <3>5. cumulative'[m] = IF m = n /\ budget[n] # NoLimit THEN spent[n] ELSE cumulative[m]
      BY <3>2, <2>c
    <3>6. CallsOf(m)' <= CallsOf(m)
      BY <3>2, <3>4
    <3> QED
      BY <3>2, <3>3, <3>4, <3>5, <3>6
  <2>5. CASE Fail(n)
    <3>1. PICK q \in {"adding", "done"} : MoveTo(n, q)
      BY <2>5 DEF Fail, End
    <3>2. /\ phase[n] \in {"setup", "model", "limits"} /\ iteration' = iteration /\ budget' = budget
          /\ spent' = spent
          /\ cumulative' = cumulative \/ (phase[n] = "limits" /\ StoreCost(n))
      BY <2>5 DEF Fail
    <3> QED
      BY <3>1, <3>2, <2>0, <2>c
  <2>6. CASE n # Root /\ (Gate(n) \/ Fallback(n) \/ Refuse(n))
    BY <2>0, <2>6 DEF Gate, Fallback, Refuse, Respond
  <2>7. CASE n # Root /\ Spawn(n)
    <3>1. /\ phase[n] = "gated" /\ MoveTo(n, "setup")
          /\ UNCHANGED <<iteration, spent, cumulative>>
          /\ \A y \in Nodes : y # n => budget'[y] = budget[y]
      BY <2>7 DEF Spawn
    <3> QED
      BY <3>1, <2>0
  <2>8. CASE n # Root /\ Add(n)
    <3>1. Parent[n] \in Nodes
      BY <2>8, ParentDiffers
    <3>2. /\ MoveTo(n, "done") /\ phase[n] = "adding" /\ UNCHANGED <<iteration, spent, budget>>
          /\ \A y \in Nodes : cumulative[y] <= cumulative'[y]
      BY <2>8, <3>1 DEF Add, Respond
    <3>3. cumulative'[m] \in Nat
      BY TypeStep
    <3> QED
      BY <3>2, <3>3, <2>0
  <2>9. CASE Ask(n)
    <3>1. PICK asked \in SUBSET {c \in Children(n) : phase[c] = "idle"} :
            phase' = [c \in Nodes |-> IF c \in asked THEN "asked" ELSE phase[c]]
      BY <2>9 DEF Ask
    <3>2. UNCHANGED <<iteration, spent, budget, cumulative>>
      BY <2>9 DEF Ask
    <3>3. phase'[m] = phase[m] \/ (phase[m] = "idle" /\ phase'[m] = "asked")
      BY <3>1
    <3> QED
      BY <3>2, <3>3
  <2>10. CASE AskPlain(n)
    <3>1. PICK d \in Children(n) : phase[d] = "idle" /\ MoveTo(d, "done")
      BY <2>10 DEF AskPlain, Respond
    <3>2. d \in Nodes /\ iteration' = iteration /\ budget' = budget /\ cumulative' = cumulative
      BY <2>10, <3>1 DEF AskPlain, Children
    <3>3. spent[m] <= spent'[m] /\ spent'[m] \in Nat
      <4>1. Spend(n) \/ spent' = spent
        BY <2>10 DEF AskPlain
      <4> QED
        BY <4>1, <2>s
    <3>4. phase'[m] = IF m = d THEN "done" ELSE phase[m]
      BY <3>1, <3>2, <2>0
    <3>5. CallsOf(m)' <= CallsOf(m)
      BY <3>2, <3>4
    <3> QED
      BY <3>2, <3>3, <3>4, <3>5
  <2>11. CASE GiveUp(n)
    BY <2>11 DEF GiveUp
  <2> QED
    BY <2>1, <2>2, <2>3, <2>4, <2>5, <2>6, <2>7, <2>8, <2>9, <2>10, <2>11 DEF Step, Loop, Serve
<1> QED
  BY <1>1, <1>2, <1>3 DEF Next

\* No step ends a context but those that end all contexts of a batch or of a node's sub-calls, and
\* none brings one back.
LEMMA DeadStays == TypeOK /\ [Next]_vars => \A c \in Nodes : dead[c] => dead'[c]
<1> SUFFICES ASSUME TypeOK, [Next]_vars, NEW c \in Nodes, dead[c] PROVE dead'[c]
  OBVIOUS
<1>1. CASE UNCHANGED vars \/ Tick
  BY <1>1 DEF vars, Tick
<1>2. ASSUME NEW n \in Nodes, Step(n) \/ Ask(n) \/ AskPlain(n) \/ GiveUp(n)
      PROVE  dead'[c]
  BY <1>2 DEF Step, Loop, Serve, SetUp, ModelCall, ExecReturn, Continue, Succeed, Fail, End, Gate,
     Fallback, Refuse, Spawn, Add, Ask, AskPlain, GiveUp
<1> QED
  BY <1>1, <1>2 DEF Next

\* The code of a node that has live sub-calls pending still waits for them, or has lost its own
\* context: the end of a block without one, and the end of a call, leave none.
LEMMA AskedStep == TypeOK /\ LimitsInv /\ AskedInv /\ [Next]_vars => AskedInv'
<1> SUFFICES ASSUME TypeOK, LimitsInv, AskedInv, [Next]_vars,
                    NEW c \in Nodes \ {Root}, phase'[c] \in Pending, ~dead'[c]
             PROVE  phase'[Parent[c]] = "exec" \/ dead'[Parent[c]]
  BY DEF AskedInv
<1>0. /\ Parent[c] \in Nodes /\ Parent[c] # c /\ ~dead[c]
      /\ dead[Parent[c]] => dead'[Parent[c]]
      /\ phase[c] \in Pending => phase[Parent[c]] = "exec" \/ dead[Parent[c]]
  BY ParentDiffers, DeadStays DEF AskedInv
<1>1. CASE UNCHANGED vars \/ Tick
  BY <1>0, <1>1 DEF vars, Tick
<1>2. CASE \E n \in Nodes : Step(n) \/ Ask(n) \/ AskPlain(n) \/ GiveUp(n)
  <2> PICK n \in Nodes : Step(n) \/ Ask(n) \/ AskPlain(n) \/ GiveUp(n)
    BY <1>2
  <2>0. \A q : \A x \in Nodes : MoveTo(x, q) => \A y \in Nodes : phase'[y] = IF y = x THEN q ELSE phase[y]
    BY DEF MoveTo, TypeOK
  <2>1. CASE SetUp(n) \/ ModelCall(n) \/ Continue(n)
    <3>1. \E q \in Phases : MoveTo(n, q) /\ phase[n] \in Pending /\ phase[n] # "exec"
      BY <2>1 DEF SetUp, ModelCall, Continue, Phases, Pending, Active
    <3> QED
      BY <3>1, <1>0, <2>0
  <2>2. CASE ExecReturn(n)
    <3>1. MoveTo(n, "limits") /\ phase[n] = "exec" /\ (~Waiting(n) \/ dead[n])
      BY <2>2 DEF ExecReturn
    <3>2. phase[c] \in Pending
      BY <3>1, <2>0 DEF Pending, Active
    <3>3. Parent[c] = n => dead[n]
      BY <3>1, <3>2, <1>0 DEF Waiting, Children
    <3> QED
      BY <3>1, <3>2, <3>3, <1>0, <2>0
  <2>3. CASE Succeed(n) \/ Fail(n)
    <3>1. PICK q \in {"adding", "done"} : MoveTo(n, q) /\ phase[n] \in {"setup", "model", "limits"}
      BY <2>3 DEF Succeed, Fail, End
    <3>2. \A d \in Children(n) : phase[d] \in Pending => dead'[d]
      BY <2>3 DEF Succeed, Fail, End, Children
    <3>3. phase[c] \in Pending
      BY <3>1, <2>0 DEF Pending, Active
    <3>4. Parent[c] # n
      BY <3>2, <3>3 DEF Children
    <3> QED
      BY <3>1, <3>3, <3>4, <1>0, <2>0
  <2>4. CASE n # Root /\ Serve(n)
    <3>1. \E q \in {"gated", "setup", "done"} : MoveTo(n, q) /\ phase[n] \in {"asked", "gated", "adding"}
      BY <2>4 DEF Serve, Gate, Fallback, Refuse, Spawn, Add, Respond
    <3> QED
      BY <3>1, <1>0, <2>0 DEF Pending, Active
  <2>5. CASE Ask(n)
    <3>1. PICK asked \in SUBSET {d \in Children(n) : phase[d] = "idle"} :
            phase' = [d \in Nodes |-> IF d \in asked THEN "asked" ELSE phase[d]]
      BY <2>5 DEF Ask
    <3>2. phase[n] = "exec"
      BY <2>5 DEF Ask
    <3>3. /\ phase'[c] = IF c \in asked THEN "asked" ELSE phase[c]
          /\ phase[Parent[c]] = "exec" => phase'[Parent[c]] = "exec"
      BY <3>1, <1>0
    <3>4. c \in asked => Parent[c] = n
      BY DEF Children
    <3> QED
      BY <3>2, <3>3, <3>4, <1>0
  <2>6. CASE AskPlain(n)
    <3>1. PICK d \in Children(n) : phase[d] = "idle" /\ MoveTo(d, "done")
      BY <2>6 DEF AskPlain, Respond
    <3>2. d \in Nodes
      BY DEF Children
    <3> QED
      BY <3>1, <3>2, <1>0, <2>0 DEF Pending, Active
  <2>7. CASE GiveUp(n)
    BY <2>7, <1>0 DEF GiveUp
  <2> QED
    BY <2>1, <2>2, <2>3, <2>4, <2>5, <2>6, <2>7 DEF Step, Loop
<1> QED
  BY <1>1, <1>2 DEF Next

\* A step, seen from the parent of a sub-call it awaits after it: the block goes on that asked for
\* the sub-call, under the same limits, and no money or time has come back.
LEMMA AwaitedStep ==
  ASSUME TypeOK, LimitsInv, AskedInv, [Next]_vars, NEW c \in Nodes \ {Root},
         phase'[c] \in {"gated"} \cup Running, Awaited(c)'
  PROVE  /\ Awaited(c)
         /\ budget'[Parent[c]] = budget[Parent[c]] /\ timeout'[Parent[c]] = timeout[Parent[c]]
         /\ iteration'[Parent[c]] = iteration[Parent[c]] /\ started'[Parent[c]] = started[Parent[c]]
         /\ cumulative[Parent[c]] <= cumulative'[Parent[c]] /\ now <= now'
<1>0. /\ Parent[c] \in Nodes /\ Parent[c] # c /\ ~dead[c] /\ ~dead'[c] /\ phase'[Parent[c]] = "exec"
      /\ now \in Nat /\ \A y \in Nodes : cumulative[y] \in Nat /\ spent[y] \in Nat
  BY ParentDiffers, DeadStays DEF Awaited, TypeOK
<1>1. CASE UNCHANGED vars \/ Tick
  BY <1>0, <1>1 DEF vars, Tick, fields, Awaited
<1>2. CASE \E n \in Nodes : Step(n) \/ Ask(n) \/ AskPlain(n) \/ GiveUp(n)
  <2> PICK n \in Nodes : Step(n) \/ Ask(n) \/ AskPlain(n) \/ GiveUp(n)
    BY <1>2
  <2>0. \A q : \A x \in Nodes : MoveTo(x, q) => \A y \in Nodes : phase'[y] = IF y = x THEN q ELSE phase[y]
    BY DEF MoveTo, TypeOK
  <2> USE DEF fields, Awaited, TypeOK
  <2>1. CASE SetUp(n) \/ ExecReturn(n) \/ Continue(n) \/ Succeed(n) \/ Fail(n)
    <3>1. PICK q \in {"model", "limits", "adding", "done"} : MoveTo(n, q)
      BY <2>1 DEF SetUp, ExecReturn, Continue, Succeed, Fail, End
    <3>2. Parent[c] # n
      BY <3>1, <1>0, <2>0
    <3>3. /\ budget' = budget /\ timeout' = timeout /\ now' = now
          /\ \A y \in Nodes \ {n} : /\ iteration'[y] = iteration[y] /\ started'[y] = started[y]
                                    /\ cumulative'[y] = cumulative[y]
      BY <2>1 DEF SetUp, ExecReturn, Continue, Succeed, Fail, StoreCost
    <3> QED
      BY <3>1, <3>2, <3>3, <1>0, <2>0
  <2>2. CASE ModelCall(n)
    <3>1. MoveTo(n, "exec") /\ phase[n] = "model" /\ ~dead[n]
      BY <2>2 DEF ModelCall
    <3>2. phase[c] \in Pending
      BY <3>1, <2>0, <1>0 DEF Pending, Active, Running
    <3>3. Parent[c] # n
      BY <3>1, <3>2, <1>0 DEF AskedInv
    <3>4. /\ budget' = budget /\ timeout' = timeout /\ now' = now
          /\ UNCHANGED <<iteration, started, cumulative>>
      BY <2>2 DEF ModelCall
    <3> QED
      BY <3>1, <3>3, <3>4, <1>0, <2>0
  <2>3. CASE n # Root /\ (Gate(n) \/ Fallback(n) \/ Refuse(n))
    <3>1. PICK q \in {"gated", "done"} : MoveTo(n, q)
      BY <2>3 DEF Gate, Fallback, Refuse, Respond
    <3>2. Parent[c] # n
      BY <3>1, <1>0, <2>0
    <3>3. /\ budget' = budget /\ timeout' = timeout /\ now' = now
          /\ UNCHANGED <<iteration, started, cumulative>>
      BY <2>3 DEF Gate, Fallback, Refuse
    <3> QED
      BY <3>1, <3>2, <3>3, <1>0, <2>0
  <2>4. CASE n # Root /\ Spawn(n)
    <3>1. MoveTo(n, "setup")
      BY <2>4 DEF Spawn
    <3>2. Parent[c] # n
      BY <3>1, <1>0, <2>0
    <3>3. /\ \A y \in Nodes \ {n} : budget'[y] = budget[y] /\ timeout'[y] = timeout[y]
          /\ now' = now /\ UNCHANGED <<iteration, started, cumulative>>
      BY <2>4 DEF Spawn
    <3> QED
      BY <3>1, <3>2, <3>3, <1>0, <2>0
  <2>5. CASE n # Root /\ Add(n)
    <3>1. MoveTo(n, "done")
      BY <2>5 DEF Add, Respond
    <3>2. Parent[c] # n
      BY <3>1, <1>0, <2>0
    <3>3. /\ budget' = budget /\ timeout' = timeout /\ now' = now /\ UNCHANGED <<iteration, started>>
          /\ \A y \in Nodes : cumulative[y] <= cumulative'[y]
      BY <2>5, <1>0 DEF Add
    <3> QED
      BY <3>1, <3>2, <3>3, <1>0, <2>0
  <2>6. CASE Ask(n)
    <3>1. /\ phase'[Parent[c]] \in {phase[Parent[c]], "asked"}
          /\ budget' = budget /\ timeout' = timeout /\ now' = now
          /\ UNCHANGED <<iteration, started, cumulative>>
      BY <2>6, <1>0 DEF Ask
    <3> QED
      BY <3>1, <1>0
  <2>7. CASE AskPlain(n)
    <3>1. PICK d \in Children(n) : phase[d] = "idle" /\ MoveTo(d, "done")
      BY <2>7 DEF AskPlain, Respond
    <3>2. d \in Nodes
      BY DEF Children
    <3>3. /\ budget' = budget /\ timeout' = timeout /\ now' = now
          /\ UNCHANGED <<iteration, started, cumulative>>
      BY <2>7 DEF AskPlain
    <3> QED
      BY <3>1, <3>2, <3>3, <1>0, <2>0
  <2>8. CASE GiveUp(n)
    BY <2>8, <1>0 DEF GiveUp
  <2> QED
    BY <2>1, <2>2, <2>3, <2>4, <2>5, <2>6, <2>7, <2>8 DEF Step, Loop, Serve
<1> QED
  BY <1>1, <1>2 DEF Next

\* A step, seen from a sub-call: it is let in, it starts with what it was granted, or it keeps both
\* the grant and its fields.
LEMMA GrantedStep ==
  ASSUME TypeOK, [Next]_vars, NEW c \in Nodes \ {Root}, phase'[c] \in {"gated"} \cup Running
  PROVE  \/ Gate(c)
         \/ /\ phase[c] = "gated" /\ phase'[c] = "setup"
            /\ budget'[c] = grant[c].budget /\ timeout'[c] = grant[c].timeout
         \/ /\ phase[c] = "gated" <=> phase'[c] = "gated"
            /\ phase[c] \in Running <=> phase'[c] \in Running
            /\ grant'[c] = grant[c] /\ budget'[c] = budget[c] /\ timeout'[c] = timeout[c]
<1>1. CASE UNCHANGED vars \/ Tick
  BY <1>1 DEF vars, Tick, fields
<1>2. CASE \E n \in Nodes : Step(n) \/ Ask(n) \/ AskPlain(n) \/ GiveUp(n)
  <2> PICK n \in Nodes : Step(n) \/ Ask(n) \/ AskPlain(n) \/ GiveUp(n)
    BY <1>2
  <2>0. \A q : \A x \in Nodes : MoveTo(x, q) => \A y \in Nodes : phase'[y] = IF y = x THEN q ELSE phase[y]
    BY DEF MoveTo, TypeOK
  <2> USE DEF fields, TypeOK, Running
  <2>1. CASE Loop(n)
    <3>1. PICK q \in {"model", "exec", "limits", "adding", "done"} : MoveTo(n, q)
      BY <2>1 DEF Loop, SetUp, ModelCall, ExecReturn, Continue, Succeed, Fail, End
    <3>2. phase[n] \in Running /\ budget' = budget /\ timeout' = timeout /\ grant' = grant
      BY <2>1 DEF Loop, SetUp, ModelCall, ExecReturn, Continue, Succeed, Fail
    <3> QED
      BY <3>1, <3>2, <2>0
  <2>2. CASE n # Root /\ Gate(n)
    <3>1. MoveTo(n, "gated") /\ budget' = budget /\ timeout' = timeout
      BY <2>2 DEF Gate
    <3>2. \A y \in Nodes \ {n} : grant'[y] = grant[y]
      BY <2>2 DEF Gate
    <3> QED
      BY <3>1, <3>2, <2>0, <2>2
  <2>3. CASE n # Root /\ (Fallback(n) \/ Refuse(n) \/ Add(n))
    <3>1. MoveTo(n, "done") /\ budget' = budget /\ timeout' = timeout /\ grant' = grant
      BY <2>3 DEF Fallback, Refuse, Add, Respond
    <3> QED
      BY <3>1, <2>0
  <2>4. CASE n # Root /\ Spawn(n)
    <3>1. /\ phase[n] = "gated" /\ MoveTo(n, "setup") /\ grant' = grant
          /\ \A y \in Nodes : budget'[y] = IF y = n THEN grant[n].budget ELSE budget[y]
          /\ \A y \in Nodes : timeout'[y] = IF y = n THEN grant[n].timeout ELSE timeout[y]
      BY <2>4 DEF Spawn
    <3> QED
      BY <3>1, <2>0
  <2>5. CASE Ask(n)
    <3>1. phase'[c] \in {phase[c], "asked"} /\ budget' = budget /\ timeout' = timeout /\ grant' = grant
      BY <2>5 DEF Ask
    <3> QED
      BY <3>1
  <2>6. CASE AskPlain(n)
    <3>1. PICK d \in Children(n) : phase[d] = "idle" /\ MoveTo(d, "done")
      BY <2>6 DEF AskPlain, Respond
    <3>2. d \in Nodes /\ budget' = budget /\ timeout' = timeout /\ grant' = grant
      BY <2>6 DEF Children, AskPlain
    <3> QED
      BY <3>1, <3>2, <2>0
  <2>7. CASE GiveUp(n)
    BY <2>7 DEF GiveUp
  <2> QED
    BY <2>1, <2>2, <2>3, <2>4, <2>5, <2>6, <2>7 DEF Step, Serve
<1> QED
  BY <1>1, <1>2 DEF Next

\* What is left when Subcall reads it is what is left, and stays above what is left later.
LEMMA GrantStep ==
  TypeOK /\ LimitsInv /\ CallsInv /\ AskedInv /\ GrantInv /\ [Next]_vars => GrantInv'
<1> SUFFICES ASSUME TypeOK, LimitsInv, CallsInv, AskedInv, GrantInv, [Next]_vars,
                    NEW c \in Nodes \ {Root}, Awaited(c)', phase'[c] \in {"gated"} \cup Running
             PROVE  /\ phase'[c] = "gated" => LeftOf(Parent[c], grant[c].budget, grant[c].timeout)'
                    /\ phase'[c] \in Running => LeftOf(Parent[c], budget[c], timeout[c])'
  BY DEF GrantInv
<1> DEFINE p == Parent[c]
<1>1. /\ p \in Nodes /\ budget'[p] = budget[p] /\ timeout'[p] = timeout[p] /\ iteration'[p] = iteration[p]
      /\ started'[p] = started[p] /\ cumulative[p] <= cumulative'[p] /\ now <= now' /\ Awaited(c)
  BY AwaitedStep, ParentDiffers
<1>2. /\ cumulative[p] \in Nat /\ cumulative'[p] \in Nat /\ now \in Nat /\ now' \in Nat
      /\ started[p] \in Nat /\ iteration[p] \in Nat /\ budget[p] \in Limits /\ timeout[p] \in Limits
      /\ grant[c].budget \in Limits /\ grant[c].timeout \in Limits
      /\ budget[c] \in Limits /\ timeout[c] \in Limits
  <2>1. TypeOK'
    BY TypeStep
  <2> QED
    BY <1>1, <2>1 DEF TypeOK
<1> HIDE DEF p
<1>3. ASSUME NEW b \in Limits, NEW t \in Limits, Within(b, budget[p]), Within(t, timeout[p]),
             LeftOf(p, b, t)
      PROVE  /\ budget'[p] # NoLimit => RemainingBudget(p)' <= b /\ b <= budget'[p] - iteration'[p]
             /\ timeout'[p] # NoLimit => RemainingTimeout(p)' <= t
  <2>1. ASSUME budget[p] # NoLimit
        PROVE  RemainingBudget(p)' <= b /\ b <= budget'[p] - iteration'[p]
    <3>1. RemainingBudget(p)' = budget[p] - cumulative'[p] /\ RemainingBudget(p) = budget[p] - cumulative[p]
      BY <1>1, <2>1 DEF RemainingBudget, Less
    <3>2. budget[p] \in Int /\ b \in Int
      BY <1>2, <1>3, <2>1, LimitsAssumption DEF Limits, Within
    <3>3. RemainingBudget(p) <= b /\ b <= budget[p] - iteration[p]
      BY <1>3, <2>1 DEF LeftOf
    <3> QED
      BY <3>1, <3>2, <3>3, <1>1, <1>2
  <2>2. ASSUME timeout[p] # NoLimit
        PROVE  RemainingTimeout(p)' <= t
    <3>1. /\ RemainingTimeout(p)' = timeout[p] - (now' - started[p])
          /\ RemainingTimeout(p) = timeout[p] - (now - started[p])
      BY <1>1, <2>2 DEF RemainingTimeout, Less
    <3>2. timeout[p] \in Int /\ t \in Int
      BY <1>2, <1>3, <2>2, LimitsAssumption DEF Limits, Within
    <3>3. RemainingTimeout(p) <= t
      BY <1>3, <2>2 DEF LeftOf
    <3> QED
      BY <3>1, <3>2, <3>3, <1>1, <1>2
  <2> QED
    BY <2>1, <2>2, <1>1
<1>4. CASE Gate(c)
  <2>1. /\ phase'[c] = "gated" /\ cumulative' = cumulative /\ now' = now
        /\ grant'[c] = [budget |-> RemainingBudget(p), timeout |-> RemainingTimeout(p)]
    BY <1>4 DEF Gate, MoveTo, TypeOK, p
  <2>2. budget[p] # NoLimit => iteration[p] <= cumulative[p]
    BY <1>1 DEF CallsInv
  <2>3. /\ RemainingBudget(p)' = RemainingBudget(p) /\ RemainingTimeout(p)' = RemainingTimeout(p)
        /\ grant'[c].budget = RemainingBudget(p) /\ grant'[c].timeout = RemainingTimeout(p)
    BY <1>1, <2>1 DEF RemainingBudget, RemainingTimeout
  <2>4. ASSUME budget[p] # NoLimit
        PROVE  RemainingBudget(p) <= RemainingBudget(p) /\ RemainingBudget(p) <= budget[p] - iteration[p]
    BY <1>2, <2>2, <2>4, LimitsAssumption DEF RemainingBudget, Less, Limits
  <2>5. ASSUME timeout[p] # NoLimit
        PROVE  RemainingTimeout(p) <= RemainingTimeout(p)
    BY <1>2, <2>5, LimitsAssumption DEF RemainingTimeout, Less, Limits
  <2>6. LeftOf(p, grant[c].budget, grant[c].timeout)'
    BY <1>1, <2>3, <2>4, <2>5 DEF LeftOf
  <2> QED
    BY <2>1, <2>6 DEF p, Running
<1>5. CASE /\ phase[c] = "gated" /\ phase'[c] = "setup"
           /\ budget'[c] = grant[c].budget /\ timeout'[c] = grant[c].timeout
  <2>1. /\ Within(grant[c].budget, budget[p]) /\ Within(grant[c].timeout, timeout[p])
        /\ LeftOf(p, grant[c].budget, grant[c].timeout)
    BY <1>1, <1>5 DEF LimitsInv, GrantInv, p
  <2>2. LeftOf(p, budget[c], timeout[c])'
    BY <2>1, <1>2, <1>3, <1>5 DEF LeftOf
  <2> QED
    BY <2>2, <1>5 DEF p
<1>6. CASE /\ phase[c] = "gated" <=> phase'[c] = "gated"
           /\ phase[c] \in Running <=> phase'[c] \in Running
           /\ grant'[c] = grant[c] /\ budget'[c] = budget[c] /\ timeout'[c] = timeout[c]
  <2>1. ASSUME phase[c] = "gated"
        PROVE  LeftOf(p, grant[c].budget, grant[c].timeout)'
    <3>1. /\ Within(grant[c].budget, budget[p]) /\ Within(grant[c].timeout, timeout[p])
          /\ LeftOf(p, grant[c].budget, grant[c].timeout)
      BY <1>1, <2>1 DEF LimitsInv, GrantInv, p
    <3> QED
      BY <3>1, <1>2, <1>3, <1>6 DEF LeftOf
  <2>2. ASSUME phase[c] \in Running
        PROVE  LeftOf(p, budget[c], timeout[c])'
    <3>1. /\ AtMost(budget[c], budget[p]) /\ AtMost(timeout[c], timeout[p])
          /\ LeftOf(p, budget[c], timeout[c])
      BY <1>1, <2>2 DEF LimitsInv, RunsInside, GrantInv, p
    <3>2. Within(budget[c], budget[p]) /\ Within(timeout[c], timeout[p])
      BY <3>1 DEF AtMost, Within
    <3> QED
      BY <3>1, <3>2, <1>2, <1>3, <1>6 DEF LeftOf
  <2> QED
    BY <2>1, <2>2, <1>6 DEF p
<1> QED
  BY <1>4, <1>5, <1>6, GrantedStep

\* Every sub-call that runs is inside its parent's limits and below the depth cap; while its parent
\* waits for it, it has at least what is left of them, and at most what the iterations behind the
\* parent have left: for every tree, all limits and any order of the goroutines.
THEOREM Inherit == Spec => []InheritsRemaining
<1>1. Init => InheritInv
  <2> SUFFICES ASSUME Init PROVE InheritInv
    OBVIOUS
  <2>1. CallsInv
    BY DEF Init, CallsInv, CallsOf
  <2>2. \A c \in Nodes \ {Root} : phase[c] = "idle"
    BY DEF Init
  <2>3. AskedInv /\ GrantInv
    BY <2>2 DEF AskedInv, GrantInv, Pending, Active, Running
  <2> QED
    BY <2>1, <2>3 DEF InheritInv
<1>2. TypeOK /\ LimitsInv /\ InheritInv /\ [Next]_vars => InheritInv'
  BY CallsStep, AskedStep, GrantStep DEF InheritInv
<1>3. LimitsInv /\ InheritInv => InheritsRemaining
  BY DEF LimitsInv, InheritInv, GrantInv, InheritsRemaining
<1> QED
  BY <1>1, <1>2, <1>3, InitType, TypeStep, LimitsInit, LimitsStep, PTL DEF Spec
\* A step that moves one node on and ends no context leaves no live orphan, unless it ends the
\* node while sub-calls of it are pending.
LEMMA MoveKeepsOrphans ==
  ASSUME TypeOK, NoLiveOrphan, NEW n \in Nodes, NEW q \in Phases,
         MoveTo(n, q), dead' = dead, q \in Pending => phase[n] \in Pending,
         \/ q \notin {"adding", "done"}
         \/ phase[n] = "adding"
         \/ \A c \in Children(n) : phase[c] = "idle"
  PROVE  NoLiveOrphan'
<1> SUFFICES ASSUME NEW c \in Nodes \ {Root}, phase'[c] \in Pending, phase'[Parent[c]] \in {"adding", "done"}
             PROVE  dead[c]
  BY DEF NoLiveOrphan
<1>1. \A m \in Nodes : phase'[m] = IF m = n THEN q ELSE phase[m]
  BY DEF MoveTo, TypeOK
<1>2. Parent[c] \in Nodes /\ Parent[c] # c
  BY ParentDiffers
<1>3. phase[c] \in Pending
  BY <1>1
<1>4. CASE Parent[c] = n
  <2>1. phase[n] = "adding"
    BY <1>1, <1>2, <1>3, <1>4 DEF Children, Pending, Active
  <2> QED
    BY <1>3, <1>4, <2>1 DEF NoLiveOrphan
<1>5. CASE Parent[c] # n
  BY <1>1, <1>2, <1>3, <1>5 DEF NoLiveOrphan
<1> QED
  BY <1>4, <1>5

\* A Completion that ends takes the contexts of the sub-calls it still has pending with it.
LEMMA EndOrphans ==
  ASSUME TypeOK, NoLiveOrphan, NEW n \in Nodes, NEW a, End(n, a),
         phase[n] \in {"setup", "model", "limits"}
  PROVE  NoLiveOrphan'
<1> SUFFICES ASSUME NEW c \in Nodes \ {Root}, phase'[c] \in Pending, phase'[Parent[c]] \in {"adding", "done"}
             PROVE  dead'[c]
  BY DEF NoLiveOrphan
<1>1. PICK q \in {"adding", "done"} : MoveTo(n, q)
  BY DEF End
<1>2. \A m \in Nodes : phase'[m] = IF m = n THEN q ELSE phase[m]
  BY <1>1 DEF MoveTo, TypeOK
<1>3. dead'[c] = (dead[c] \/ (c \in Children(n) /\ phase[c] \in Pending))
  BY DEF End
<1>4. Parent[c] \in Nodes /\ Parent[c] # c
  BY ParentDiffers
<1>5. phase[c] \in Pending
  BY <1>2 DEF Pending, Active
<1>6. CASE Parent[c] = n
  BY <1>3, <1>5, <1>6 DEF Children
<1>7. CASE Parent[c] # n
  BY <1>2, <1>3, <1>4, <1>5, <1>7 DEF NoLiveOrphan
<1> QED
  BY <1>6, <1>7

\* At the start nothing is pending below any node.
LEMMA OrphanInit == Init => NoLiveOrphan
<1> SUFFICES ASSUME Init, NEW c \in Nodes \ {Root}
             PROVE  phase[c] \notin Pending
  BY DEF NoLiveOrphan
<1> QED
  BY DEF Init, Pending, Active

\* Every step leaves no live orphan.  Only code that runs asks for sub-calls, a sub-call that never
\* ran code has none (LimitsInv), and the end of a Completion ends the contexts of its own.
LEMMA OrphanStep == TypeOK /\ LimitsInv /\ NoLiveOrphan /\ [Next]_vars => NoLiveOrphan'
<1> SUFFICES ASSUME TypeOK, LimitsInv, NoLiveOrphan, [Next]_vars PROVE NoLiveOrphan'
  OBVIOUS
<1>1. CASE UNCHANGED vars
  BY <1>1 DEF vars, NoLiveOrphan
<1>2. CASE Tick
  BY <1>2 DEF Tick, NoLiveOrphan
<1>3. CASE \E n \in Nodes : Step(n) \/ Ask(n) \/ AskPlain(n) \/ GiveUp(n)
  <2> PICK n \in Nodes : Step(n) \/ Ask(n) \/ AskPlain(n) \/ GiveUp(n)
    BY <1>3
  <2>0. ASSUME NEW m \in Nodes, phase[m] \in {"idle", "asked", "gated"}, NEW c \in Children(m)
        PROVE  phase[c] = "idle"
    BY <2>0 DEF LimitsInv, Children, Settled, Running
  <2>1. CASE SetUp(n)
    BY <2>1, MoveKeepsOrphans DEF SetUp, Phases, Pending, Active
  <2>2. CASE ModelCall(n)
    BY <2>2, MoveKeepsOrphans DEF ModelCall, Phases, Pending, Active
  <2>3. CASE ExecReturn(n)
    BY <2>3, MoveKeepsOrphans DEF ExecReturn, Phases, Pending, Active
  <2>4. CASE Continue(n)
    BY <2>4, MoveKeepsOrphans DEF Continue, Phases, Pending, Active
  <2>5. CASE Succeed(n)
    BY <2>5, EndOrphans DEF Succeed
  <2>6. CASE Fail(n)
    BY <2>6, EndOrphans DEF Fail
  <2>7. CASE n # Root /\ Gate(n)
    BY <2>7, MoveKeepsOrphans DEF Gate, Phases, Pending, Active
  <2>8. CASE n # Root /\ Fallback(n)
    BY <2>0, <2>8, MoveKeepsOrphans DEF Fallback, Respond, Phases, Pending, Active
  <2>9. CASE n # Root /\ Refuse(n)
    BY <2>0, <2>9, MoveKeepsOrphans DEF Refuse, Respond, Phases, Pending, Active
  <2>10. CASE n # Root /\ Spawn(n)
    BY <2>10, MoveKeepsOrphans DEF Spawn, Phases, Pending, Active
  <2>11. CASE n # Root /\ Add(n)
    BY <2>11, MoveKeepsOrphans DEF Add, Respond, Phases, Pending, Active
  <2>12. CASE Ask(n)
    <3>1. PICK asked \in SUBSET {c \in Children(n) : phase[c] = "idle"} :
            phase' = [c \in Nodes |-> IF c \in asked THEN "asked" ELSE phase[c]]
      BY <2>12 DEF Ask
    <3>2. phase[n] = "exec" /\ dead' = dead
      BY <2>12 DEF Ask
    <3> SUFFICES ASSUME NEW c \in Nodes \ {Root}, phase'[c] \in Pending,
                        phase'[Parent[c]] \in {"adding", "done"}
                 PROVE  dead[c]
      BY <3>2 DEF NoLiveOrphan
    <3>3. Parent[c] \in Nodes
      BY ParentDiffers
    <3>4. phase[Parent[c]] \in {"adding", "done"}
      BY <3>1, <3>3
    <3>5. c \notin asked
      BY <3>2, <3>4 DEF Children
    <3> QED
      BY <3>1, <3>4, <3>5 DEF NoLiveOrphan
  <2>13. CASE AskPlain(n)
    <3>1. PICK d \in Children(n) : phase[d] = "idle" /\ Respond(d, "lm")
      BY <2>13 DEF AskPlain
    <3>2. d \in Nodes /\ dead' = dead
      BY <2>13 DEF AskPlain, Children
    <3> QED
      BY <2>0, <3>1, <3>2, MoveKeepsOrphans DEF Respond, Phases, Pending, Active
  <2>14. CASE GiveUp(n)
    BY <2>14 DEF GiveUp, NoLiveOrphan
  <2> QED
    BY <2>1, <2>2, <2>3, <2>4, <2>5, <2>6, <2>7, <2>8, <2>9, <2>10, <2>11, <2>12, <2>13, <2>14
    DEF Step, Loop, Serve
<1> QED
  BY <1>1, <1>2, <1>3 DEF Next

\* No sub-call of any tree outlives its parent's Completion with a live context.
THEOREM Orphans == Spec => []NoLiveOrphan
BY InitType, TypeStep, LimitsInit, LimitsStep, OrphanInit, OrphanStep, PTL DEF Spec
----------------------------------------------------------------------------
\* The active members of a batch are a finite set, and fewer of them do not count more.
LEMMA ActiveFinite ==
  ASSUME NEW S \in SUBSET Nodes, NEW T \in SUBSET S
  PROVE  IsFiniteSet(S) /\ Cardinality(S) \in Nat /\ Cardinality(T) <= Cardinality(S)
BY TreeAssumption, FS_Subset, FS_CardinalityType

\* A step that moves one node on, and makes none active, keeps every batch within its bound.
LEMMA MoveKeepsBatches ==
  ASSUME TypeOK, BatchInv, NEW n \in Nodes, NEW q \in Phases \ {"idle"},
         MoveTo(n, q), batch' = batch, q \in Active => phase[n] \in Active
  PROVE  BatchInv'
<1>1. \A m \in Nodes : phase'[m] = IF m = n THEN q ELSE phase[m]
  BY DEF MoveTo, TypeOK
<1>2. ASSUME NEW c \in Nodes
      PROVE  Cardinality({d \in batch[c] : phase'[d] \in Active}) <= MaxConcurrentSubcalls
  <2> DEFINE S == {d \in batch[c] : phase[d] \in Active}
             T == {d \in batch[c] : phase'[d] \in Active}
  <2>1. batch[c] \subseteq Nodes
    BY DEF TypeOK
  <2>2. S \in SUBSET Nodes /\ T \in SUBSET S
    BY <1>1, <2>1
  <2>3. Cardinality(S) <= MaxConcurrentSubcalls
    BY DEF BatchInv, BatchBounded
  <2> HIDE DEF S, T
  <2>4. Cardinality(S) \in Nat /\ Cardinality(T) \in Nat /\ Cardinality(T) <= Cardinality(S)
    BY <2>2, ActiveFinite
  <2>5. Cardinality(T) <= MaxConcurrentSubcalls
    BY <2>3, <2>4, SizesAssumption
  <2> QED
    BY <2>5 DEF T
<1> QED
  BY <1>1, <1>2 DEF BatchInv, BatchBounded

\* At the start every node is a batch of its own.
LEMMA BatchInit == Init => BatchInv
<1> SUFFICES ASSUME Init PROVE BatchInv
  OBVIOUS
<1>1. ASSUME NEW c \in Nodes
      PROVE  Cardinality({d \in batch[c] : phase[d] \in Active}) <= MaxConcurrentSubcalls
  <2> DEFINE T == {d \in batch[c] : phase[d] \in Active}
  <2>1. T \in SUBSET {c}
    BY DEF Init
  <2>2. IsFiniteSet({c}) /\ Cardinality({c}) = 1
    BY FS_Singleton
  <2> HIDE DEF T
  <2>3. Cardinality(T) \in Nat /\ Cardinality(T) <= 1
    BY <2>1, <2>2, FS_Subset, FS_CardinalityType
  <2> QED
    BY <2>3, SizesAssumption DEF T
<1>2. \A c \in Nodes : batch[c] = {c}
  BY DEF Init
<1> QED
  BY <1>1, <1>2 DEF BatchInv, BatchBounded

\* Every step keeps the batches: Ask makes a fresh one of nodes no one had asked for, and Gate
\* makes a member active only while a slot of its batch is free.
LEMMA BatchStep == TypeOK /\ BatchInv /\ [Next]_vars => BatchInv'
<1> SUFFICES ASSUME TypeOK, BatchInv, [Next]_vars PROVE BatchInv'
  OBVIOUS
<1>1. CASE UNCHANGED vars
  BY <1>1 DEF vars, BatchInv, BatchBounded
<1>2. CASE Tick
  BY <1>2 DEF Tick, BatchInv, BatchBounded
<1>3. CASE \E n \in Nodes : Step(n) \/ Ask(n) \/ AskPlain(n) \/ GiveUp(n)
  <2> PICK n \in Nodes : Step(n) \/ Ask(n) \/ AskPlain(n) \/ GiveUp(n)
    BY <1>3
  <2>1. CASE SetUp(n)
    BY <2>1, MoveKeepsBatches DEF SetUp, Phases, Active
  <2>2. CASE ModelCall(n)
    BY <2>2, MoveKeepsBatches DEF ModelCall, Phases, Active
  <2>3. CASE ExecReturn(n)
    BY <2>3, MoveKeepsBatches DEF ExecReturn, Phases, Active
  <2>4. CASE Continue(n)
    BY <2>4, MoveKeepsBatches DEF Continue, Phases, Active
  <2>5. CASE Succeed(n)
    BY <2>5, MoveKeepsBatches DEF Succeed, End, Phases, Active
  <2>6. CASE Fail(n)
    BY <2>6, MoveKeepsBatches DEF Fail, End, Phases, Active
  <2>7. CASE n # Root /\ Gate(n)
    <3>1. \A m \in Nodes : phase'[m] = IF m = n THEN "gated" ELSE phase[m]
      BY <2>7 DEF Gate, MoveTo, TypeOK
    <3>2. batch' = batch
      BY <2>7 DEF Gate
    <3>3. ASSUME NEW c \in Nodes
          PROVE  Cardinality({d \in batch[c] : phase'[d] \in Active}) <= MaxConcurrentSubcalls
      <4> DEFINE S == {d \in batch[c] : phase[d] \in Active}
                 T == {d \in batch[c] : phase'[d] \in Active}
      <4>1. S \in SUBSET Nodes /\ T \in SUBSET Nodes
        BY DEF TypeOK
      <4>2. Cardinality(S) <= MaxConcurrentSubcalls
        BY DEF BatchInv, BatchBounded
      <4>3. CASE n \notin batch[c]
        <5>1. T = S
          BY <3>1, <4>1, <4>3 DEF TypeOK
        <5> HIDE DEF S
        <5> QED
          BY <4>2, <5>1
      <4>4. CASE n \in batch[c]
        <5>1. batch[c] = batch[n]
          BY <4>4 DEF BatchInv
        <5>2. Cardinality(S) < MaxConcurrentSubcalls
          BY <2>7, <5>1 DEF Gate, FreeSlot
        <5>3. T \subseteq S \cup {n}
          BY <3>1, <4>1 DEF TypeOK
        <5> HIDE DEF S, T
        <5>4. IsFiniteSet(S) /\ Cardinality(S) \in Nat
          BY <4>1, ActiveFinite
        <5>5. /\ IsFiniteSet(S \cup {n}) /\ Cardinality(S \cup {n}) \in Nat
              /\ Cardinality(S \cup {n}) <= Cardinality(S) + 1
          <6>1. /\ IsFiniteSet(S \cup {n})
                /\ Cardinality(S \cup {n}) = IF n \in S THEN Cardinality(S) ELSE Cardinality(S) + 1
            BY <5>4, FS_AddElement
          <6> QED
            BY <5>4, <6>1
        <5>6. Cardinality(T) \in Nat /\ Cardinality(T) <= Cardinality(S \cup {n})
          BY <5>3, <5>5, FS_Subset, FS_CardinalityType
        <5>7. Cardinality(T) <= MaxConcurrentSubcalls
          BY <5>2, <5>4, <5>5, <5>6, SizesAssumption
        <5> QED
          BY <5>7 DEF T
      <4> QED
        BY <4>3, <4>4
    <3> QED
      BY <3>1, <3>2, <3>3 DEF BatchInv, BatchBounded
  <2>8. CASE n # Root /\ Fallback(n)
    BY <2>8, MoveKeepsBatches DEF Fallback, Respond, Phases, Active
  <2>9. CASE n # Root /\ Refuse(n)
    BY <2>9, MoveKeepsBatches DEF Refuse, Respond, Phases, Active
  <2>10. CASE n # Root /\ Spawn(n)
    BY <2>10, MoveKeepsBatches DEF Spawn, Phases, Active
  <2>11. CASE n # Root /\ Add(n)
    BY <2>11, MoveKeepsBatches DEF Add, Respond, Phases, Active
  <2>12. CASE Ask(n)
    <3>1. PICK asked \in SUBSET {c \in Children(n) : phase[c] = "idle"} :
            /\ phase' = [c \in Nodes |-> IF c \in asked THEN "asked" ELSE phase[c]]
            /\ batch' = [c \in Nodes |-> IF c \in asked THEN asked ELSE batch[c]]
      BY <2>12 DEF Ask
    <3>2. /\ asked \subseteq Nodes /\ \A c \in asked : phase[c] = "idle"
          /\ \A c \in Nodes : phase'[c] = IF c \in asked THEN "asked" ELSE phase[c]
          /\ \A c \in Nodes : batch'[c] = IF c \in asked THEN asked ELSE batch[c]
          /\ \A c \in Nodes : batch[c] \subseteq Nodes
      BY <3>1 DEF Children, TypeOK
    <3>3. \A c \in Nodes \ asked : \A d \in batch[c] : d \notin asked
      BY <3>2 DEF BatchInv
    <3>4. ASSUME NEW c \in Nodes
          PROVE  Cardinality({d \in batch'[c] : phase'[d] \in Active}) <= MaxConcurrentSubcalls
      <4>1. CASE c \in asked
        <5>1. {d \in batch'[c] : phase'[d] \in Active} = {}
          BY <3>2, <4>1 DEF Active
        <5> QED
          BY <5>1, FS_EmptySet, SizesAssumption
      <4>2. CASE c \notin asked
        <5>1. {d \in batch'[c] : phase'[d] \in Active} = {d \in batch[c] : phase[d] \in Active}
          BY <3>2, <3>3, <4>2
        <5> QED
          BY <5>1 DEF BatchInv, BatchBounded
      <4> QED
        BY <4>1, <4>2
    <3>5. \A c \in Nodes : c \in batch'[c] /\ (phase'[c] = "idle" => batch'[c] = {c})
      BY <3>2 DEF BatchInv
    <3>6. \A c, d \in Nodes : d \in batch'[c] => batch'[d] = batch'[c]
      BY <3>2, <3>3 DEF BatchInv
    <3> QED
      BY <3>4, <3>5, <3>6 DEF BatchInv, BatchBounded
  <2>13. CASE AskPlain(n)
    <3>1. PICK d \in Children(n) : phase[d] = "idle" /\ Respond(d, "lm")
      BY <2>13 DEF AskPlain
    <3>2. d \in Nodes /\ batch' = batch
      BY <2>13 DEF AskPlain, Children
    <3> QED
      BY <3>1, <3>2, MoveKeepsBatches DEF Respond, Phases, Active
  <2>14. CASE GiveUp(n)
    BY <2>14 DEF GiveUp, BatchInv, BatchBounded
  <2> QED
    BY <2>1, <2>2, <2>3, <2>4, <2>5, <2>6, <2>7, <2>8, <2>9, <2>10, <2>11, <2>12, <2>13, <2>14
    DEF Step, Loop, Serve
<1> QED
  BY <1>1, <1>2, <1>3 DEF Next

\* A batch never has more than MaxConcurrentSubcalls sub-calls under way, however large it is and
\* whatever its members do.
THEOREM Bounded == Spec => []BatchBounded
<1>1. BatchInv => BatchBounded
  BY DEF BatchInv
<1> QED
  BY <1>1, InitType, TypeStep, BatchInit, BatchStep, PTL DEF Spec

----------------------------------------------------------------------------
\* What makes NeverOvercharged inductive: a node is charged at most its own LM calls and those of
\* the children whose tails have run, and its real total covers its own and all its children's.
Added(n) == {c \in Children(n) : phase[c] = "done"}
Charged == \A n \in Nodes : cumulative[n] <= spent[n] + SumFunctionOnSet(spent, Added(n))
Covered == \A n \in Nodes : spent[n] + SumFunctionOnSet(spent, Children(n)) <= total[n]

\* Children are finitely many nodes, and none is its own child.
LEMMA ChildrenFinite ==
  ASSUME NEW n \in Nodes, NEW S \in SUBSET Children(n)
  PROVE  S \subseteq Nodes /\ IsFiniteSet(S) /\ n \notin S
<1>1. Children(n) \subseteq Nodes /\ n \notin Children(n)
  BY ParentDiffers DEF Children
<1> QED
  BY <1>1, TreeAssumption, FS_Subset

\* What children of a node have spent is a natural number.
LEMMA ChildrenSum ==
  ASSUME NEW f \in [Nodes -> Nat], NEW n \in Nodes, NEW S \in SUBSET Children(n)
  PROVE  SumFunctionOnSet(f, S) \in Nat
<1>1. IsFiniteSet(S) /\ \A c \in S : f[c] \in Nat
  BY ChildrenFinite
<1> QED
  BY <1>1, SumType

\* More of the children, which have spent more, have spent no less.
LEMMA ChildrenSumGrows ==
  ASSUME NEW f \in [Nodes -> Nat], NEW g \in [Nodes -> Nat], \A m \in Nodes : f[m] <= g[m],
         NEW n \in Nodes, NEW S \in SUBSET Children(n), NEW T \in SUBSET S
  PROVE  SumFunctionOnSet(f, T) <= SumFunctionOnSet(g, S)
<1>1. IsFiniteSet(S) /\ S \subseteq Nodes
  BY ChildrenFinite
<1>2. (\A c \in S : g[c] \in Nat) /\ (\A c \in T : f[c] \in Nat /\ f[c] <= g[c])
  BY <1>1
<1> QED
  BY <1>1, <1>2, SumMonotone

\* A unit spent is in the total of the node that spends it and in that of its parent.
LEMMA SpendCovers ==
  ASSUME TypeOK, Covered, NEW k \in Nodes, Spend(k)
  PROVE  Covered'
<1>1. spent \in [Nodes -> Nat] /\ total \in [Nodes -> Nat]
  BY DEF TypeOK
<1>2. spent' \in [Nodes -> Nat] /\ \A m \in Nodes : spent'[m] = IF m = k THEN spent[m] + 1 ELSE spent[m]
  BY <1>1 DEF Spend
<1>3. \A m \in Nodes : total'[m] = IF k \in Below[m] THEN total[m] + 1 ELSE total[m]
  BY DEF Spend, TotalUp
<1> SUFFICES ASSUME NEW n \in Nodes
             PROVE  spent'[n] + SumFunctionOnSet(spent', Children(n)) <= total'[n]
  BY DEF Covered
<1>4. /\ spent[n] + SumFunctionOnSet(spent, Children(n)) <= total[n]
      /\ SumFunctionOnSet(spent, Children(n)) \in Nat /\ spent[n] \in Nat /\ total[n] \in Nat
  BY <1>1, ChildrenSum DEF Covered
<1>5. Children(n) \subseteq Nodes /\ IsFiniteSet(Children(n)) /\ n \notin Children(n)
  BY ChildrenFinite
<1>6. CASE k \in Children(n)
  <2>1. k # n /\ k # Root /\ Parent[k] = n
    BY <1>5, <1>6 DEF Children
  <2>2. k \in Below[n]
    BY <2>1, TreeAssumption
  <2>3. SumFunctionOnSet(spent', Children(n)) = SumFunctionOnSet(spent, Children(n)) + 1
    <3>1. (\A c \in Children(n) : spent[c] \in Nat)
          /\ (\A c \in Children(n) \ {k} : spent'[c] = spent[c]) /\ spent'[k] = spent[k] + 1
      BY <1>1, <1>2, <1>5
    <3> QED
      BY <1>5, <1>6, <3>1, SumRaised
  <2>4. spent'[n] = spent[n] /\ total'[n] = total[n] + 1
    BY <1>2, <1>3, <2>1, <2>2
  <2> QED
    BY <1>4, <2>3, <2>4
<1>7. CASE k \notin Children(n)
  <2>1. SumFunctionOnSet(spent', Children(n)) = SumFunctionOnSet(spent, Children(n))
    <3>1. \A c \in Children(n) : spent[c] \in Nat /\ spent'[c] = spent[c]
      BY <1>1, <1>2, <1>5, <1>7
    <3> QED
      BY <1>5, <3>1, SumSame
  <2>2. CASE k = n
    <3>1. k \in Below[n]
      BY <2>2, TreeAssumption
    <3>2. spent'[n] = spent[n] + 1 /\ total'[n] = total[n] + 1
      BY <1>2, <1>3, <2>2, <3>1
    <3> QED
      BY <1>4, <2>1, <3>2
  <2>3. CASE k # n
    <3>1. spent'[n] = spent[n] /\ total'[n] >= total[n] /\ total'[n] \in Nat
      BY <1>2, <1>3, <1>4, <2>3
    <3> QED
      BY <1>4, <2>1, <3>1
  <2> QED
    BY <2>2, <2>3
<1> QED
  BY <1>6, <1>7

\* A unit the plain LM of a fallback spends only raises totals.
LEMMA TotalCovers ==
  ASSUME TypeOK, Covered, UNCHANGED spent, NEW k \in Nodes, TotalUp(k) \/ UNCHANGED total
  PROVE  Covered'
<1>0. total \in [Nodes -> Nat]
  BY DEF TypeOK
<1>1. \A n \in Nodes : total[n] \in Nat /\ total'[n] \in {total[n], total[n] + 1}
  BY <1>0 DEF TotalUp
<1> SUFFICES ASSUME NEW n \in Nodes
             PROVE  spent[n] + SumFunctionOnSet(spent, Children(n)) <= total'[n]
  BY DEF Covered
<1>2. SumFunctionOnSet(spent, Children(n)) \in Nat /\ spent[n] \in Nat
  BY ChildrenSum DEF TypeOK
<1>3. spent[n] + SumFunctionOnSet(spent, Children(n)) <= total[n]
  BY DEF Covered
<1> QED
  BY <1>1, <1>2, <1>3

\* What a node may be charged only grows, so leaving cumulativeCost alone, or putting the handler's
\* cost in its place, keeps it covered.
LEMMA StoreCharges ==
  ASSUME TypeOK, TypeOK', Charged, \A m \in Nodes : spent[m] <= spent'[m],
         \A m \in Nodes : phase[m] = "done" => phase'[m] = "done",
         \A m \in Nodes : cumulative'[m] = cumulative[m] \/ cumulative'[m] = spent[m]
  PROVE  Charged'
<1> SUFFICES ASSUME NEW n \in Nodes
             PROVE  cumulative'[n] <= spent'[n] + SumFunctionOnSet(spent', Added(n)')
  BY DEF Charged
<1>1. spent \in [Nodes -> Nat] /\ spent' \in [Nodes -> Nat]
  BY DEF TypeOK
<1>2. Added(n) \in SUBSET Added(n)' /\ Added(n)' \in SUBSET Children(n)
      /\ Added(n) \in SUBSET Children(n)
  BY DEF Added, Children
<1> DEFINE now1 == Added(n)'
           sum == SumFunctionOnSet(spent, Added(n))
           sum1 == SumFunctionOnSet(spent', now1)
<1>3. sum <= sum1
  <2> HIDE DEF now1
  <2> QED
    BY <1>1, <1>2, ChildrenSumGrows DEF now1
<1>4. sum \in Nat /\ sum1 \in Nat
  BY <1>1, <1>2, ChildrenSum
<1>5. cumulative[n] <= spent[n] + sum
  BY DEF Charged
<1>6. /\ cumulative[n] \in Nat /\ spent[n] \in Nat /\ spent'[n] \in Nat /\ spent[n] <= spent'[n]
      /\ cumulative'[n] = cumulative[n] \/ cumulative'[n] = spent[n]
  BY DEF TypeOK
<1> HIDE DEF sum, sum1
<1>7. cumulative'[n] <= spent'[n] + sum1
  BY <1>3, <1>4, <1>5, <1>6
<1> QED
  BY <1>7 DEF sum1

\* The tail of a sub-call charges its parent, and is then among those whose tails have run.
LEMMA AddCharges ==
  ASSUME TypeOK, Charged, NEW c \in Nodes \ {Root}, Add(c)
  PROVE  Charged'
<1> SUFFICES ASSUME NEW n \in Nodes
             PROVE  cumulative'[n] <= spent[n] + SumFunctionOnSet(spent, Added(n)')
  BY DEF Charged, Add, spending
<1>1. spent \in [Nodes -> Nat] /\ cumulative \in [Nodes -> Nat] /\ Parent[c] \in Nodes
  BY ParentDiffers DEF TypeOK
<1>2. /\ \A m \in Nodes : phase'[m] = IF m = c THEN "done" ELSE phase[m]
      /\ phase[c] = "adding"
  BY DEF Add, Respond, MoveTo, TypeOK
<1>3. Added(n) \in SUBSET Children(n) /\ Added(n)' \in SUBSET Children(n) /\ c \notin Added(n)
  BY <1>2 DEF Added
<1>4. Added(n)' = IF Parent[c] = n THEN Added(n) \cup {c} ELSE Added(n)
  BY <1>2 DEF Added, Children
<1>5. SumFunctionOnSet(spent, Added(n)) \in Nat /\ spent[n] \in Nat /\ spent[c] \in Nat
  BY <1>1, <1>3, ChildrenSum
<1>6. cumulative[n] <= spent[n] + SumFunctionOnSet(spent, Added(n)) /\ cumulative[n] \in Nat
  BY <1>1 DEF Charged
<1>7. cumulative'[n] = cumulative[n] \/ (Parent[c] = n /\ cumulative'[n] = cumulative[n] + spent[c])
  BY <1>1 DEF Add
<1>8. CASE Parent[c] = n
  <2>1. IsFiniteSet(Added(n)) /\ \A d \in Added(n) : spent[d] \in Nat
    BY <1>1, <1>3, ChildrenFinite
  <2>2. SumFunctionOnSet(spent, Added(n) \cup {c}) = SumFunctionOnSet(spent, Added(n)) + spent[c]
    BY <1>3, <1>5, <2>1, SumAdd
  <2>3. SumFunctionOnSet(spent, Added(n)') = SumFunctionOnSet(spent, Added(n)) + spent[c]
    BY <1>4, <1>8, <2>2
  <2> QED
    BY <1>5, <1>6, <1>7, <2>3
<1>9. CASE Parent[c] # n
  BY <1>4, <1>6, <1>7, <1>9
<1> QED
  BY <1>8, <1>9

\* At the start nothing is spent and no one is charged.
LEMMA ChargeInit == Init => Charged /\ Covered
<1> SUFFICES ASSUME Init PROVE Charged /\ Covered
  OBVIOUS
<1>1. spent \in [Nodes -> Nat] /\ \A n \in Nodes : spent[n] = 0 /\ cumulative[n] = 0 /\ total[n] = 0
  BY DEF Init
<1>2. ASSUME NEW n \in Nodes PROVE cumulative[n] <= spent[n] + SumFunctionOnSet(spent, Added(n))
  <2>1. Added(n) \in SUBSET Children(n)
    BY DEF Added
  <2>2. SumFunctionOnSet(spent, Added(n)) \in Nat
    BY <1>1, <2>1, ChildrenSum
  <2> QED
    BY <1>1, <2>2
<1>3. ASSUME NEW n \in Nodes PROVE spent[n] + SumFunctionOnSet(spent, Children(n)) <= total[n]
  <2>1. Units(spent, Children(n)) = {}
    <3>1. \A c \in Children(n) : spent[c] = 0
      BY <1>1, ChildrenFinite
    <3> QED
      BY <3>1 DEF Units
  <2>2. SumFunctionOnSet(spent, Children(n)) = 0
    <3>1. IsFiniteSet(Children(n)) /\ \A c \in Children(n) : spent[c] \in Nat
      BY <1>1, ChildrenFinite
    <3>2. SumFunctionOnSet(spent, Children(n)) = Cardinality(Units(spent, Children(n)))
      BY <3>1, SumIsUnits
    <3> QED
      BY <2>1, <3>2, FS_EmptySet
  <2> QED
    BY <1>1, <2>2
<1> QED
  BY <1>2, <1>3 DEF Charged, Covered

\* Every step keeps totals covering what is spent.
LEMMA CoverStep == TypeOK /\ Covered /\ [Next]_vars => Covered'
<1> SUFFICES ASSUME TypeOK, Covered, [Next]_vars PROVE Covered'
  OBVIOUS
<1> USE DEF spending
<1>1. CASE UNCHANGED spending
  BY <1>1 DEF Covered
<1>2. ASSUME NEW n \in Nodes, Step(n) \/ Ask(n) \/ AskPlain(n) \/ GiveUp(n) PROVE Covered'
  <2>1. CASE SetUp(n) \/ ExecReturn(n) \/ Continue(n) \/ Fail(n) \/ Gate(n) \/ Refuse(n) \/ Spawn(n)
             \/ Add(n) \/ Ask(n) \/ GiveUp(n)
    BY <1>1, <2>1 DEF SetUp, ExecReturn, Continue, Fail, Gate, Refuse, Spawn, Add, Ask, GiveUp
  <2>2. CASE ModelCall(n) \/ Succeed(n) \/ AskPlain(n)
    BY <1>1, <2>2, SpendCovers DEF ModelCall, Succeed, AskPlain
  <2>3. CASE Fallback(n)
    BY <2>3, TotalCovers DEF Fallback
  <2> QED
    BY <1>2, <2>1, <2>2, <2>3 DEF Step, Loop, Serve
<1>3. CASE Tick \/ UNCHANGED vars
  BY <1>1, <1>3 DEF Tick, vars
<1> QED
  BY <1>2, <1>3 DEF Next

\* A step moves no node back from the end of its sub-call.
LEMMA DoneStays ==
  ASSUME TypeOK, [Next]_vars, NEW m \in Nodes, phase[m] = "done"
  PROVE  phase'[m] = "done"
<1> USE DEF TypeOK, MoveTo, Respond
<1>1. CASE UNCHANGED phase
  BY <1>1
<1>2. ASSUME NEW n \in Nodes, Step(n) \/ Ask(n) \/ AskPlain(n) \/ GiveUp(n)
      PROVE  phase'[m] = "done"
  <2>1. CASE SetUp(n) \/ ModelCall(n) \/ ExecReturn(n) \/ Continue(n)
    BY <2>1 DEF SetUp, ModelCall, ExecReturn, Continue
  <2>2. CASE Succeed(n) \/ Fail(n)
    BY <2>2 DEF Succeed, Fail, End
  <2>3. CASE Gate(n) \/ Fallback(n) \/ Refuse(n) \/ Spawn(n) \/ Add(n)
    BY <2>3 DEF Gate, Fallback, Refuse, Spawn, Add
  <2>4. CASE Ask(n)
    BY <2>4 DEF Ask
  <2>5. CASE AskPlain(n)
    BY <2>5 DEF AskPlain
  <2>6. CASE GiveUp(n)
    BY <1>1, <2>6 DEF GiveUp
  <2> QED
    BY <1>2, <2>1, <2>2, <2>3, <2>4, <2>5, <2>6 DEF Step, Loop, Serve
<1>3. CASE Tick \/ UNCHANGED vars
  BY <1>1, <1>3 DEF Tick, vars
<1> QED
  BY <1>2, <1>3 DEF Next

\* No LM call is unmade.
LEMMA SpentGrows ==
  ASSUME TypeOK, [Next]_vars, NEW m \in Nodes
  PROVE  spent[m] <= spent'[m]
<1> USE DEF spending
<1>1. CASE UNCHANGED spent
  BY <1>1 DEF TypeOK
<1>2. ASSUME NEW n \in Nodes, Spend(n) PROVE spent[m] <= spent'[m]
  <2>1. spent \in [Nodes -> Nat] /\ spent' = [spent EXCEPT ![n] = @ + 1]
    BY <1>2 DEF TypeOK, Spend
  <2> QED
    BY <2>1
<1>3. ASSUME NEW n \in Nodes, Step(n) \/ Ask(n) \/ AskPlain(n) \/ GiveUp(n)
      PROVE  UNCHANGED spent \/ Spend(n)
  BY <1>3 DEF Step, Loop, Serve, SetUp, ModelCall, ExecReturn, Continue, Succeed, Fail, Gate,
              Fallback, Refuse, Spawn, Add, Ask, AskPlain, GiveUp
<1>4. CASE Tick \/ UNCHANGED vars
  BY <1>1, <1>4 DEF Tick, vars
<1> QED
  BY <1>1, <1>2, <1>3, <1>4 DEF Next

\* Every step charges a node no more than it may be.
LEMMA ChargeStep == TypeOK /\ Charged /\ [Next]_vars => Charged'
<1> SUFFICES ASSUME TypeOK, Charged, [Next]_vars PROVE Charged'
  OBVIOUS
<1> USE DEF fields
<1>1. ASSUME \A m \in Nodes : cumulative'[m] = cumulative[m] \/ cumulative'[m] = spent[m]
      PROVE  Charged'
  BY <1>1, TypeStep, SpentGrows, DoneStays, StoreCharges
<1>2. CASE UNCHANGED cumulative
  BY <1>1, <1>2
<1>3. ASSUME NEW n \in Nodes, StoreCost(n) PROVE Charged'
  <2>1. cumulative \in [Nodes -> Nat]
    BY DEF TypeOK
  <2>2. \A m \in Nodes : cumulative'[m] = cumulative[m] \/ cumulative'[m] = spent[m]
    BY <1>3, <2>1 DEF StoreCost
  <2> QED
    BY <1>1, <2>2
<1>4. ASSUME NEW n \in Nodes, Step(n) \/ Ask(n) \/ AskPlain(n) \/ GiveUp(n) PROVE Charged'
  <2>1. CASE n # Root /\ Add(n)
    BY <2>1, AddCharges
  <2>2. CASE Continue(n) \/ Succeed(n) \/ Fail(n)
    BY <1>2, <1>3, <2>2 DEF Continue, Succeed, Fail
  <2>3. CASE SetUp(n) \/ ModelCall(n) \/ ExecReturn(n) \/ Gate(n) \/ Fallback(n) \/ Refuse(n)
             \/ Spawn(n) \/ Ask(n) \/ AskPlain(n) \/ GiveUp(n)
    BY <1>2, <2>3 DEF SetUp, ModelCall, ExecReturn, Gate, Fallback, Refuse, Spawn, Ask, AskPlain,
                      GiveUp
  <2> QED
    BY <1>4, <2>1, <2>2, <2>3 DEF Step, Loop, Serve
<1>5. CASE Tick \/ UNCHANGED vars
  BY <1>2, <1>5 DEF Tick, vars
<1> QED
  BY <1>4, <1>5 DEF Next

\* No node of any tree is ever charged more than what it and all below it have spent, however the
\* checks of its limits and the tails of its sub-calls, late ones too, are interleaved.
THEOREM Charges == Spec => []NeverOvercharged
<1>1. TypeOK /\ Charged /\ Covered => NeverOvercharged
  <2> SUFFICES ASSUME TypeOK, Charged, Covered, NEW n \in Nodes PROVE cumulative[n] <= total[n]
    BY DEF NeverOvercharged
  <2>1. spent \in [Nodes -> Nat] /\ cumulative[n] \in Nat /\ total[n] \in Nat /\ spent[n] \in Nat
    BY DEF TypeOK
  <2>2. Added(n) \in SUBSET Children(n) /\ Children(n) \in SUBSET Children(n)
    BY DEF Added
  <2>3. SumFunctionOnSet(spent, Added(n)) <= SumFunctionOnSet(spent, Children(n))
    BY <2>1, <2>2, ChildrenSumGrows
  <2>4. SumFunctionOnSet(spent, Added(n)) \in Nat /\ SumFunctionOnSet(spent, Children(n)) \in Nat
    BY <2>1, <2>2, ChildrenSum
  <2> QED
    BY <2>1, <2>3, <2>4 DEF Charged, Covered
<1> QED
  BY <1>1, InitType, TypeStep, ChargeInit, CoverStep, ChargeStep, PTL DEF Spec
=============================================================================
