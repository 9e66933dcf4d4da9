----------------------------- MODULE TurnProofs ------------------------------
(***************************************************************************)
(* Machine-checked proofs about Turn, for every value of its constants:    *)
(* what the code of a block is told of the prompts it asks, what           *)
(* FindCodeBlocks finds in any response, the types, the transcript, and    *)
(* the calls a block reports.                                              *)
(***************************************************************************)
EXTENDS Turn, SequenceTheorems, FiniteSetTheorems, WellFoundedInduction, TLAPS

\* What makes EveryPromptAnswered inductive: the two sequences are sequences.
AskedInv ==
  /\ asked \in Seq(PromptKinds) /\ got \in Seq(Calls)
  /\ EveryPromptAnswered

\* What code is told of prompt k of those asked, when it is answered and when it is not.
Fits(call, prompts, k) ==
  call.prompt = prompts[k] /\ (call.outcome # "exception" => call.to = k)

\* A query is a sequence of prompts.
LEMMA QueryType == ASSUME NEW q \in Queries PROVE q \in Seq(PromptKinds)
<1>1. PICK n \in 1..BatchBound : q \in [1..n -> PromptKinds]
  BY DEF Queries
<1>2. n \in Nat
  BY SizesAssumption
<1> QED
  BY <1>1, <1>2, SeqDef

\* Sequences aligned place by place stay so when aligned sequences are appended to both.
LEMMA AlignedConcat ==
  ASSUME NEW P, NEW prompts \in Seq(P), NEW more \in Seq(P),
         NEW C, NEW told \in Seq(C), NEW news \in Seq(C),
         Len(told) = Len(prompts), \A k \in DOMAIN told : Fits(told[k], prompts, k),
         Len(news) = Len(more),
         \A k \in DOMAIN news : /\ news[k].prompt = more[k]
                                /\ news[k].outcome # "exception" => news[k].to = Len(prompts) + k
  PROVE  /\ told \o news \in Seq(C) /\ prompts \o more \in Seq(P)
         /\ Len(told \o news) = Len(prompts \o more)
         /\ \A k \in DOMAIN (told \o news) : Fits((told \o news)[k], prompts \o more, k)
<1>1. /\ told \o news \in Seq(C)
      /\ Len(told \o news) = Len(told) + Len(news)
      /\ \A i \in 1..(Len(told) + Len(news)) :
           (told \o news)[i] = IF i <= Len(told) THEN told[i] ELSE news[i - Len(told)]
  <2>1. told \o news \in Seq(C)
    BY ConcatProperties
  <2>2. Len(told \o news) = Len(told) + Len(news)
    BY ConcatProperties
  <2>3. \A i \in 1..(Len(told) + Len(news)) :
           (told \o news)[i] = IF i <= Len(told) THEN told[i] ELSE news[i - Len(told)]
    BY ConcatProperties
  <2> QED
    BY <2>1, <2>2, <2>3
<1>2. /\ prompts \o more \in Seq(P)
      /\ Len(prompts \o more) = Len(prompts) + Len(more)
      /\ \A i \in 1..(Len(prompts) + Len(more)) :
           (prompts \o more)[i] = IF i <= Len(prompts) THEN prompts[i] ELSE more[i - Len(prompts)]
  BY ConcatProperties
<1>3. /\ DOMAIN (told \o news) = 1..(Len(told) + Len(news))
      /\ DOMAIN told = 1..Len(told) /\ DOMAIN news = 1..Len(news)
      /\ Len(told) \in Nat /\ Len(news) \in Nat
  BY <1>1, LenProperties
<1>4. ASSUME NEW k \in DOMAIN (told \o news) PROVE Fits((told \o news)[k], prompts \o more, k)
  <2>0. k \in Int /\ k >= 1 /\ k <= Len(told) + Len(news)
    BY <1>3
  <2>1. CASE k <= Len(told)
    <3>1. k \in DOMAIN told
      BY <1>3, <2>0, <2>1
    <3>2. (told \o news)[k] = told[k] /\ (prompts \o more)[k] = prompts[k]
      BY <1>1, <1>2, <1>3, <2>0, <2>1
    <3> QED
      BY <3>1, <3>2 DEF Fits
  <2>2. CASE k > Len(told)
    <3>1. k - Len(told) \in DOMAIN news
      BY <1>3, <2>0, <2>2
    <3>2. /\ (told \o news)[k] = news[k - Len(told)]
          /\ (prompts \o more)[k] = more[k - Len(told)]
      BY <1>1, <1>2, <1>3, <2>0, <2>2
    <3>3. Len(prompts) + (k - Len(told)) = k
      BY <1>3, <2>0
    <3> QED
      BY <3>1, <3>2, <3>3 DEF Fits
  <2> QED
    BY <1>3, <2>0, <2>1, <2>2
<1> QED
  BY <1>1, <1>2, <1>4

\* What an answered query tells of its prompts: of each the reply to it, at its place.
LEMMA RepliesFit ==
  ASSUME NEW q \in Queries, NEW n \in Nat, NEW outcomes \in [DOMAIN q -> {"content", "error"}]
  PROVE  LET replies == [k \in DOMAIN q |-> Replied(n + k, q[k], outcomes[k])]
         IN  /\ replies \in Seq(Calls) /\ Len(replies) = Len(q)
             /\ \A k \in DOMAIN replies : replies[k].prompt = q[k] /\ replies[k].to = n + k
<1> DEFINE replies == [k \in DOMAIN q |-> Replied(n + k, q[k], outcomes[k])]
<1>1. q \in Seq(PromptKinds)
  BY QueryType
<1>2. DOMAIN q = 1..Len(q) /\ Len(q) \in Nat /\ \A k \in DOMAIN q : q[k] \in PromptKinds
  BY <1>1, LenProperties, ElementOfSeq
<1>3. \A k \in DOMAIN q : replies[k] \in Calls /\ replies[k].prompt = q[k] /\ replies[k].to = n + k
  BY <1>2 DEF Replied, Calls
<1>4. replies \in [1..Len(q) -> Calls]
  BY <1>2, <1>3
<1>5. replies \in Seq(Calls) /\ Len(replies) = Len(q)
  BY <1>2, <1>4, SeqDef, LenProperties
<1> QED
  BY <1>3, <1>5

\* What an exception tells of them: of each that it was not answered.
LEMMA ExceptionsFit ==
  ASSUME NEW q \in Queries
  PROVE  /\ ExceptionResults(q) \in Seq(Calls) /\ Len(ExceptionResults(q)) = Len(q)
         /\ \A k \in DOMAIN ExceptionResults(q) :
              /\ ExceptionResults(q)[k].prompt = q[k]
              /\ ExceptionResults(q)[k].outcome = "exception"
<1>1. q \in Seq(PromptKinds)
  BY QueryType
<1>2. DOMAIN q = 1..Len(q) /\ Len(q) \in Nat /\ \A k \in DOMAIN q : q[k] \in PromptKinds
  BY <1>1, LenProperties, ElementOfSeq
<1>3. /\ DOMAIN ExceptionResults(q) = DOMAIN q
      /\ \A k \in DOMAIN q : /\ ExceptionResults(q)[k] \in Calls
                             /\ ExceptionResults(q)[k].prompt = q[k]
                             /\ ExceptionResults(q)[k].outcome = "exception"
  BY <1>2 DEF ExceptionResults, Unanswered, Calls
<1>4. ExceptionResults(q) \in [1..Len(q) -> Calls]
  BY <1>2, <1>3 DEF ExceptionResults
<1>5. ExceptionResults(q) \in Seq(Calls) /\ Len(ExceptionResults(q)) = Len(q)
  BY <1>2, <1>4, SeqDef, LenProperties
<1> QED
  BY <1>3, <1>5

\* At the start of a process nothing is asked.
LEMMA NothingAsked == asked = <<>> /\ got = <<>> => AskedInv
<1>1. <<>> \in Seq(PromptKinds) /\ <<>> \in Seq(Calls)
  BY EmptySeq
<1> QED
  BY <1>1 DEF AskedInv, EveryPromptAnswered

\* Every step keeps the two sequences aligned.
LEMMA AskedStep == AskedInv /\ [Next]_vars => AskedInv'
<1> SUFFICES ASSUME AskedInv, [Next]_vars PROVE AskedInv'
  OBVIOUS
<1>a. \A k \in DOMAIN got : Fits(got[k], asked, k)
  BY DEF AskedInv, EveryPromptAnswered, Fits
<1>b. ASSUME got' \in Seq(Calls), asked' \in Seq(PromptKinds), Len(got') = Len(asked'),
             \A k \in DOMAIN got' : Fits(got'[k], asked', k)
      PROVE  AskedInv'
  BY <1>b DEF AskedInv, EveryPromptAnswered, Fits
<1>c. Len(asked) \in Nat /\ got \in Seq(Calls) /\ asked \in Seq(PromptKinds)
      /\ Len(got) = Len(asked)
  BY LenProperties DEF AskedInv, EveryPromptAnswered
<1>d. UNCHANGED <<asked, got>> => AskedInv'
  BY DEF AskedInv, EveryPromptAnswered
<1>e. ProcessEnds => AskedInv'
  <2>1. <<>> \in Seq(PromptKinds) /\ <<>> \in Seq(Calls)
    BY EmptySeq
  <2> QED
    BY <2>1 DEF ProcessEnds, AskedInv, EveryPromptAnswered
<1>r. CASE \E prompt \in PromptKinds : QueryRaises(prompt)
  BY <1>r, <1>d DEF QueryRaises, script
<1>1. CASE StartTurn \/ ModelReply \/ StartBlock \/ EndTurn \/ DefaultAnswer
  BY <1>1, <1>d DEF StartTurn, ModelReply, StartBlock, EndTurn, DefaultAnswer, script
<1>2. CASE EndBlock \/ BlockDies
  BY <1>2, <1>e DEF EndBlock, BlockDies
<1>3. ASSUME NEW q \in Queries, QueryException(q) PROVE AskedInv'
  <2>1. q \in Seq(PromptKinds)
    BY QueryType
  <2>2. got' = got \o ExceptionResults(q) /\ asked' = asked \o q
    BY <1>3 DEF QueryException
  <2>3. /\ got \o ExceptionResults(q) \in Seq(Calls) /\ asked \o q \in Seq(PromptKinds)
        /\ Len(got \o ExceptionResults(q)) = Len(asked \o q)
        /\ \A k \in DOMAIN (got \o ExceptionResults(q)) :
             Fits((got \o ExceptionResults(q))[k], asked \o q, k)
    BY <1>a, <1>c, <2>1, ExceptionsFit, AlignedConcat
  <2> QED
    BY <1>b, <2>2, <2>3
<1>4. ASSUME NEW q \in Queries, NEW outcomes \in [DOMAIN q -> {"content", "error"}],
             QueryAnswered(q, outcomes)
      PROVE  AskedInv'
  <2> DEFINE replies == [k \in DOMAIN q |-> Replied(Len(asked) + k, q[k], outcomes[k])]
  <2>1. q \in Seq(PromptKinds)
    BY QueryType
  <2>2. got' = got \o replies /\ asked' = asked \o q
    BY <1>4 DEF QueryAnswered
  <2>3. /\ replies \in Seq(Calls) /\ Len(replies) = Len(q)
        /\ \A k \in DOMAIN replies : replies[k].prompt = q[k] /\ replies[k].to = Len(asked) + k
    BY <1>c, RepliesFit
  <2> HIDE DEF replies
  <2>4. /\ got \o replies \in Seq(Calls) /\ asked \o q \in Seq(PromptKinds)
        /\ Len(got \o replies) = Len(asked \o q)
        /\ \A k \in DOMAIN (got \o replies) : Fits((got \o replies)[k], asked \o q, k)
    BY <1>a, <1>c, <2>1, <2>3, AlignedConcat
  <2> QED
    BY <1>b, <2>2, <2>4
<1>5. CASE \E a \in Answers \cup {NoAnswer} : SubmitAnswer(a)
  BY <1>5, <1>d DEF SubmitAnswer
<1>6. CASE UNCHANGED vars
  BY <1>6, <1>d DEF vars
<1> QED
  BY <1>r, <1>1, <1>2, <1>3, <1>4, <1>5, <1>6 DEF Next

\* Of every query that returns code is told one thing of each prompt, whatever the query meets: for
\* queries of any size, of any kinds of prompts, in any number.
THEOREM Answered == Spec => []EveryPromptAnswered
<1>1. Init => AskedInv
  BY NothingAsked DEF Init
<1>2. AskedInv => EveryPromptAnswered
  BY DEF AskedInv
<1> QED
  BY <1>1, <1>2, AskedStep, PTL DEF Spec

----------------------------------------------------------------------------
(* Numbers *)

\* A non-empty set of numbers has a least element.
LEMMA Least ==
  ASSUME NEW T, T \subseteq Nat, T # {}
  PROVE  \E k \in T : \A j \in T : k <= j
<1> DEFINE R == OpToRel(<, Nat)
<1>1. IsWellFoundedOn(R, Nat)
  BY NatLessThanWellFounded
<1>2. \A j, k \in Nat : j < k => <<j, k>> \in R
  BY DEF OpToRel
<1> HIDE DEF R
<1>3. PICK k \in T : \A j \in T : <<j, k>> \notin R
  BY <1>1, WFMin
<1>4. \A j \in T : j \in Nat /\ k \in Nat /\ ~(j < k)
  BY <1>2, <1>3
<1>5. \A j \in T : k <= j
  BY <1>4
<1> QED
  BY <1>5

\* What holds of zero and of the successor of each number it holds of, holds of all.
LEMMA Induction ==
  ASSUME NEW S, 0 \in S, \A n \in Nat : n \in S => n + 1 \in S
  PROVE  \A n \in Nat : n \in S
<1> DEFINE T == {n \in Nat : n \notin S}
<1>1. SUFFICES ASSUME T # {} PROVE FALSE
  OBVIOUS
<1>2. PICK k \in T : \A j \in T : k <= j
  <2> T \subseteq Nat
    OBVIOUS
  <2> HIDE DEF T
  <2> QED
    BY <1>1, Least
<1>3. k # 0 /\ k \in Nat
  OBVIOUS
<1>4. k - 1 \in Nat /\ k - 1 \notin T
  BY <1>2, <1>3
<1>5. (k - 1) + 1 \in S
  BY <1>4
<1> QED
  BY <1>3, <1>5

\* The least and the greatest of a bounded set of numbers are in it.
LEMMA MinMax ==
  ASSUME NEW S, S # {}, NEW b \in Nat, S \subseteq 1..b
  PROVE  /\ Min(S) \in S /\ \A x \in S : Min(S) <= x
         /\ Max(S) \in S /\ \A x \in S : x <= Max(S)
<1>1. S \subseteq Nat
  OBVIOUS
<1>2. \E k \in S : \A x \in S : k <= x
  BY <1>1, Least
<1>3. \E k \in S : \A x \in S : x <= k
  <2> DEFINE T == {b - x : x \in S}
  <2>1. T \subseteq Nat /\ T # {}
    <3>1. \A x \in S : x \in 1..b /\ b - x \in Nat
      OBVIOUS
    <3> QED
      BY <3>1
  <2>2. PICK t \in T : \A u \in T : t <= u
    <3> HIDE DEF T
    <3> QED
      BY <2>1, Least
  <2>3. PICK k \in S : t = b - k
    BY <2>2
  <2>4. ASSUME NEW x \in S PROVE x <= k
    <3>1. b - x \in T /\ x \in Nat /\ k \in Nat
      BY <1>1
    <3>2. b - k <= b - x
      BY <2>2, <2>3, <3>1
    <3> QED
      BY <3>1, <3>2
  <2> QED
    BY <2>4
<1> QED
  BY <1>2, <1>3 DEF Min, Max

\* Of two numbers the lesser.
LEMMA MinOfTwo ==
  ASSUME NEW a \in Nat, NEW b \in Nat
  PROVE  Min({a, b}) \in Nat /\ Min({a, b}) <= b
<1>1. \E x \in {a, b} : \A y \in {a, b} : x <= y
  <2>1. CASE a <= b
    BY <2>1
  <2>2. CASE b <= a
    BY <2>2
  <2> QED
    BY <2>1, <2>2
<1> QED
  BY <1>1 DEF Min

----------------------------------------------------------------------------
(* Sequences put together *)

\* FlattenSeq appends one sequence after the other: its value is the last of a row of prefixes.
IsPrefixRow(f, seqs) == f[0] = <<>> /\ \A k \in 1..Len(seqs) : f[k] = f[k - 1] \o seqs[k]

LEMMA Flattened ==
  ASSUME NEW S, NEW seqs \in Seq(Seq(S))
  PROVE  \E f \in [0..Len(seqs) -> Seq(S)] : IsPrefixRow(f, seqs) /\ FlattenSeq(seqs) = f[Len(seqs)]
<1> DEFINE n == Len(seqs)
           Row(h, i) == IF i = 1 THEN seqs[i] ELSE h[i - 1] \o seqs[i]
           IsFlatten(h) == h = [i \in 1..n |-> Row(h, i)]
           flatten == CHOOSE h : IsFlatten(h)
           Part(m) == \E h : h = [i \in 1..m |-> Row(h, i)]
<1>1. n \in Nat /\ \A i \in 1..n : seqs[i] \in Seq(S)
  BY LenProperties, ElementOfSeq
<1>2. n # 0 => FlattenSeq(seqs) = flatten[n]
  BY DEF FlattenSeq
<1>3. Part(n)
  <2> DEFINE P == {m \in Nat : m <= n => Part(m)}
  <2>1. 0 \in P
    <3>1. <<>> = [i \in 1..0 |-> Row(<<>>, i)]
      OBVIOUS
    <3> QED
      BY <3>1
  <2>2. ASSUME NEW m \in Nat, m \in P PROVE m + 1 \in P
    <3> HIDE DEF Part
    <3>1. SUFFICES ASSUME m + 1 <= n PROVE Part(m + 1)
      OBVIOUS
    <3>a. Part(m)
      BY <1>1, <2>2, <3>1
    <3> USE DEF Part
    <3>2. PICK h : h = [i \in 1..m |-> Row(h, i)]
      BY <3>a
    <3> DEFINE last == Row(h, m + 1)
               g == [i \in 1..(m + 1) |-> IF i = m + 1 THEN last ELSE h[i]]
    <3> HIDE DEF last
    <3>3. \A i \in 1..m : g[i] = h[i]
      OBVIOUS
    <3>4. ASSUME NEW i \in 1..(m + 1) PROVE g[i] = Row(g, i)
      <4>1. i = 1 \/ i - 1 \in 1..m
        OBVIOUS
      <4>2. Row(g, i) = Row(h, i)
        BY <3>3, <4>1
      <4>3. CASE i = m + 1
        BY <4>2, <4>3 DEF last
      <4>4. CASE i # m + 1
        <5>1. i \in 1..m
          BY <4>4
        <5> QED
          BY <3>2, <3>3, <4>2, <5>1
      <4> QED
        BY <4>3, <4>4
    <3> HIDE DEF Row
    <3>5. g = [i \in 1..(m + 1) |-> Row(g, i)]
      BY <3>4
    <3> QED
      BY <3>5
  <2> HIDE DEF P, Part
  <2>3. n \in P
    BY <1>1, <2>1, <2>2, Induction
  <2> QED
    BY <1>1, <2>3 DEF P
<1>4. IsFlatten(flatten)
  <2>1. \E h : IsFlatten(h)
    BY <1>3
  <2> HIDE DEF IsFlatten
  <2> QED
    BY <2>1
<1> HIDE DEF flatten
<1>5. \A i \in 1..n : flatten[i] = Row(flatten, i)
  BY <1>4
<1>6. \A k \in Nat : k \in {m \in Nat : m \in 1..n => flatten[m] \in Seq(S)}
  <2> DEFINE P == {m \in Nat : m \in 1..n => flatten[m] \in Seq(S)}
  <2>1. 0 \in P
    OBVIOUS
  <2>2. ASSUME NEW m \in Nat, m \in P PROVE m + 1 \in P
    <3>1. SUFFICES ASSUME m + 1 \in 1..n PROVE flatten[m + 1] \in Seq(S)
      OBVIOUS
    <3>2. m + 1 # 1 => m \in 1..n
      BY <3>1
    <3>3. flatten[m + 1] = IF m + 1 = 1 THEN seqs[m + 1] ELSE flatten[m] \o seqs[m + 1]
      BY <1>5, <3>1
    <3>4. m + 1 # 1 => flatten[m] \in Seq(S)
      BY <2>2, <3>2
    <3> QED
      BY <1>1, <3>1, <3>3, <3>4, ConcatProperties
  <2> HIDE DEF P
  <2> QED
    BY <2>1, <2>2, Induction DEF P
<1> DEFINE f == [k \in 0..n |-> IF k = 0 THEN <<>> ELSE flatten[k]]
<1>7. f \in [0..n -> Seq(S)]
  <2>1. \A k \in 0..n : k # 0 => flatten[k] \in Seq(S)
    BY <1>1, <1>6
  <2> QED
    BY <2>1, EmptySeq
<1>8. f[0] = <<>>
  BY <1>1
<1>9. ASSUME NEW k \in 1..n PROVE f[k] = f[k - 1] \o seqs[k]
  <2>1. f[k] = Row(flatten, k)
    BY <1>1, <1>5
  <2>2. CASE k = 1
    <3>1. f[k - 1] = <<>> /\ f[k] = seqs[k]
      BY <1>8, <2>1, <2>2
    <3> QED
      BY <1>1, <3>1, ConcatEmptySeq
  <2>3. CASE k # 1
    <3>1. f[k - 1] = flatten[k - 1]
      BY <1>1, <2>3
    <3> QED
      BY <2>1, <2>3, <3>1
  <2> QED
    BY <2>2, <2>3
<1>10. FlattenSeq(seqs) = f[n]
  <2>1. CASE n = 0
    <3>1. seqs = <<>>
      BY <2>1, EmptySeq
    <3> QED
      BY <1>8, <2>1, <3>1 DEF FlattenSeq
  <2>2. CASE n # 0
    BY <1>1, <1>2, <2>2
  <2> QED
    BY <2>1, <2>2
<1> HIDE DEF f
<1> QED
  BY <1>7, <1>8, <1>9, <1>10 DEF IsPrefixRow

----------------------------------------------------------------------------
(* The blocks of a response *)

\* Where the block that an opening line opens begins and ends.
LEMMA MatchBounds ==
  ASSUME NEW L, NEW doc \in Seq(L), NEW i \in 1..Len(doc), Matches(doc, i)
  PROVE  /\ ContentStart(doc, i) \in Closed(doc, i)
         /\ \A s \in Closed(doc, i) : s <= ContentStart(doc, i)
         /\ ContentEnd(doc, i) \in Ends(doc, ContentStart(doc, i))
         /\ \A e \in Ends(doc, ContentStart(doc, i)) : ContentEnd(doc, i) <= e
         /\ ContentStart(doc, i) \in (i + 1)..Len(doc)
         /\ ContentEnd(doc, i) \in (ContentStart(doc, i) + 1)..Len(doc)
<1> DEFINE start == ContentStart(doc, i)
           end == ContentEnd(doc, i)
<1>1. Len(doc) \in Nat /\ DOMAIN doc = 1..Len(doc)
  BY LenProperties
<1>2. Closed(doc, i) \subseteq (i + 1)..Len(doc) /\ Closed(doc, i) # {}
  BY DEF Closed, Starts, Matches
<1>3. Closed(doc, i) \subseteq 1..Len(doc)
  BY <1>1, <1>2
<1>4. start \in Closed(doc, i) /\ \A s \in Closed(doc, i) : s <= start
  BY <1>1, <1>2, <1>3, MinMax DEF ContentStart
<1> HIDE DEF start
<1>5. Ends(doc, start) # {} /\ Ends(doc, start) \subseteq 1..Len(doc)
      /\ \A e \in Ends(doc, start) : e > start
  BY <1>1, <1>4 DEF Closed, Ends
<1>6. Min(Ends(doc, start)) \in Ends(doc, start)
      /\ \A e \in Ends(doc, start) : Min(Ends(doc, start)) <= e
  BY <1>1, <1>5, MinMax
<1>7. end = Min(Ends(doc, start))
  BY DEF ContentEnd, start
<1> HIDE DEF end
<1>8. start \in (i + 1)..Len(doc)
  BY <1>2, <1>4
<1>9. end \in (start + 1)..Len(doc)
  BY <1>1, <1>5, <1>6, <1>7, <1>8
<1> QED
  BY <1>4, <1>6, <1>7, <1>8, <1>9 DEF start, end

\* Trimming lines leaves lines.
LEMMA TrimType == ASSUME NEW L, NEW lines \in Seq(L) PROVE TrimSpace(lines) \in Seq(L)
<1> DEFINE text == {k \in DOMAIN lines : lines[k] # Blank}
<1>1. Len(lines) \in Nat /\ DOMAIN lines = 1..Len(lines)
  BY LenProperties
<1>2. CASE text = {}
  BY <1>2, EmptySeq DEF TrimSpace
<1>3. CASE text # {}
  <2>1. text \subseteq 1..Len(lines)
    BY <1>1
  <2> HIDE DEF text
  <2>2. Min(text) \in 1..Len(lines) /\ Max(text) \in 1..Len(lines)
    BY <1>1, <1>3, <2>1, MinMax
  <2>3. \A k \in Min(text)..Max(text) : lines[k] \in L
    BY <1>1, <2>2, ElementOfSeq
  <2>4. SubSeq(lines, Min(text), Max(text)) \in Seq(L)
    BY <2>2, <2>3, SubSeqProperties
  <2> QED
    BY <1>3, <2>4 DEF TrimSpace, text
<1> QED
  BY <1>2, <1>3

\* The block an opening line opens.
BlockAt(doc, i) == TrimSpace(SubSeq(doc, ContentStart(doc, i), ContentEnd(doc, i) - 1))

LEMMA BlockType ==
  ASSUME NEW L, NEW doc \in Seq(L), NEW i \in 1..Len(doc), Matches(doc, i)
  PROVE  BlockAt(doc, i) \in Seq(L)
<1>1. ContentStart(doc, i) \in (i + 1)..Len(doc)
      /\ ContentEnd(doc, i) \in (ContentStart(doc, i) + 1)..Len(doc)
  BY MatchBounds
<1>2. \A k \in ContentStart(doc, i)..(ContentEnd(doc, i) - 1) : doc[k] \in L
  BY <1>1, ElementOfSeq
<1>3. SubSeq(doc, ContentStart(doc, i), ContentEnd(doc, i) - 1) \in Seq(L)
  BY <1>1, <1>2, SubSeqProperties
<1> QED
  BY <1>3, TrimType DEF BlockAt

\* The blocks found from a line on: none after the last line; from a line that opens a block, that
\* block and those found after its end; from any other line, those found from the next.
FoundFrom(h, doc) ==
  /\ h[Len(doc) + 1] = <<>>
  /\ \A i \in 1..Len(doc) :
       h[i] = IF Matches(doc, i) THEN <<BlockAt(doc, i)>> \o h[ContentEnd(doc, i) + 1]
              ELSE h[i + 1]

LEMMA Found ==
  ASSUME NEW L, NEW doc \in Seq(L)
  PROVE  \E h \in [1..(Len(doc) + 1) -> Seq(Seq(L))] :
           FoundFrom(h, doc) /\ FindCodeBlocks(doc) = h[1]
<1> DEFINE n == Len(doc) + 1
           Row(h, i) == IF i > Len(doc) THEN <<>>
                        ELSE IF Matches(doc, i)
                          THEN <<BlockAt(doc, i)>> \o h[ContentEnd(doc, i) + 1]
                        ELSE h[i + 1]
           IsFrom(h) == h = [i \in 1..n |-> Row(h, i)]
           from == CHOOSE h : IsFrom(h)
           Part(m) == \E h : h = [i \in (n - m)..n |-> Row(h, i)]
<1>1. Len(doc) \in Nat /\ n \in Nat /\ n >= 1
  BY LenProperties
<1>2. FindCodeBlocks(doc) = from[1]
  BY DEF FindCodeBlocks, BlockAt
<1>3. \A i \in 1..Len(doc) : Matches(doc, i) => ContentEnd(doc, i) + 1 \in (i + 1)..n
  <2> SUFFICES ASSUME NEW i \in 1..Len(doc), Matches(doc, i)
               PROVE  ContentEnd(doc, i) + 1 \in (i + 1)..n
    OBVIOUS
  <2>1. ContentStart(doc, i) \in (i + 1)..Len(doc)
        /\ ContentEnd(doc, i) \in (ContentStart(doc, i) + 1)..Len(doc)
    BY MatchBounds
  <2> QED
    BY <1>1, <2>1
<1>4. Part(n - 1)
  <2> DEFINE P == {m \in Nat : m <= n - 1 => Part(m)}
  <2>1. 0 \in P
    <3> DEFINE g == [i \in n..n |-> <<>>]
    <3>1. \A i \in n..n : g[i] = Row(g, i)
      BY <1>1
    <3>2. g = [i \in (n - 0)..n |-> Row(g, i)]
      BY <1>1, <3>1
    <3> QED
      BY <3>2
  <2>2. ASSUME NEW m \in Nat, m \in P PROVE m + 1 \in P
    <3> HIDE DEF Part
    <3>1. SUFFICES ASSUME m + 1 <= n - 1 PROVE Part(m + 1)
      OBVIOUS
    <3>2. Part(m)
      BY <1>1, <2>2, <3>1
    <3> USE DEF Part
    <3>3. PICK h : h = [i \in (n - m)..n |-> Row(h, i)]
      BY <3>2
    <3> DEFINE k == n - (m + 1)
               first == Row(h, k)
               g == [i \in k..n |-> IF i = k THEN first ELSE h[i]]
    <3> HIDE DEF first
    <3>4. k \in 1..Len(doc) /\ \A i \in k..n : i = k \/ i \in (n - m)..n
      BY <1>1, <3>1
    <3>5. \A i \in (n - m)..n : i \in k..n /\ i # k
      BY <1>1, <3>1
    <3>6. \A i \in (n - m)..n : g[i] = h[i]
      BY <3>5
    <3>7. ASSUME NEW i \in k..n PROVE Row(g, i) = Row(h, i)
      <4>1. i \in Int /\ i >= 1 /\ i <= n
        BY <1>1, <3>4
      <4>2. CASE i > Len(doc)
        BY <4>2
      <4>3. CASE i <= Len(doc)
        <5>1. i \in 1..Len(doc) /\ i + 1 \in (n - m)..n
          BY <1>1, <3>1, <4>1, <4>3
        <5>2. Matches(doc, i) => ContentEnd(doc, i) + 1 \in (n - m)..n
          <6>1. SUFFICES ASSUME Matches(doc, i) PROVE ContentEnd(doc, i) + 1 \in (n - m)..n
            OBVIOUS
          <6>2. ContentEnd(doc, i) + 1 \in (i + 1)..n
            BY <1>3, <5>1, <6>1
          <6> QED
            BY <1>1, <5>1, <6>2
        <5> QED
          BY <3>6, <5>1, <5>2
      <4> QED
        BY <1>1, <4>1, <4>2, <4>3
    <3>8. ASSUME NEW i \in k..n PROVE g[i] = Row(h, i)
      <4>1. CASE i = k
        BY <4>1 DEF first
      <4>2. CASE i # k
        <5>1. i \in (n - m)..n
          BY <3>4, <4>2
        <5> HIDE DEF Row
        <5>2. h[i] = Row(h, i)
          BY <3>3, <5>1
        <5> QED
          BY <3>6, <5>1, <5>2
      <4> QED
        BY <4>1, <4>2
    <3> HIDE DEF Row
    <3>9. g = [i \in k..n |-> Row(g, i)]
      BY <3>7, <3>8
    <3> QED
      BY <3>9
  <2> HIDE DEF P, Part
  <2>3. n - 1 \in Nat /\ n - 1 \in P
    BY <1>1, <2>1, <2>2, Induction
  <2> QED
    BY <2>3 DEF P
<1>5. IsFrom(from)
  <2>1. n - (n - 1) = 1
    BY <1>1
  <2>2. \E h : h = [i \in (n - (n - 1))..n |-> Row(h, i)]
    BY <1>4
  <2> HIDE DEF Row
  <2>3. \E h : IsFrom(h)
    BY <2>1, <2>2
  <2> HIDE DEF IsFrom
  <2> QED
    BY <2>3
<1> HIDE DEF from
<1>6. DOMAIN from = 1..n /\ \A i \in 1..n : from[i] = Row(from, i)
  <2> HIDE DEF Row
  <2> QED
    BY <1>5
<1>7. FoundFrom(from, doc)
  <2>1. from[Len(doc) + 1] = <<>>
    <3>1. Len(doc) + 1 \in 1..n /\ Len(doc) + 1 > Len(doc)
      BY <1>1
    <3>2. from[Len(doc) + 1] = Row(from, Len(doc) + 1)
      BY <1>6, <3>1
    <3> QED
      BY <3>1, <3>2
  <2>2. ASSUME NEW i \in 1..Len(doc)
        PROVE  from[i] = IF Matches(doc, i)
                           THEN <<BlockAt(doc, i)>> \o from[ContentEnd(doc, i) + 1]
                         ELSE from[i + 1]
    <3>1. i \in 1..n /\ ~(i > Len(doc))
      BY <1>1
    <3>2. from[i] = Row(from, i)
      BY <1>6, <3>1
    <3> QED
      BY <3>1, <3>2
  <2> QED
    BY <2>1, <2>2 DEF FoundFrom
<1>8. \A i \in 1..n : from[i] \in Seq(Seq(L))
  <2> DEFINE Typed(m) == \A i \in (n - m)..n : from[i] \in Seq(Seq(L))
             P == {m \in Nat : m <= n - 1 => Typed(m)}
  <2>1. 0 \in P
    <3>1. \A i \in (n - 0)..n : i = Len(doc) + 1
      BY <1>1
    <3>2. <<>> \in Seq(Seq(L))
      BY EmptySeq
    <3> QED
      BY <1>7, <3>1, <3>2 DEF FoundFrom
  <2>2. ASSUME NEW m \in Nat, m \in P PROVE m + 1 \in P
    <3> HIDE DEF Typed
    <3>1. SUFFICES ASSUME m + 1 <= n - 1 PROVE Typed(m + 1)
      OBVIOUS
    <3>2. Typed(m)
      BY <1>1, <2>2, <3>1
    <3> DEFINE k == n - (m + 1)
    <3>3. k \in 1..Len(doc) /\ k + 1 \in (n - m)..n
      BY <1>1, <3>1
    <3>4. from[k] \in Seq(Seq(L))
      <4>1. CASE Matches(doc, k)
        <5>1. BlockAt(doc, k) \in Seq(L)
          BY <3>3, <4>1, BlockType
        <5>2. ContentEnd(doc, k) + 1 \in (k + 1)..n
          BY <1>3, <3>3, <4>1
        <5>3. ContentEnd(doc, k) + 1 \in (n - m)..n
          BY <1>1, <3>3, <5>2
        <5>4. from[ContentEnd(doc, k) + 1] \in Seq(Seq(L))
          BY <3>2, <5>3 DEF Typed
        <5>5. from[k] = <<BlockAt(doc, k)>> \o from[ContentEnd(doc, k) + 1]
          BY <1>7, <3>3, <4>1 DEF FoundFrom
        <5>6. <<BlockAt(doc, k)>> \in Seq(Seq(L))
          BY <5>1
        <5> QED
          BY <5>4, <5>5, <5>6, ConcatProperties
      <4>2. CASE ~Matches(doc, k)
        <5>1. from[k] = from[k + 1]
          BY <1>7, <3>3, <4>2 DEF FoundFrom
        <5> QED
          BY <3>2, <3>3, <5>1 DEF Typed
      <4> QED
        BY <4>1, <4>2
    <3>5. \A i \in (n - (m + 1))..n : i = k \/ i \in (n - m)..n
      BY <1>1
    <3> QED
      BY <3>2, <3>4, <3>5 DEF Typed
  <2> HIDE DEF P, Typed
  <2>3. n - 1 \in Nat /\ n - 1 \in P
    BY <1>1, <2>1, <2>2, Induction
  <2>4. Typed(n - 1)
    BY <2>3 DEF P
  <2>5. n - (n - 1) = 1
    BY <1>1
  <2> QED
    BY <2>4, <2>5 DEF Typed
<1>9. from \in [1..n -> Seq(Seq(L))]
  BY <1>5, <1>8
<1> QED
  BY <1>2, <1>7, <1>9

\* Lines that open no block are passed over.
LEMMA Skipped ==
  ASSUME NEW L, NEW doc \in Seq(L), NEW h, FoundFrom(h, doc),
         NEW a \in 1..(Len(doc) + 1), NEW b \in a..(Len(doc) + 1),
         \A i \in a..(b - 1) : ~Matches(doc, i)
  PROVE  h[a] = h[b]
<1> DEFINE P == {m \in Nat : a + m <= b => h[a] = h[a + m]}
<1>1. Len(doc) \in Nat /\ a \in Nat /\ b \in Nat /\ b - a \in Nat
  BY LenProperties
<1>2. 0 \in P
  BY <1>1
<1>3. ASSUME NEW m \in Nat, m \in P PROVE m + 1 \in P
  <2>1. SUFFICES ASSUME a + (m + 1) <= b PROVE h[a] = h[a + (m + 1)]
    OBVIOUS
  <2>2. h[a] = h[a + m]
    BY <1>1, <1>3, <2>1
  <2>3. a + m \in 1..Len(doc) /\ a + m \in a..(b - 1)
    BY <1>1, <2>1
  <2>4. h[a + m] = h[(a + m) + 1]
    BY <2>3 DEF FoundFrom
  <2>5. (a + m) + 1 = a + (m + 1)
    BY <1>1
  <2> QED
    BY <2>2, <2>4, <2>5
<1> HIDE DEF P
<1>4. b - a \in P
  BY <1>1, <1>2, <1>3, Induction
<1>5. a + (b - a) = b
  BY <1>1
<1> QED
  BY <1>1, <1>4, <1>5 DEF P

\* Where a row of lines stands in a document, after its line o.
Stands(doc, o, lines) ==
  o + Len(lines) <= Len(doc) /\ \A j \in 1..Len(lines) : doc[o + j] = lines[j]

\* The lines of a segment, fences and all.
LinesAt(row, j, lines) == \A k \in 1..Len(lines) : row[j + k] = lines[k]
LEMMA RenderedLines ==
  ASSUME NEW Text, NEW s \in Segments(Text)
  PROVE  LET row == Rendered(s)
             n == Len(s.lines)
         IN  /\ row \in Seq(Text \cup {Open, Fence}) /\ s.lines \in Seq(Text) /\ n \in Nat
             /\ s.kind = "prose" => row = s.lines
             /\ s.kind = "repl" => /\ Len(row) = n + 2 /\ row[1] = Open /\ row[n + 2] = Fence
                                   /\ LinesAt(row, 1, s.lines)
             /\ s.kind = "other" => /\ Len(row) = n + 2 /\ row[1] = Fence /\ row[n + 2] = Fence
                                    /\ LinesAt(row, 1, s.lines)
             /\ s.kind = "cut" => Len(row) = n + 1 /\ row[1] = Open /\ LinesAt(row, 1, s.lines)
<1> DEFINE All == Text \cup {Open, Fence}
           n == Len(s.lines)
<1>1. s.kind \in {"prose", "repl", "other", "cut"} /\ s.lines \in Seq(Text)
  BY DEF Segments
<1>2. s.lines \in Seq(All) /\ n \in Nat
  BY <1>1, SeqMonotonic, LenProperties
<1>3. ASSUME NEW e \in {Open, Fence}
      PROVE  LET row == <<e>> \o s.lines
             IN  row \in Seq(All) /\ Len(row) = n + 1 /\ row[1] = e /\ LinesAt(row, 1, s.lines)
  <2> DEFINE row == <<e>> \o s.lines
  <2>1. <<e>> \in Seq(All) /\ Len(<<e>>) = 1 /\ <<e>>[1] = e
    OBVIOUS
  <2>2. /\ row \in Seq(All) /\ Len(row) = 1 + n
        /\ \A i \in 1..(1 + n) : row[i] = IF i <= 1 THEN <<e>>[i] ELSE s.lines[i - 1]
    BY <1>2, <2>1, ConcatProperties
  <2> HIDE DEF row
  <2>3. row[1] = e /\ \A k \in 1..n : row[1 + k] = s.lines[k]
    BY <1>2, <2>1, <2>2
  <2> QED
    BY <1>2, <2>2, <2>3 DEF LinesAt, row
<1>4. ASSUME NEW e \in {Open, Fence}
      PROVE  LET row == <<e>> \o s.lines \o <<Fence>>
             IN  /\ row \in Seq(All) /\ Len(row) = n + 2 /\ row[1] = e /\ row[n + 2] = Fence
                 /\ LinesAt(row, 1, s.lines)
  <2> DEFINE front == <<e>> \o s.lines
             row == front \o <<Fence>>
  <2>1. <<Fence>> \in Seq(All) /\ Len(<<Fence>>) = 1 /\ <<Fence>>[1] = Fence
    OBVIOUS
  <2>2. front \in Seq(All) /\ Len(front) = n + 1 /\ front[1] = e /\ LinesAt(front, 1, s.lines)
    BY <1>3
  <2> HIDE DEF front
  <2>3. /\ row \in Seq(All) /\ Len(row) = n + 1 + 1
        /\ \A i \in 1..(n + 1 + 1) :
             row[i] = IF i <= n + 1 THEN front[i] ELSE <<Fence>>[i - (n + 1)]
    BY <2>1, <2>2, ConcatProperties
  <2> HIDE DEF row
  <2>4. /\ 1 \in 1..(n + 1 + 1) /\ 1 <= n + 1
        /\ n + 2 \in 1..(n + 1 + 1) /\ ~(n + 2 <= n + 1) /\ (n + 2) - (n + 1) = 1
        /\ \A k \in 1..n : 1 + k \in 1..(n + 1 + 1) /\ 1 + k <= n + 1
    BY <1>2
  <2>5. row[1] = front[1] /\ \A k \in 1..n : row[1 + k] = front[1 + k]
    BY <2>3, <2>4
  <2>6. row[n + 2] = <<Fence>>[1]
    BY <2>3, <2>4
  <2>7. Len(row) = n + 2
    BY <1>2, <2>3
  <2>8. row \in Seq(All) /\ row[1] = e /\ row[n + 2] = Fence /\ LinesAt(row, 1, s.lines)
    BY <2>1, <2>2, <2>3, <2>5, <2>6 DEF LinesAt
  <2>9. row = <<e>> \o s.lines \o <<Fence>>
    BY DEF row, front
  <2> QED
    BY <2>7, <2>8, <2>9
<1>5. CASE s.kind = "prose"
  BY <1>2, <1>5, <1>1 DEF Rendered
<1>6. CASE s.kind = "repl"
  BY <1>1, <1>2, <1>4, <1>6 DEF Rendered
<1>7. CASE s.kind = "other"
  BY <1>1, <1>2, <1>4, <1>7 DEF Rendered
<1>8. CASE s.kind = "cut"
  BY <1>1, <1>2, <1>3, <1>8 DEF Rendered
<1> QED
  BY <1>1, <1>5, <1>6, <1>7, <1>8

\* Blank lines at its head do not change what lines are trimmed to.
LEMMA TrimTail ==
  ASSUME NEW L, NEW lines \in Seq(L), NEW p \in 1..Len(lines), lines[p] # Blank,
         \A k \in 1..(p - 1) : lines[k] = Blank
  PROVE  TrimSpace(SubSeq(lines, p, Len(lines))) = TrimSpace(lines)
<1> DEFINE n == Len(lines)
           tail == SubSeq(lines, p, n)
           text == {k \in DOMAIN lines : lines[k] # Blank}
           tailText == {k \in DOMAIN tail : tail[k] # Blank}
<1>1. n \in Nat /\ DOMAIN lines = 1..n /\ p \in Nat
  BY LenProperties
<1>2. \A k \in p..n : lines[k] \in L
  BY <1>1, ElementOfSeq
<1>3. /\ tail \in Seq(L) /\ Len(tail) = n - p + 1
      /\ \A k \in 1..(n - p + 1) : tail[k] = lines[p + k - 1]
  BY <1>1, <1>2, SubSeqProperties
<1>4. DOMAIN tail = 1..(n - p + 1)
  BY <1>3, LenProperties
<1> HIDE DEF tail
<1>5. /\ text # {} /\ text \subseteq 1..n /\ p \in text /\ \A k \in text : p <= k
      /\ tailText # {} /\ tailText \subseteq 1..(n - p + 1) /\ 1 \in tailText
  <2>1. p \in text /\ text \subseteq 1..n /\ tailText \subseteq 1..(n - p + 1)
    BY <1>1, <1>4
  <2>2. \A k \in text : p <= k
    BY <1>1
  <2>3. tail[1] = lines[p] /\ 1 \in DOMAIN tail
    BY <1>1, <1>3, <1>4
  <2> QED
    BY <2>1, <2>2, <2>3
<1>6. \A k \in 1..(n - p + 1) : k \in tailText <=> p + k - 1 \in text
  <2>1. \A k \in 1..(n - p + 1) : p + k - 1 \in 1..n
    BY <1>1
  <2> QED
    BY <1>1, <1>3, <1>4, <2>1
<1> HIDE DEF text, tailText
<1>7. /\ Min(text) \in text /\ \A k \in text : Min(text) <= k
      /\ Max(text) \in text /\ \A k \in text : k <= Max(text)
  BY <1>1, <1>5, MinMax
<1>8. n - p + 1 \in Nat
  BY <1>1
<1>9. /\ Min(tailText) \in tailText /\ \A k \in tailText : Min(tailText) <= k
      /\ Max(tailText) \in tailText /\ \A k \in tailText : k <= Max(tailText)
  BY <1>5, <1>8, MinMax
<1>10. Min(text) = p /\ Min(tailText) = 1
  <2>1. Min(text) \in 1..n /\ Min(tailText) \in 1..(n - p + 1)
    BY <1>5, <1>7, <1>9
  <2>2. Min(text) <= p /\ p <= Min(text) /\ Min(tailText) <= 1
    BY <1>5, <1>7, <1>9
  <2> QED
    BY <1>1, <2>1, <2>2
<1>11. Max(tailText) = Max(text) - p + 1 /\ Max(text) \in p..n
  <2> DEFINE m == Max(text) - p + 1
  <2>1. Max(text) \in 1..n /\ p <= Max(text) /\ Max(tailText) \in 1..(n - p + 1)
    BY <1>5, <1>7, <1>9
  <2>2. m \in 1..(n - p + 1) /\ p + m - 1 = Max(text)
    BY <1>1, <2>1
  <2>3. m \in tailText
    BY <1>6, <1>7, <2>2
  <2>4. m <= Max(tailText)
    BY <1>9, <2>3
  <2>5. p + Max(tailText) - 1 \in text
    BY <1>6, <1>9, <2>1
  <2>6. p + Max(tailText) - 1 <= Max(text)
    BY <1>7, <2>5
  <2> QED
    BY <1>1, <2>1, <2>2, <2>4, <2>6
<1>12. SubSeq(SubSeq(lines, p, n), 1, Max(text) - p + 1) = SubSeq(lines, p, Max(text))
  <2>1. /\ n \in 1..Len(lines) /\ 1 \in 1..(n - p + 1)
        /\ Max(text) - p + 1 \in 1..(n - p + 1)
    BY <1>1, <1>11
  <2>2. SubSeq(SubSeq(lines, p, n), 1, Max(text) - p + 1)
          = SubSeq(lines, p + 1 - 1, p + (Max(text) - p + 1) - 1)
    BY <2>1, SubSeqOfSubSeq
  <2>3. p + 1 - 1 = p /\ p + (Max(text) - p + 1) - 1 = Max(text)
    BY <1>1, <1>11
  <2> QED
    BY <2>2, <2>3
<1>13. TrimSpace(lines) = SubSeq(lines, p, Max(text))
  BY <1>5, <1>10 DEF TrimSpace, text
<1>14. TrimSpace(tail) = SubSeq(tail, 1, Max(text) - p + 1)
  BY <1>5, <1>10, <1>11 DEF TrimSpace, tailText
<1> QED
  BY <1>12, <1>13, <1>14 DEF tail

\* From a segment that stands in a document, the code in it is found and then what is found from
\* the line after it.
NoFences(lines) == \A j \in DOMAIN lines : ~IsFence(lines[j])

\* Lines without an opening are passed over: prose, and a block of another language.
LEMMA QuietSegment ==
  ASSUME NEW All, NEW doc \in Seq(All), NEW h, FoundFrom(h, doc), NEW o \in Nat,
         NEW row \in Seq(All), Stands(doc, o, row), \A j \in 1..Len(row) : row[j] # Open
  PROVE  h[o + 1] = h[o + Len(row) + 1]
<1>1. Len(doc) \in Nat /\ Len(row) \in Nat /\ o + Len(row) <= Len(doc)
  BY LenProperties DEF Stands
<1>2. ASSUME NEW i \in (o + 1)..((o + Len(row) + 1) - 1) PROVE ~Matches(doc, i)
  <2>1. i - o \in 1..Len(row) /\ o + (i - o) = i
    BY <1>1
  <2>2. doc[i] = row[i - o]
    BY <2>1 DEF Stands
  <2> QED
    BY <2>1, <2>2 DEF Matches
<1>3. o + 1 \in 1..(Len(doc) + 1) /\ o + Len(row) + 1 \in (o + 1)..(Len(doc) + 1)
  BY <1>1
<1> QED
  BY <1>2, <1>3, Skipped

\* The last block, when it is cut off, has no end; nor does another begin in it.
LEMMA CutSegment ==
  ASSUME NEW All, NEW doc \in Seq(All), NEW h, FoundFrom(h, doc), NEW o \in Nat,
         NEW row \in Seq(All), Stands(doc, o, row), o + Len(row) = Len(doc),
         \A j \in 2..Len(row) : ~IsFence(row[j])
  PROVE  h[o + 1] = h[o + Len(row) + 1]
<1>1. Len(doc) \in Nat /\ Len(row) \in Nat /\ DOMAIN doc = 1..Len(doc)
  BY LenProperties
<1>2. \A i \in (o + 2)..Len(doc) : ~IsFence(doc[i])
  <2> SUFFICES ASSUME NEW i \in (o + 2)..Len(doc) PROVE ~IsFence(doc[i])
    OBVIOUS
  <2>1. i - o \in 1..Len(row) /\ i - o \in 2..Len(row) /\ o + (i - o) = i
    BY <1>1
  <2>2. doc[i] = row[i - o]
    BY <2>1 DEF Stands
  <2> QED
    BY <2>1, <2>2
<1>3. ASSUME NEW i \in (o + 1)..((o + Len(row) + 1) - 1) PROVE ~Matches(doc, i)
  <2>1. \A s \in Starts(doc, i) : Ends(doc, s) = {}
    <3> SUFFICES ASSUME NEW s \in Starts(doc, i), NEW e \in Ends(doc, s) PROVE FALSE
      OBVIOUS
    <3>1. s \in (i + 1)..Len(doc) /\ e \in 1..Len(doc) /\ e > s /\ IsFence(doc[e])
      BY <1>1 DEF Starts, Ends
    <3>2. e \in (o + 2)..Len(doc)
      BY <1>1, <3>1
    <3> QED
      BY <1>2, <3>1, <3>2
  <2> QED
    BY <2>1 DEF Matches, Closed
<1>4. o + 1 \in 1..(Len(doc) + 1) /\ o + Len(row) + 1 \in (o + 1)..(Len(doc) + 1)
  BY <1>1
<1> QED
  BY <1>3, <1>4, Skipped

\* A row of lines that is a repl block with code in it.
IsRepl(L, row, segment) ==
  LET lines == segment.lines
  IN  /\ segment.kind = "repl" /\ row \in Seq(L) /\ lines \in Seq(L)
      /\ NoFences(lines) /\ TrimSpace(lines) # <<>>
      /\ Len(row) = Len(lines) + 2 /\ row[1] = Open /\ row[Len(lines) + 2] = Fence
      /\ LinesAt(row, 1, lines)

\* A repl block opens, starts at its first line that is not blank, and ends at its fence.
LEMMA ReplSegment ==
  ASSUME NEW All, NEW doc \in Seq(All), NEW h, FoundFrom(h, doc), NEW o \in Nat,
         NEW s, NEW row, Stands(doc, o, row), IsRepl(All, row, s)
  PROVE  h[o + 1] = CodeIn(s) \o h[o + Len(row) + 1]
<1> SUFFICES ASSUME NEW lines \in Seq(All), row \in Seq(All),
                    NoFences(lines), TrimSpace(lines) # <<>>, Len(row) = Len(lines) + 2,
                    row[1] = Open, row[Len(lines) + 2] = Fence, LinesAt(row, 1, lines)
             PROVE  h[o + 1] = <<TrimSpace(lines)>> \o h[o + Len(row) + 1]
  BY DEF IsRepl, CodeIn
<1> DEFINE n == Len(lines)
           i == o + 1
           last == o + n + 2
           text == {k \in DOMAIN lines : lines[k] # Blank}
           p == Min(text)
<1>1. /\ Len(doc) \in Nat /\ n \in Nat /\ DOMAIN doc = 1..Len(doc) /\ DOMAIN lines = 1..n
      /\ last <= Len(doc)
  BY LenProperties DEF Stands
<1>2. doc[i] = Open /\ doc[last] = Fence /\ \A k \in 1..n : doc[i + k] = lines[k]
  <2>1. 1 \in 1..Len(row) /\ n + 2 \in 1..Len(row) /\ o + (n + 2) = last
    BY <1>1
  <2>2. \A k \in 1..n : 1 + k \in 1..Len(row) /\ o + (1 + k) = i + k
    BY <1>1
  <2>3. doc[o + 1] = row[1] /\ doc[o + (n + 2)] = row[n + 2]
    BY <2>1 DEF Stands
  <2>4. \A k \in 1..n : doc[o + (1 + k)] = row[1 + k]
    BY <2>2 DEF Stands
  <2> QED
    BY <2>1, <2>2, <2>3, <2>4 DEF LinesAt
<1>3. text # {} /\ text \subseteq 1..n
  BY <1>1 DEF TrimSpace
<1>4. p \in text /\ \A k \in text : p <= k
  <2> HIDE DEF text
  <2> QED
    BY <1>1, <1>3, MinMax
<1>5. p \in 1..n /\ lines[p] # Blank /\ \A k \in 1..(p - 1) : lines[k] = Blank
  <2>1. p \in 1..n /\ lines[p] # Blank
    BY <1>3, <1>4
  <2>2. ASSUME NEW k \in 1..(p - 1) PROVE lines[k] = Blank
    <3>1. k \in 1..n /\ ~(p <= k)
      BY <1>1, <2>1
    <3>2. k \notin text
      BY <1>4, <3>1
    <3> QED
      BY <1>1, <3>1, <3>2
  <2> QED
    BY <2>1, <2>2
<1> HIDE DEF text, p
<1>6. \A k \in (i + 1)..(last - 1) : ~IsFence(doc[k])
  <2> SUFFICES ASSUME NEW k \in (i + 1)..(last - 1) PROVE ~IsFence(doc[k])
    OBVIOUS
  <2>1. k - i \in 1..n /\ i + (k - i) = k
    BY <1>1
  <2>2. doc[k] = lines[k - i]
    BY <1>2, <2>1
  <2> QED
    BY <1>1, <2>1, <2>2 DEF NoFences
<1>7. i + p \in Closed(doc, i)
  <2>1. i + p \in (i + 1)..Len(doc)
    BY <1>1, <1>5
  <2>2. ASSUME NEW k \in (i + 1)..((i + p) - 1) PROVE doc[k] = Blank
    <3>1. k - i \in 1..(p - 1) /\ k - i \in 1..n /\ i + (k - i) = k
      BY <1>1, <1>5
    <3> QED
      BY <1>2, <1>5, <3>1
  <2>3. last \in DOMAIN doc /\ last > i + p /\ IsFence(doc[last])
    BY <1>1, <1>2, <1>5 DEF IsFence
  <2>4. last \in Ends(doc, i + p)
    BY <2>3 DEF Ends
  <2> QED
    BY <2>1, <2>2, <2>4 DEF Closed, Starts
<1>8. \A t \in Closed(doc, i) : t <= i + p
  <2> SUFFICES ASSUME NEW t \in Closed(doc, i) PROVE t <= i + p
    OBVIOUS
  <2>1. t \in (i + 1)..Len(doc) /\ \A k \in (i + 1)..(t - 1) : doc[k] = Blank
    BY DEF Closed, Starts
  <2>2. doc[i + p] # Blank
    BY <1>2, <1>5
  <2>3. i + p \notin (i + 1)..(t - 1)
    BY <2>1, <2>2
  <2>4. t \in Int /\ i \in Int /\ p \in Int /\ p >= 1
    BY <1>1, <1>5, <2>1
  <2> QED
    BY <2>3, <2>4
<1>9. i \in 1..Len(doc) /\ Matches(doc, i)
  BY <1>1, <1>2, <1>7 DEF Matches
<1>10. ContentStart(doc, i) = i + p
  <2>1. /\ ContentStart(doc, i) \in Closed(doc, i) /\ i + p <= ContentStart(doc, i)
        /\ ContentStart(doc, i) \in (i + 1)..Len(doc)
    BY <1>7, <1>9, MatchBounds
  <2>2. ContentStart(doc, i) <= i + p
    BY <1>8, <2>1
  <2>3. ContentStart(doc, i) \in Int /\ i + p \in Int
    BY <1>5, <2>1
  <2> QED
    BY <2>1, <2>2, <2>3
<1>11. ContentEnd(doc, i) = last
  <2>1. /\ ContentEnd(doc, i) \in Ends(doc, i + p)
        /\ \A e \in Ends(doc, i + p) : ContentEnd(doc, i) <= e
        /\ ContentEnd(doc, i) \in (i + p + 1)..Len(doc)
    BY <1>9, <1>10, MatchBounds
  <2>2. last \in Ends(doc, i + p)
    BY <1>1, <1>2, <1>5 DEF Ends, IsFence
  <2>3. ContentEnd(doc, i) <= last /\ IsFence(doc[ContentEnd(doc, i)])
    BY <2>1, <2>2 DEF Ends
  <2>4. ContentEnd(doc, i) \in Int /\ last \in Int /\ i + 1 <= ContentEnd(doc, i)
    BY <1>1, <1>5, <2>1
  <2>5. ContentEnd(doc, i) \in (i + 1)..(last - 1) \/ ContentEnd(doc, i) = last
    <3> DEFINE end == ContentEnd(doc, i)
    <3>1. end \in Int /\ last \in Int /\ i \in Int /\ end <= last /\ i + 1 <= end
      BY <1>1, <2>3, <2>4
    <3> HIDE DEF end, last, i
    <3>2. end \in (i + 1)..(last - 1) \/ end = last
      BY <3>1
    <3> QED
      BY <3>2 DEF end
  <2> QED
    BY <1>6, <2>3, <2>5
<1>12. BlockAt(doc, i) = TrimSpace(lines)
  <2>1. \A k \in (i + p)..(last - 1) : doc[k] \in All
    BY <1>1, <1>5, ElementOfSeq
  <2>2. /\ SubSeq(doc, i + p, last - 1) \in Seq(All)
        /\ Len(SubSeq(doc, i + p, last - 1)) = n - p + 1
        /\ \A k \in 1..(n - p + 1) : SubSeq(doc, i + p, last - 1)[k] = doc[(i + p) + k - 1]
    <3>1. i + p \in Int /\ last - 1 \in Int /\ i + p <= last - 1
          /\ (last - 1) - (i + p) + 1 = n - p + 1
      BY <1>1, <1>5
    <3> QED
      BY <2>1, <3>1, SubSeqProperties
  <2>3. \A k \in p..n : lines[k] \in All
    BY <1>1, <1>5, ElementOfSeq
  <2>4. /\ SubSeq(lines, p, n) \in Seq(All) /\ Len(SubSeq(lines, p, n)) = n - p + 1
        /\ \A k \in 1..(n - p + 1) : SubSeq(lines, p, n)[k] = lines[p + k - 1]
    BY <1>1, <1>5, <2>3, SubSeqProperties
  <2>5. \A k \in 1..(n - p + 1) : doc[(i + p) + k - 1] = lines[p + k - 1]
    <3> SUFFICES ASSUME NEW k \in 1..(n - p + 1) PROVE doc[(i + p) + k - 1] = lines[p + k - 1]
      OBVIOUS
    <3>0. i \in Int /\ p \in Int /\ k \in Int
      BY <1>5
    <3>1. p + k - 1 \in 1..n /\ i + (p + k - 1) = (i + p) + k - 1
      BY <1>1, <1>5, <3>0
    <3>2. doc[i + (p + k - 1)] = lines[p + k - 1]
      BY <1>2, <3>1
    <3> QED
      BY <3>1, <3>2
  <2>6. SubSeq(doc, i + p, last - 1) = SubSeq(lines, p, n)
    <3> DEFINE inDoc == SubSeq(doc, i + p, last - 1)
               inLines == SubSeq(lines, p, n)
    <3>1. inDoc \in Seq(All) /\ inLines \in Seq(All) /\ Len(inDoc) = Len(inLines)
      BY <2>2, <2>4
    <3>2. \A k \in 1..(n - p + 1) : inDoc[k] = inLines[k]
      BY <2>2, <2>4, <2>5
    <3>3. \A k \in 1..Len(inDoc) : inDoc[k] = inLines[k]
      BY <2>2, <3>2
    <3> HIDE DEF inDoc, inLines
    <3>4. inDoc = inLines
      BY <3>1, <3>3, SeqEqual
    <3> QED
      BY <3>4 DEF inDoc, inLines
  <2>7. TrimSpace(SubSeq(lines, p, n)) = TrimSpace(lines)
    BY <1>5, TrimTail
  <2> QED
    BY <1>10, <1>11, <2>6, <2>7 DEF BlockAt
<1>13. h[i] = <<BlockAt(doc, i)>> \o h[last + 1]
  BY <1>9, <1>11 DEF FoundFrom
<1>14. last + 1 = o + Len(row) + 1
  BY <1>1
<1> QED
  BY <1>12, <1>13, <1>14

\* Of any segment: from its first line the code in it is found, then what is found after it.
LEMMA SegmentStep ==
  ASSUME NEW Text, NEW s \in Segments(Text), NoFences(s.lines),
         s.kind = "repl" => TrimSpace(s.lines) # <<>>,
         NEW doc \in Seq(Text \cup {Open, Fence}),
         NEW h \in [1..(Len(doc) + 1) -> Seq(Seq(Text \cup {Open, Fence}))], FoundFrom(h, doc),
         NEW o \in Nat, Stands(doc, o, Rendered(s)),
         s.kind = "cut" => o + Len(Rendered(s)) = Len(doc)
  PROVE  h[o + 1] = CodeIn(s) \o h[o + Len(Rendered(s)) + 1]
<1> DEFINE All == Text \cup {Open, Fence}
           row == Rendered(s)
           n == Len(s.lines)
<1>1. /\ row \in Seq(All) /\ s.lines \in Seq(Text) /\ n \in Nat
      /\ s.kind = "prose" => row = s.lines
      /\ s.kind = "repl" => /\ Len(row) = n + 2 /\ row[1] = Open /\ row[n + 2] = Fence
                            /\ LinesAt(row, 1, s.lines)
      /\ s.kind = "other" => /\ Len(row) = n + 2 /\ row[1] = Fence /\ row[n + 2] = Fence
                             /\ LinesAt(row, 1, s.lines)
      /\ s.kind = "cut" => Len(row) = n + 1 /\ row[1] = Open /\ LinesAt(row, 1, s.lines)
  BY RenderedLines
<1> HIDE DEF row
<1>2. s.kind \in {"prose", "repl", "other", "cut"} /\ DOMAIN s.lines = 1..n
  BY <1>1, LenProperties DEF Segments
<1>3. \A k \in 1..n : ~IsFence(s.lines[k]) /\ s.lines[k] # Open
  BY <1>2 DEF NoFences, IsFence
<1>4. Len(doc) \in Nat /\ Len(row) \in Nat /\ o + Len(row) <= Len(doc) /\ Stands(doc, o, row)
  BY <1>1, LenProperties DEF Stands, row
<1>5. h[o + Len(row) + 1] \in Seq(Seq(All))
  <2>1. o + Len(row) + 1 \in 1..(Len(doc) + 1)
    BY <1>4
  <2> QED
    BY <2>1
<1>a. doc \in Seq(All) /\ FoundFrom(h, doc)
  OBVIOUS
<1>b. s.lines \in Seq(All)
  BY <1>1, SeqMonotonic
<1> HIDE DEF All
<1>6. CASE s.kind = "repl"
  <2>4. IsRepl(All, row, s)
    BY <1>1, <1>6, <1>b DEF IsRepl
  <2>1. Stands(doc, o, row)
    BY <1>4
  <2>5. h[o + 1] = CodeIn(s) \o h[o + Len(row) + 1]
    BY <1>a, <2>1, <2>4, ReplSegment
  <2> QED
    BY <2>5 DEF row
<1>7. CASE s.kind # "repl"
  <2>1. h[o + 1] = h[o + Len(row) + 1]
    <3>1. ASSUME s.kind = "prose" \/ s.kind = "other", NEW j \in 1..Len(row) PROVE row[j] # Open
      <4>1. CASE s.kind = "prose"
        BY <1>1, <1>3, <3>1, <4>1
      <4>2. CASE s.kind = "other"
        <5>1. j = 1 \/ j = n + 2 \/ (j - 1 \in 1..n /\ 1 + (j - 1) = j)
          BY <1>1, <4>2
        <5>2. Open # Fence
          BY DEF Open, Fence
        <5>3. j - 1 \in 1..n => row[1 + (j - 1)] = s.lines[j - 1]
          BY <1>1, <4>2 DEF LinesAt
        <5> QED
          BY <1>1, <1>3, <4>2, <5>1, <5>2, <5>3
      <4> QED
        BY <3>1, <4>1, <4>2
    <3>2. ASSUME s.kind = "cut", NEW j \in 2..Len(row) PROVE ~IsFence(row[j])
      <4>1. j - 1 \in 1..n /\ 1 + (j - 1) = j
        BY <1>1, <3>2
      <4>2. row[1 + (j - 1)] = s.lines[j - 1]
        BY <1>1, <3>2, <4>1 DEF LinesAt
      <4> QED
        BY <1>3, <4>1, <4>2
    <3>3. CASE s.kind = "prose" \/ s.kind = "other"
      <4>1. /\ row \in Seq(All) /\ Stands(doc, o, row)
            /\ \A j \in 1..Len(row) : row[j] # Open
        BY <1>1, <1>4, <3>1, <3>3
      <4> QED
        BY <1>a, <4>1, QuietSegment
    <3>4. CASE s.kind = "cut"
      <4>1. o + Len(row) = Len(doc)
        BY <3>4 DEF row
      <4>2. row \in Seq(All) /\ Stands(doc, o, row) /\ row[1] = Open /\ Len(row) >= 1
        BY <1>1, <1>4, <3>4
      <4>3. \A j \in 2..Len(row) : ~IsFence(row[j])
        BY <3>2, <3>4
      <4> QED
        BY <1>a, <4>1, <4>2, <4>3, CutSegment
    <3> QED
      BY <1>2, <1>7, <3>3, <3>4
  <2>2. CodeIn(s) = <<>>
    BY <1>7 DEF CodeIn
  <2> QED
    BY <1>5, <2>1, <2>2, ConcatEmptySeq DEF row
<1> QED
  BY <1>6, <1>7

\* In a row of prefixes each is a prefix of the last.
LEMMA RowPrefix ==
  ASSUME NEW S, NEW seqs \in Seq(Seq(S)), NEW f \in [0..Len(seqs) -> Seq(S)],
         IsPrefixRow(f, seqs), NEW k \in 0..Len(seqs)
  PROVE  /\ Len(f[k]) <= Len(f[Len(seqs)])
         /\ \A j \in 1..Len(f[k]) : f[Len(seqs)][j] = f[k][j]
<1> DEFINE n == Len(seqs)
           Begins(m) == /\ Len(f[m]) <= Len(f[n])
                        /\ \A j \in 1..Len(f[m]) : f[n][j] = f[m][j]
           P == {m \in Nat : m <= n => Begins(n - m)}
<1>1. n \in Nat /\ \A i \in 1..n : seqs[i] \in Seq(S)
  BY LenProperties, ElementOfSeq
<1>2. 0 \in P
  <2>1. n - 0 = n /\ Len(f[n]) \in Nat
    BY <1>1, LenProperties
  <2> QED
    BY <2>1
<1>3. ASSUME NEW m \in Nat, m \in P PROVE m + 1 \in P
  <2> HIDE DEF Begins
  <2>1. SUFFICES ASSUME m + 1 <= n PROVE Begins(n - (m + 1))
    OBVIOUS
  <2>2. Begins(n - m)
    BY <1>1, <1>3, <2>1
  <2> DEFINE i == n - m
  <2>3. i \in 1..n /\ i - 1 \in 0..n /\ i \in 0..n /\ n - (m + 1) = i - 1
    BY <1>1, <2>1
  <2> HIDE DEF i
  <2>4. f[i] = f[i - 1] \o seqs[i] /\ f[i - 1] \in Seq(S) /\ seqs[i] \in Seq(S) /\ f[i] \in Seq(S)
    BY <1>1, <2>3 DEF IsPrefixRow
  <2> DEFINE head == f[i - 1]
             rest == seqs[i]
  <2> HIDE DEF head, rest
  <2>5. /\ f[i] = head \o rest /\ head \in Seq(S) /\ rest \in Seq(S)
        /\ Len(head) \in Nat /\ Len(rest) \in Nat
    BY <2>4, LenProperties DEF head, rest
  <2>6. /\ Len(f[i]) = Len(head) + Len(rest)
        /\ \A j \in 1..(Len(head) + Len(rest)) :
             f[i][j] = IF j <= Len(head) THEN head[j] ELSE rest[j - Len(head)]
    BY <2>5, ConcatProperties
  <2>7. f[n] \in Seq(S) /\ Len(f[n]) \in Nat
    <3>1. n \in 0..n
      BY <1>1
    <3> QED
      BY <3>1, LenProperties
  <2>8. Begins(i)
    BY <2>2 DEF i
  <2>9. Len(head) <= Len(f[n])
    BY <2>5, <2>6, <2>7, <2>8 DEF Begins
  <2>10. \A j \in 1..Len(head) : f[n][j] = head[j]
    <3>1. ASSUME NEW j \in 1..Len(head) PROVE f[n][j] = head[j]
      <4>1. j \in 1..(Len(head) + Len(rest)) /\ j <= Len(head)
        BY <2>5
      <4>2. f[n][j] = f[i][j]
        BY <2>6, <2>8, <4>1 DEF Begins
      <4> QED
        BY <2>6, <4>1, <4>2
    <3> QED
      BY <3>1
  <2>11. Begins(i - 1)
    BY <2>9, <2>10 DEF Begins, head
  <2> QED
    BY <2>3, <2>11
<1> HIDE DEF P, Begins
<1>4. n - k \in Nat /\ n - k <= n /\ n - (n - k) = k
  BY <1>1
<1>5. n - k \in P
  BY <1>2, <1>3, <1>4, Induction
<1>6. Begins(n - (n - k))
  BY <1>4, <1>5 DEF P
<1>7. Begins(k)
  BY <1>4, <1>6
<1> QED
  BY <1>7 DEF Begins

\* The code found in the response that renders a well-formed document is the code of its repl
\* blocks, in order: for documents of any number of segments of any lines.
THEOREM Parsing ==
  ASSUME NEW Text, NEW doc \in Seq(Segments(Text)), WellFormed(doc)
  PROVE  FindCodeBlocks(Render(doc)) = CodeOf(doc)
<1> DEFINE All == Text \cup {Open, Fence}
           n == Len(doc)
           rendered == [k \in DOMAIN doc |-> Rendered(doc[k])]
           code == [k \in DOMAIN doc |-> CodeIn(doc[k])]
<1>1. n \in Nat /\ DOMAIN doc = 1..n /\ \A k \in 1..n : doc[k] \in Segments(Text)
  BY LenProperties, ElementOfSeq
<1>2. \A k \in 1..n : Rendered(doc[k]) \in Seq(All)
  BY <1>1, RenderedLines
<1>3. \A k \in 1..n : CodeIn(doc[k]) \in Seq(Seq(All))
  <2> SUFFICES ASSUME NEW k \in 1..n PROVE CodeIn(doc[k]) \in Seq(Seq(All))
    OBVIOUS
  <2>1. doc[k].lines \in Seq(All)
    BY <1>1, RenderedLines, SeqMonotonic
  <2>2. TrimSpace(doc[k].lines) \in Seq(All)
    BY <2>1, TrimType
  <2>3. <<TrimSpace(doc[k].lines)>> \in Seq(Seq(All)) /\ <<>> \in Seq(Seq(All))
    BY <2>2, EmptySeq
  <2> QED
    BY <2>3 DEF CodeIn
<1>4. /\ rendered \in Seq(Seq(All)) /\ Len(rendered) = n
      /\ \A k \in 1..n : rendered[k] = Rendered(doc[k])
  <2>1. rendered \in [1..n -> Seq(All)]
    BY <1>1, <1>2
  <2>2. rendered \in Seq(Seq(All))
    BY <1>1, <2>1, SeqDef
  <2> QED
    BY <1>1, <2>1, <2>2, LenProperties
<1>5. /\ code \in Seq(Seq(Seq(All))) /\ Len(code) = n
      /\ \A k \in 1..n : code[k] = CodeIn(doc[k])
  <2>1. code \in [1..n -> Seq(Seq(All))]
    BY <1>1, <1>3
  <2>2. code \in Seq(Seq(Seq(All)))
    BY <1>1, <2>1, SeqDef
  <2> QED
    BY <1>1, <2>1, <2>2, LenProperties
<1>6. Render(doc) = FlattenSeq(rendered) /\ CodeOf(doc) = FlattenSeq(code)
  BY DEF Render, CodeOf
<1> HIDE DEF rendered, code
<1>7. PICK r \in [0..n -> Seq(All)] : IsPrefixRow(r, rendered) /\ Render(doc) = r[n]
  BY <1>4, <1>6, Flattened
<1>8. PICK c \in [0..n -> Seq(Seq(All))] : IsPrefixRow(c, code) /\ CodeOf(doc) = c[n]
  BY <1>5, <1>6, Flattened
<1> DEFINE text == r[n]
<1>9. text \in Seq(All) /\ Len(text) \in Nat
  BY <1>1, LenProperties
<1> HIDE DEF text
<1>10. PICK h \in [1..(Len(text) + 1) -> Seq(Seq(All))] :
         FoundFrom(h, text) /\ FindCodeBlocks(text) = h[1]
  BY <1>9, Found
<1>11. ASSUME NEW k \in 1..n
       PROVE  /\ r[k - 1] \in Seq(All) /\ Len(r[k - 1]) \in Nat
              /\ Len(r[k]) = Len(r[k - 1]) + Len(Rendered(doc[k])) /\ Len(r[k]) <= Len(text)
              /\ Stands(text, Len(r[k - 1]), Rendered(doc[k]))
  <2> DEFINE head == r[k - 1]
             row == Rendered(doc[k])
  <2>1. k - 1 \in 0..n /\ k \in 0..n
    BY <1>1
  <2>2. r[k] = head \o row /\ head \in Seq(All) /\ row \in Seq(All)
    BY <1>2, <1>4, <1>7, <2>1 DEF IsPrefixRow
  <2>3. Len(r[k]) <= Len(text) /\ \A j \in 1..Len(r[k]) : text[j] = r[k][j]
    <3>1. /\ rendered \in Seq(Seq(All)) /\ r \in [0..Len(rendered) -> Seq(All)]
          /\ IsPrefixRow(r, rendered) /\ k \in 0..Len(rendered)
      BY <1>4, <1>7, <2>1
    <3> HIDE DEF All
    <3>2. /\ Len(r[k]) <= Len(r[Len(rendered)])
          /\ \A j \in 1..Len(r[k]) : r[Len(rendered)][j] = r[k][j]
      BY <3>1, RowPrefix
    <3> QED
      BY <1>4, <3>2 DEF text
  <2> HIDE DEF head, row
  <2>4. Len(head) \in Nat /\ Len(row) \in Nat
    BY <2>2, LenProperties
  <2>5. /\ Len(r[k]) = Len(head) + Len(row)
        /\ \A j \in 1..(Len(head) + Len(row)) :
             r[k][j] = IF j <= Len(head) THEN head[j] ELSE row[j - Len(head)]
    BY <2>2, ConcatProperties
  <2>6. ASSUME NEW j \in 1..Len(row) PROVE text[Len(head) + j] = row[j]
    <3>1. /\ Len(head) + j \in 1..(Len(head) + Len(row)) /\ ~(Len(head) + j <= Len(head))
          /\ (Len(head) + j) - Len(head) = j
      BY <2>4
    <3>2. text[Len(head) + j] = r[k][Len(head) + j]
      BY <2>3, <2>5, <3>1
    <3>3. r[k][Len(head) + j] = row[(Len(head) + j) - Len(head)]
      BY <2>5, <3>1
    <3> QED
      BY <3>1, <3>2, <3>3
  <2>7. Stands(text, Len(head), row)
    BY <2>3, <2>5, <2>6 DEF Stands
  <2> QED
    BY <2>2, <2>3, <2>4, <2>5, <2>7 DEF head, row
<1>12. h[1] = c[n] \o h[Len(r[n]) + 1]
  <2> DEFINE P == {k \in Nat : k <= n => h[1] = c[k] \o h[Len(r[k]) + 1]}
  <2>1. 0 \in P
    <3>1. r[0] = <<>> /\ c[0] = <<>>
      BY <1>7, <1>8 DEF IsPrefixRow
    <3>2. Len(r[0]) + 1 = 1
      BY <3>1
    <3>3. 1 \in 1..(Len(text) + 1)
      BY <1>9
    <3>4. h[1] \in Seq(Seq(All))
      BY <1>10, <3>3
    <3>5. c[0] \o h[Len(r[0]) + 1] = h[1]
      BY <3>1, <3>2, <3>4, ConcatEmptySeq
    <3> QED
      BY <3>5
  <2>2. ASSUME NEW m \in Nat, m \in P PROVE m + 1 \in P
    <3> DEFINE k == m + 1
    <3>1. SUFFICES ASSUME k <= n PROVE h[1] = c[k] \o h[Len(r[k]) + 1]
      OBVIOUS
    <3>2. k \in 1..n /\ k - 1 = m /\ m <= n /\ m \in 0..n /\ k \in 0..n
      BY <1>1, <3>1
    <3>3. h[1] = c[m] \o h[Len(r[m]) + 1]
      BY <2>2, <3>2
    <3> HIDE DEF k
    <3> DEFINE s == doc[k]
               o == Len(r[m])
    <3>4. /\ r[m] \in Seq(All) /\ o \in Nat /\ Len(r[k]) = o + Len(Rendered(s))
          /\ Len(r[k]) <= Len(text) /\ Stands(text, o, Rendered(s))
      BY <1>11, <3>2
    <3>5. /\ s \in Segments(Text) /\ NoFences(s.lines)
          /\ s.kind = "repl" => TrimSpace(s.lines) # <<>>
          /\ s.kind = "cut" => k = n
      BY <1>1, <3>2 DEF WellFormed, NoFences
    <3>6. s.kind = "cut" => o + Len(Rendered(s)) = Len(text)
      BY <3>4, <3>5 DEF text
    <3> HIDE DEF s, o
    <3>7. h[o + 1] = CodeIn(s) \o h[o + Len(Rendered(s)) + 1]
      BY <1>9, <1>10, <3>4, <3>5, <3>6, SegmentStep
    <3>8. h[o + 1] = CodeIn(s) \o h[Len(r[k]) + 1]
      BY <3>4, <3>7
    <3>9. c[k] = c[m] \o CodeIn(s) /\ c[m] \in Seq(Seq(All)) /\ CodeIn(s) \in Seq(Seq(All))
      BY <1>3, <1>5, <1>8, <3>2 DEF IsPrefixRow, s
    <3>10. h[Len(r[k]) + 1] \in Seq(Seq(All))
      <4>1. r[k] \in Seq(All)
        BY <3>2
      <4>2. Len(r[k]) + 1 \in 1..(Len(text) + 1)
        BY <1>9, <3>4, <4>1, LenProperties
      <4> QED
        BY <1>10, <4>2
    <3>11. c[m] \o (CodeIn(s) \o h[Len(r[k]) + 1]) = (c[m] \o CodeIn(s)) \o h[Len(r[k]) + 1]
      <4> DEFINE first == c[m]
                 second == CodeIn(s)
                 third == h[Len(r[k]) + 1]
                 Element == Seq(All)
      <4>1. first \in Seq(Element) /\ second \in Seq(Element) /\ third \in Seq(Element)
        BY <3>9, <3>10
      <4> HIDE DEF first, second, third, Element
      <4>2. first \o (second \o third) = (first \o second) \o third
        BY <4>1, ConcatAssociative, Z3
      <4> QED
        BY <4>2 DEF first, second, third
    <3> QED
      BY <3>3, <3>8, <3>9, <3>11 DEF o
  <2> HIDE DEF P
  <2>3. n \in P
    BY <1>1, <2>1, <2>2, Induction
  <2> QED
    BY <1>1, <2>3 DEF P
<1>13. h[Len(text) + 1] = <<>>
  BY <1>10 DEF FoundFrom
<1>14. c[n] \in Seq(Seq(All))
  <2>1. n \in 0..n
    BY <1>1
  <2> QED
    BY <1>8, <2>1
<1>15. c[n] \o <<>> = c[n]
  BY <1>14, ConcatEmptySeq
<1> QED
  BY <1>7, <1>8, <1>10, <1>12, <1>13, <1>15 DEF text
----------------------------------------------------------------------------
(* The code that runs *)

\* While its blocks run, the response and the code found in it are those of one document.
ParsedInv ==
  pc \in {"exec", "code"} => segments \in Replies /\ blocks = CodeOf(segments)

LEMMA ParsedAlways ==
  ASSUME \A doc \in Replies : WellFormed(doc)
  PROVE  Spec => []ParsedInv
<1>1. Init => ParsedInv
  BY DEF Init, ParsedInv
<1>2. ParsedInv /\ [Next]_vars => ParsedInv'
  <2> SUFFICES ASSUME ParsedInv, [Next]_vars PROVE ParsedInv'
    OBVIOUS
  <2> USE DEF ParsedInv
  <2>1. CASE StartTurn \/ EndTurn \/ DefaultAnswer
    BY <2>1 DEF StartTurn, EndTurn, DefaultAnswer
  <2>2. CASE ModelReply
    <3>1. segments' \in Replies /\ blocks' = FindCodeBlocks(Render(segments'))
      BY <2>2 DEF ModelReply
    <3>2. FindCodeBlocks(Render(segments')) = CodeOf(segments')
      BY <3>1, RepliesAssumption, Parsing
    <3> QED
      BY <3>1, <3>2
  <2>3. CASE StartBlock
    BY <2>3 DEF StartBlock
  <2>4. CASE EndBlock \/ BlockDies
    BY <2>4 DEF EndBlock, BlockDies, ProcessEnds
  <2>r. CASE \E prompt \in PromptKinds : QueryRaises(prompt)
    BY <2>r DEF QueryRaises
  <2>5. CASE \E q \in Queries : QueryException(q)
    BY <2>5 DEF QueryException
  <2>6. ASSUME NEW q \in Queries, NEW outcomes \in [DOMAIN q -> {"content", "error"}],
               QueryAnswered(q, outcomes)
        PROVE  ParsedInv'
    BY <2>6 DEF QueryAnswered
  <2>7. CASE \E a \in Answers \cup {NoAnswer} : SubmitAnswer(a)
    BY <2>7 DEF SubmitAnswer
  <2>8. CASE UNCHANGED vars
    BY <2>8 DEF vars
  <2> QED
    BY <2>r, <2>1, <2>2, <2>3, <2>4, <2>5, <2>6, <2>7, <2>8 DEF Next
<1> QED
  BY <1>1, <1>2, PTL DEF Spec

\* The code that runs is the code the model meant, for every set of well-formed documents.
THEOREM AsWritten ==
  ASSUME \A doc \in Replies : WellFormed(doc)
  PROVE  Spec => []BlocksAsWritten
<1>1. ParsedInv => BlocksAsWritten
  BY DEF ParsedInv, BlocksAsWritten
<1>2. Spec => []ParsedInv
  BY ParsedAlways
<1> QED
  BY <1>1, <1>2, PTL

----------------------------------------------------------------------------
(* Types *)

\* Code is lines of a response; a report is what parseExecOutput makes of a block's output.
CodeText == Seq(Lines \cup {Open, Fence})
Reports ==
  [code : CodeText, stdout : Nat, stderr : BOOLEAN, locals : BOOLEAN,
   final : Answers \cup {NoAnswer}, calls : Seq(Calls), ended : BOOLEAN]
Outputs ==
  [code : CodeText, stdout : 0..MaxChars, truncated : BOOLEAN, stderr : BOOLEAN,
   variables : BOOLEAN]

\* The messages of a history, by the part they play in it.
Messages ==
  [role : {"system"}, part : {"system"}]
  \cup [role : {"user"}, part : {"metadata"}]
  \cup [role : {"user"}, part : {"turn"}, turn : Nat]
  \cup [role : {"assistant"}, part : {"response"}, segments : Replies]
  \cup [role : {"user"}, part : {"outputs"}, outputs : Seq(Outputs)]

HostTypes ==
  /\ pc \in {"turn", "model", "exec", "code", "answered"}
  /\ iteration \in 0..MaxIterations
  /\ pc \in {"model", "exec", "code"} => iteration < MaxIterations
  /\ segments \in Replies \cup {<<>>}
  /\ pc \in {"exec", "code"} => segments \in Replies
BlockTypes ==
  /\ blocks \in Seq(CodeText) /\ results \in Seq(Reports) /\ Len(results) <= Len(blocks)
  /\ pc = "code" => Len(results) < Len(blocks)
ScriptTypes ==
  /\ sent \in 0..QueriesBound
  /\ asked \in Seq(PromptKinds) /\ got \in Seq(Calls) /\ llmCalls \in Seq(Calls)
  /\ {answer, saved} \subseteq Answers \cup {NoAnswer}
TypeInv == HostTypes /\ BlockTypes /\ ScriptTypes /\ messages \in Seq(Messages)

\* What is found in the response that renders any document is code.
LEMMA CodeType ==
  ASSUME NEW doc \in Replies
  PROVE  FindCodeBlocks(Render(doc)) \in Seq(CodeText)
<1> DEFINE All == Lines \cup {Open, Fence}
           rendered == [k \in DOMAIN doc |-> Rendered(doc[k])]
           n == Len(doc)
<1>1. doc \in Seq(Segments(Lines))
  BY RepliesAssumption
<1>2. n \in Nat /\ DOMAIN doc = 1..n /\ \A k \in 1..n : doc[k] \in Segments(Lines)
  BY <1>1, LenProperties, ElementOfSeq
<1>3. \A k \in 1..n : Rendered(doc[k]) \in Seq(All)
  BY <1>2, RenderedLines
<1>4. rendered \in Seq(Seq(All))
  <2>1. rendered \in [1..n -> Seq(All)]
    BY <1>2, <1>3
  <2> QED
    BY <1>2, <2>1, SeqDef
<1>5. Render(doc) \in Seq(All)
  <2>1. Render(doc) = FlattenSeq(rendered)
    BY DEF Render
  <2> HIDE DEF rendered
  <2>2. Len(rendered) \in Nat
    BY <1>4, LenProperties
  <2>3. Len(rendered) \in 0..Len(rendered)
    BY <2>2
  <2>4. PICK f \in [0..Len(rendered) -> Seq(All)] : FlattenSeq(rendered) = f[Len(rendered)]
    BY <1>4, Flattened
  <2> QED
    BY <2>1, <2>3, <2>4
<1> DEFINE text == Render(doc)
<1>6. text \in Seq(All) /\ Len(text) \in Nat
  BY <1>5, LenProperties
<1> HIDE DEF text
<1>7. PICK h \in [1..(Len(text) + 1) -> Seq(Seq(All))] : FindCodeBlocks(text) = h[1]
  BY <1>6, Found
<1>8. 1 \in 1..(Len(text) + 1)
  BY <1>6
<1> QED
  BY <1>7, <1>8 DEF text, CodeText

\* A report is cut to what a message may show.
LEMMA OutputType ==
  ASSUME NEW r \in Reports
  PROVE  FormatResult(r) \in Outputs /\ FormatResult(r).code = r.code
<1>1. r.stdout \in Nat /\ MaxChars \in Nat
  BY SizesAssumption DEF Reports
<1>2. Min({r.stdout, MaxChars}) \in 0..MaxChars
  <2>1. Min({r.stdout, MaxChars}) \in Nat /\ Min({r.stdout, MaxChars}) <= MaxChars
    BY <1>1, MinOfTwo
  <2> QED
    BY <1>1, <2>1
<1>3. r.code \in CodeText /\ r.stderr \in BOOLEAN /\ r.locals \in BOOLEAN
  BY DEF Reports
<1> QED
  BY <1>2, <1>3 DEF FormatResult, Outputs

\* The messages of a turn: the response, and the outputs of its blocks if it has any.
LEMMA IterationMessages ==
  ASSUME NEW doc \in Replies, NEW rs \in Seq(Reports)
  PROVE  LET added == FormatIteration(doc, rs)
             n == Len(rs)
         IN  /\ added \in Seq(Messages) /\ Len(added) = IF n = 0 THEN 1 ELSE 2
             /\ added[1].part = "response" /\ added[1].segments = doc
             /\ n # 0 => /\ added[2].part = "outputs" /\ added[2].outputs \in Seq(Outputs)
                         /\ DOMAIN added[2].outputs = 1..n
                         /\ \A k \in 1..n : added[2].outputs[k].code = rs[k].code
<1> DEFINE n == Len(rs)
           outputs == [k \in DOMAIN rs |-> FormatResult(rs[k])]
           first == [role |-> "assistant", part |-> "response", segments |-> doc]
           second == [role |-> "user", part |-> "outputs", outputs |-> outputs]
<1>1. n \in Nat /\ DOMAIN rs = 1..n /\ \A k \in 1..n : rs[k] \in Reports
  BY LenProperties, ElementOfSeq
<1>2. /\ outputs \in Seq(Outputs) /\ DOMAIN outputs = 1..n
      /\ \A k \in 1..n : outputs[k].code = rs[k].code
  <2>1. outputs \in [1..n -> Outputs]
    BY <1>1, OutputType
  <2>2. outputs \in Seq(Outputs)
    BY <1>1, <2>1, SeqDef
  <2>3. \A k \in 1..n : outputs[k].code = rs[k].code
    BY <1>1, OutputType
  <2> QED
    BY <1>1, <2>2, <2>3
<1> HIDE DEF outputs
<1>3. first \in Messages /\ first.part = "response" /\ first.segments = doc
  BY DEF Messages
<1>4. second \in Messages /\ second.part = "outputs" /\ second.outputs = outputs
  BY <1>2 DEF Messages
<1>5. CASE rs = <<>>
  <2>1. n = 0
    BY <1>5
  <2>2. FormatIteration(doc, rs) = <<first>>
    <3>1. <<first>> \in Seq({first})
      OBVIOUS
    <3>2. <<first>> \o <<>> = <<first>>
      BY <3>1, ConcatEmptySeq
    <3> QED
      BY <1>5, <3>2 DEF FormatIteration
  <2> HIDE DEF first
  <2>3. <<first>> \in Seq(Messages) /\ Len(<<first>>) = 1 /\ <<first>>[1] = first
    BY <1>3
  <2> QED
    BY <1>3, <2>1, <2>2, <2>3
<1>6. CASE rs # <<>>
  <2>1. n # 0
    BY <1>1, <1>6, EmptySeq
  <2>2. FormatIteration(doc, rs) = <<first>> \o <<second>>
    BY <1>6 DEF FormatIteration, outputs
  <2> HIDE DEF first, second
  <2>3. <<first>> \in Seq(Messages) /\ <<second>> \in Seq(Messages)
    BY <1>3, <1>4
  <2>4. /\ Len(<<first>>) = 1 /\ <<first>>[1] = first
        /\ Len(<<second>>) = 1 /\ <<second>>[1] = second
    OBVIOUS
  <2> DEFINE one == <<first>>
             two == <<second>>
  <2> HIDE DEF one, two
  <2>5. /\ one \o two \in Seq(Messages) /\ Len(one \o two) = 1 + 1
        /\ \A i \in 1..(1 + 1) : (one \o two)[i] = IF i <= 1 THEN one[i] ELSE two[i - 1]
    BY <2>3, <2>4, ConcatProperties DEF one, two
  <2>6. (one \o two)[1] = first /\ (one \o two)[2] = second
    BY <2>4, <2>5 DEF one, two
  <2>7. FormatIteration(doc, rs) = one \o two
    BY <2>2 DEF one, two
  <2> DEFINE added == FormatIteration(doc, rs)
  <2>8. added \in Seq(Messages) /\ Len(added) = 2 /\ added[1] = first /\ added[2] = second
    BY <2>5, <2>6, <2>7
  <2> HIDE DEF added, one, two
  <2>9. added[1].part = "response" /\ added[1].segments = doc /\ added[2].part = "outputs"
    BY <1>3, <1>4, <2>8
  <2>10. added[2].outputs = outputs
    BY <1>4, <2>8
  <2>11. /\ added[2].outputs \in Seq(Outputs) /\ DOMAIN added[2].outputs = 1..n
         /\ \A k \in 1..n : added[2].outputs[k].code = rs[k].code
    BY <1>2, <2>10
  <2> HIDE DEF n
  <2>12. Len(added) = IF n = 0 THEN 1 ELSE 2
    BY <2>1, <2>8
  <2> QED
    BY <2>8, <2>9, <2>11, <2>12 DEF added, n
<1> QED
  BY <1>5, <1>6
\* The prompt of a turn is a message, and so are the two that a history begins with.
LEMMA PromptType ==
  /\ BuildSystemPrompt \in Seq(Messages) /\ Len(BuildSystemPrompt) = 2
  /\ BuildSystemPrompt[1].part = "system" /\ BuildSystemPrompt[2].part = "metadata"
  /\ \A i \in Nat : /\ BuildUserPrompt(i) \in Messages
                    /\ BuildUserPrompt(i).part = "turn" /\ BuildUserPrompt(i).turn = i + 1
<1> DEFINE first == [role |-> "system", part |-> "system"]
           second == [role |-> "user", part |-> "metadata"]
<1>1. /\ first \in Messages /\ first.part = "system"
      /\ second \in Messages /\ second.part = "metadata"
  BY DEF Messages
<1>2. BuildSystemPrompt = <<first, second>>
  BY DEF BuildSystemPrompt
<1>3. \A i \in Nat : /\ BuildUserPrompt(i) \in Messages
                     /\ BuildUserPrompt(i).part = "turn" /\ BuildUserPrompt(i).turn = i + 1
  BY DEF BuildUserPrompt, Messages
<1> HIDE DEF first, second
<1>4. /\ <<first, second>> \in Seq(Messages) /\ Len(<<first, second>>) = 2
      /\ <<first, second>>[1] = first /\ <<first, second>>[2] = second
  BY <1>1
<1> QED
  BY <1>1, <1>2, <1>3, <1>4

\* A process that ends adds a report of its block, and resets what its code was told.
LEMMA ReportStep ==
  ASSUME TypeInv, EndBlock \/ BlockDies
  PROVE  /\ \E r \in Reports : results' = Append(results, r) /\ r.code = blocks[Len(results) + 1]
         /\ saved' \in Answers \cup {NoAnswer} /\ pc = "code" /\ pc' = "exec"
         /\ asked' = <<>> /\ got' = <<>> /\ llmCalls' = <<>> /\ answer' = NoAnswer
         /\ UNCHANGED <<iteration, messages, segments, blocks, sent>>
<1>1. /\ pc = "code" /\ Len(results) < Len(blocks) /\ blocks \in Seq(CodeText)
      /\ results \in Seq(Reports) /\ {answer, saved} \subseteq Answers \cup {NoAnswer}
      /\ llmCalls \in Seq(Calls)
  BY DEF TypeInv, BlockTypes, ScriptTypes, EndBlock, BlockDies, ProcessEnds
<1>2. Code \in CodeText
  <2>1. Len(results) \in Nat /\ Len(blocks) \in Nat
    BY <1>1, LenProperties
  <2>2. Len(results) + 1 \in 1..Len(blocks)
    BY <1>1, <2>1
  <2> QED
    BY <1>1, <2>2, ElementOfSeq DEF Code
<1>3. <<>> \in Seq(Calls) /\ NoAnswer \in Answers \cup {NoAnswer}
  BY EmptySeq
<1>4. ASSUME NEW stdout \in Nat, NEW stderr \in BOOLEAN, NEW locals \in BOOLEAN,
             NEW final \in Answers \cup {NoAnswer}, NEW calls \in Seq(Calls), NEW ended \in BOOLEAN
      PROVE  /\ Result(stdout, stderr, locals, final, calls, ended) \in Reports
             /\ Result(stdout, stderr, locals, final, calls, ended).code = Code
  BY <1>2 DEF Result, Reports
<1>5. CASE EndBlock
  <2>1. PICK stdout \in 0..StdoutBound, stderr \in BOOLEAN :
          results' = Append(results, ParseExecOutput(stdout, stderr))
    BY <1>5 DEF EndBlock
  <2>2. stdout \in Nat /\ stdout + 1 \in Nat
    BY SizesAssumption
  <2>3. ParseExecOutput(stdout, stderr) \in Reports /\ ParseExecOutput(stdout, stderr).code = Code
    <3>1. CASE Readable(llmCalls)
      <4>1. ParseExecOutput(stdout, stderr) = Result(stdout, stderr, TRUE, answer, llmCalls, TRUE)
        BY <3>1 DEF ParseExecOutput
      <4>2. answer \in Answers \cup {NoAnswer} /\ llmCalls \in Seq(Calls)
        BY <1>1
      <4>3. /\ Result(stdout, stderr, TRUE, answer, llmCalls, TRUE) \in Reports
            /\ Result(stdout, stderr, TRUE, answer, llmCalls, TRUE).code = Code
        BY <1>4, <2>2, <4>2
      <4> QED
        BY <4>1, <4>3
    <3>2. CASE ~Readable(llmCalls)
      <4>1. ParseExecOutput(stdout, stderr) = Result(stdout + 1, TRUE, FALSE, NoAnswer, <<>>, TRUE)
        BY <3>2 DEF ParseExecOutput
      <4>2. /\ Result(stdout + 1, TRUE, FALSE, NoAnswer, <<>>, TRUE) \in Reports
            /\ Result(stdout + 1, TRUE, FALSE, NoAnswer, <<>>, TRUE).code = Code
        BY <1>3, <1>4, <2>2
      <4> QED
        BY <4>1, <4>2
    <3> QED
      BY <3>1, <3>2
  <2> QED
    BY <1>1, <1>5, <2>1, <2>3 DEF EndBlock, ProcessEnds, Code
<1>6. CASE BlockDies
  <2>1. PICK stdout \in 0..StdoutBound :
          results' = Append(results, Result(stdout, TRUE, FALSE, NoAnswer, <<>>, FALSE))
    BY <1>6 DEF BlockDies
  <2>2. stdout \in Nat
    BY SizesAssumption
  <2>3. LET r == Result(stdout, TRUE, FALSE, NoAnswer, <<>>, FALSE)
        IN  r \in Reports /\ r.code = Code
    BY <1>3, <1>4, <2>2
  <2> QED
    BY <1>1, <1>3, <1>6, <2>1, <2>3 DEF BlockDies, ProcessEnds, Code
<1> QED
  BY <1>5, <1>6

\* Every step keeps the types.
LEMMA TypeStep == TypeInv /\ [Next]_vars => TypeInv'
<1> SUFFICES ASSUME TypeInv, [Next]_vars PROVE TypeInv'
  OBVIOUS
<1>0. /\ Len(results) \in Nat /\ Len(blocks) \in Nat /\ iteration \in Nat /\ MaxIterations \in Nat
      /\ QueriesBound \in Nat
  BY SizesAssumption, LenProperties DEF TypeInv, HostTypes, BlockTypes
<1>h. HostTypes /\ BlockTypes /\ ScriptTypes /\ messages \in Seq(Messages)
  BY DEF TypeInv
<1>s. UNCHANGED <<sent, script>> => ScriptTypes'
  BY <1>h DEF ScriptTypes, script
<1>m. UNCHANGED messages => (messages \in Seq(Messages))'
  BY <1>h
<1>b. UNCHANGED <<pc, blocks, results>> => BlockTypes'
  BY <1>h DEF BlockTypes
<1>p. UNCHANGED <<pc, iteration, segments>> => HostTypes'
  BY <1>h DEF HostTypes
<1>1. CASE StartTurn
  <2>1. HostTypes'
    BY <1>0, <1>1, <1>h DEF StartTurn, HostTypes
  <2>2. BlockTypes'
    BY <1>1, <1>h DEF StartTurn, BlockTypes
  <2>3. messages' \in Seq(Messages)
    <3>1. BuildUserPrompt(iteration) \in Messages
      BY <1>0, <1>h, PromptType DEF HostTypes
    <3>2. messages' = Append(messages, BuildUserPrompt(iteration))
      BY <1>1 DEF StartTurn
    <3> QED
      BY <1>h, <3>1, <3>2
  <2> QED
    BY <1>1, <1>s, <2>1, <2>2, <2>3 DEF StartTurn, TypeInv
<1>2. CASE ModelReply
  <2>1. HostTypes'
    BY <1>2, <1>h DEF ModelReply, HostTypes
  <2>2. BlockTypes'
    <3>1. /\ pc' = "exec" /\ results' = <<>>
          /\ blocks' = FindCodeBlocks(Render(segments')) /\ segments' \in Replies
      BY <1>2 DEF ModelReply
    <3>2. blocks' \in Seq(CodeText) /\ <<>> \in Seq(Reports) /\ Len(<<>>) = 0
      BY <3>1, CodeType, EmptySeq
    <3>3. Len(blocks') \in Nat
      BY <3>2, LenProperties
    <3> QED
      BY <3>1, <3>2, <3>3 DEF BlockTypes
  <2> QED
    BY <1>2, <1>m, <1>s, <2>1, <2>2 DEF ModelReply, TypeInv
<1>3. CASE StartBlock
  <2>1. HostTypes'
    BY <1>3, <1>h DEF StartBlock, HostTypes
  <2>2. BlockTypes'
    BY <1>3, <1>h DEF StartBlock, BlockTypes
  <2>3. ScriptTypes'
    BY <1>3, <1>h DEF StartBlock, ScriptTypes
  <2> QED
    BY <1>3, <1>m, <2>1, <2>2, <2>3 DEF StartBlock, TypeInv
<1>4. CASE EndTurn
  <2>1. /\ pc = "exec" /\ pc' \in {"turn", "answered"} /\ iteration' = iteration + 1
        /\ segments' = <<>> /\ blocks' = <<>> /\ results' = <<>>
    BY <1>4 DEF EndTurn
  <2>2. HostTypes'
    BY <1>0, <1>h, <2>1 DEF HostTypes
  <2>3. BlockTypes'
    <3>1. <<>> \in Seq(CodeText) /\ <<>> \in Seq(Reports) /\ Len(<<>>) = 0
      BY EmptySeq
    <3> QED
      BY <2>1, <3>1 DEF BlockTypes
  <2>4. messages' \in Seq(Messages)
    <3>1. segments \in Replies /\ results \in Seq(Reports)
      BY <1>h, <2>1 DEF HostTypes, BlockTypes
    <3>2. FormatIteration(segments, results) \in Seq(Messages)
      BY <3>1, IterationMessages
    <3>3. messages \o FormatIteration(segments, results) \in Seq(Messages)
      BY <1>h, <3>2, ConcatProperties
    <3> QED
      BY <1>4, <1>h, <3>3 DEF EndTurn
  <2> QED
    BY <1>4, <1>s, <2>2, <2>3, <2>4 DEF EndTurn, TypeInv
<1>5. CASE DefaultAnswer
  <2>1. HostTypes'
    BY <1>5, <1>h DEF DefaultAnswer, HostTypes
  <2>2. BlockTypes'
    BY <1>5, <1>h DEF DefaultAnswer, BlockTypes
  <2> QED
    BY <1>5, <1>m, <1>s, <2>1, <2>2 DEF DefaultAnswer, TypeInv
<1>6. CASE EndBlock \/ BlockDies
  <2>1. /\ saved' \in Answers \cup {NoAnswer} /\ pc = "code" /\ pc' = "exec"
        /\ asked' = <<>> /\ got' = <<>> /\ llmCalls' = <<>> /\ answer' = NoAnswer
        /\ UNCHANGED <<iteration, messages, segments, blocks, sent>>
    BY <1>6, ReportStep
  <2>2. PICK r \in Reports : results' = Append(results, r)
    BY <1>6, ReportStep
  <2>3. HostTypes'
    BY <1>h, <2>1 DEF HostTypes
  <2>4. BlockTypes'
    <3>1. results \in Seq(Reports) /\ Len(results) < Len(blocks) /\ blocks \in Seq(CodeText)
      BY <1>h, <2>1 DEF BlockTypes
    <3>2. Append(results, r) \in Seq(Reports) /\ Len(Append(results, r)) = Len(results) + 1
      BY <3>1
    <3> QED
      BY <1>0, <2>1, <2>2, <3>1, <3>2 DEF BlockTypes
  <2>5. ScriptTypes'
    <3>1. <<>> \in Seq(PromptKinds) /\ <<>> \in Seq(Calls)
      BY EmptySeq
    <3> QED
      BY <1>h, <2>1, <3>1 DEF ScriptTypes
  <2> QED
    BY <1>m, <2>1, <2>3, <2>4, <2>5 DEF TypeInv
<1>r. ASSUME NEW prompt \in PromptKinds, QueryRaises(prompt) PROVE TypeInv'
  <2>1. /\ sent' = sent + 1 /\ sent + Len(<<prompt>>) <= QueriesBound /\ Len(<<prompt>>) = 1
        /\ UNCHANGED <<pc, iteration, messages, segments, blocks, results, script>>
    BY <1>r DEF QueryRaises, CanSend
  <2>2. ScriptTypes'
    BY <1>0, <1>h, <2>1 DEF ScriptTypes, script
  <2> QED
    BY <1>b, <1>m, <1>p, <2>1, <2>2 DEF TypeInv
<1>7. ASSUME NEW q \in Queries, QueryException(q) PROVE TypeInv'
  <2>1. /\ got' = got \o ExceptionResults(q) /\ asked' = asked \o q
        /\ sent' = sent + Len(q) /\ sent + Len(q) <= QueriesBound
        /\ UNCHANGED <<pc, iteration, messages, segments, blocks, results, llmCalls,
                       answer, saved>>
    BY <1>7 DEF QueryException, CanSend
  <2>2. q \in Seq(PromptKinds) /\ ExceptionResults(q) \in Seq(Calls) /\ Len(q) \in Nat
    BY QueryType, ExceptionsFit, LenProperties
  <2>3. asked \o q \in Seq(PromptKinds) /\ got \o ExceptionResults(q) \in Seq(Calls)
    BY <1>h, <2>2, ConcatProperties DEF ScriptTypes
  <2>4. ScriptTypes'
    BY <1>0, <1>h, <2>1, <2>2, <2>3 DEF ScriptTypes
  <2> QED
    BY <1>b, <1>m, <1>p, <2>1, <2>4 DEF TypeInv
<1>8. ASSUME NEW q \in Queries, NEW outcomes \in [DOMAIN q -> {"content", "error"}],
             QueryAnswered(q, outcomes)
      PROVE  TypeInv'
  <2> DEFINE replies == [k \in DOMAIN q |-> Replied(Len(asked) + k, q[k], outcomes[k])]
  <2>1. /\ got' = got \o replies /\ llmCalls' = llmCalls \o replies /\ asked' = asked \o q
        /\ sent' = sent + Len(q) /\ sent + Len(q) <= QueriesBound
        /\ UNCHANGED <<pc, iteration, messages, segments, blocks, results, answer, saved>>
    BY <1>8 DEF QueryAnswered, CanSend, RecordCalls
  <2>2. q \in Seq(PromptKinds) /\ Len(q) \in Nat /\ Len(asked) \in Nat
    BY <1>h, QueryType, LenProperties DEF ScriptTypes
  <2>3. replies \in Seq(Calls)
    BY <2>2, RepliesFit
  <2> HIDE DEF replies
  <2>4. /\ asked \o q \in Seq(PromptKinds) /\ got \o replies \in Seq(Calls)
        /\ llmCalls \o replies \in Seq(Calls)
    BY <1>h, <2>2, <2>3, ConcatProperties DEF ScriptTypes
  <2>5. ScriptTypes'
    BY <1>0, <1>h, <2>1, <2>2, <2>4 DEF ScriptTypes
  <2> QED
    BY <1>b, <1>m, <1>p, <2>1, <2>5 DEF TypeInv
<1>9. ASSUME NEW a \in Answers \cup {NoAnswer}, SubmitAnswer(a) PROVE TypeInv'
  <2>1. ScriptTypes'
    BY <1>9, <1>h DEF SubmitAnswer, ScriptTypes
  <2> QED
    BY <1>9, <1>b, <1>m, <1>p, <2>1 DEF SubmitAnswer, TypeInv
<1>10. CASE UNCHANGED vars
  BY <1>10, <1>b, <1>m, <1>p, <1>s DEF vars, script, TypeInv
<1> QED
  BY <1>r, <1>1, <1>2, <1>3, <1>4, <1>5, <1>6, <1>7, <1>8, <1>9, <1>10 DEF Next

\* Every variable keeps its type, whatever the documents, the queries and the failures.
LEMMA TypeCorrect == Spec => []TypeInv
<1>1. Init => TypeInv
  <2> SUFFICES ASSUME Init PROVE TypeInv
    OBVIOUS
  <2>1. <<>> \in Seq(CodeText) /\ <<>> \in Seq(Reports) /\ Len(<<>>) = 0
        /\ <<>> \in Seq(PromptKinds) /\ <<>> \in Seq(Calls)
    BY EmptySeq
  <2>2. messages \in Seq(Messages)
    BY PromptType DEF Init
  <2>3. HostTypes
    BY SizesAssumption DEF Init, HostTypes
  <2>4. BlockTypes
    BY <2>1 DEF Init, BlockTypes
  <2>5. ScriptTypes
    BY <2>1, SizesAssumption DEF Init, ScriptTypes
  <2> QED
    BY <2>2, <2>3, <2>4, <2>5 DEF TypeInv
<1> QED
  BY <1>1, TypeStep, PTL DEF Spec

\* In particular of a block's standard output the model sees no more than MaxChars.
THEOREM Typing == Spec => []TypeOK
<1>1. TypeInv => TypeOK
  <2> SUFFICES ASSUME TypeInv PROVE TypeOK
    OBVIOUS
  <2>1. ASSUME NEW k \in DOMAIN messages, messages[k].part = "outputs",
               NEW b \in DOMAIN messages[k].outputs
        PROVE  messages[k].outputs[b].stdout <= MaxChars
    <3>1. messages[k] \in Messages
      <4>1. messages \in Seq(Messages)
        BY DEF TypeInv
      <4> QED
        BY <4>1, LenProperties, ElementOfSeq
    <3>2. messages[k].outputs \in Seq(Outputs)
      BY <2>1, <3>1 DEF Messages
    <3>3. messages[k].outputs[b] \in Outputs
      BY <2>1, <3>2, LenProperties, ElementOfSeq
    <3>4. MaxChars \in Nat
      BY SizesAssumption
    <3> QED
      BY <3>3, <3>4 DEF Outputs
  <2>2. /\ pc \in {"turn", "model", "exec", "code", "answered"}
        /\ iteration \in 0..MaxIterations /\ segments \in Replies \cup {<<>>}
    BY DEF TypeInv, HostTypes
  <2>3. Len(results) <= Len(blocks)
    BY DEF TypeInv, BlockTypes
  <2>4. /\ sent \in 0..QueriesBound
        /\ asked \in Seq(PromptKinds) /\ got \in Seq(Calls) /\ llmCalls \in Seq(Calls)
        /\ {answer, saved} \subseteq Answers \cup {NoAnswer}
    BY DEF TypeInv, ScriptTypes
  <2> QED
    BY <2>1, <2>2, <2>3, <2>4 DEF TypeOK
<1> QED
  BY <1>1, TypeCorrect, PTL
----------------------------------------------------------------------------
(* The transcript *)

\* Transcript, of any history: what stands before and after its message k.
IsResponse(m, k) == m[k].part = "response"
HasOutputs(m, k) == k \in DOMAIN m /\ m[k].part = "outputs"
Responses(m, k) == {j \in 1..k : IsResponse(m, j)}
InPlace(m, k) ==
  /\ IsResponse(m, k) =>
       /\ m[k - 1].part = "turn"
       /\ m[k - 1].turn = Cardinality(Responses(m, k))
       /\ LET codes == CodeOf(m[k].segments)
          IN  IF codes = <<>> THEN ~HasOutputs(m, k + 1)
              ELSE /\ HasOutputs(m, k + 1)
                   /\ codes = [b \in DOMAIN m[k + 1].outputs |-> m[k + 1].outputs[b].code]
  /\ HasOutputs(m, k) => IsResponse(m, k - 1)
Follows(m) == m[1].part = "system" /\ \A k \in DOMAIN m : InPlace(m, k)

LEMMA TranscriptOf == Transcript <=> \A k \in DOMAIN messages : InPlace(messages, k)
BY DEF Transcript, InPlace, ResponseAt, OutputsAt, IsResponse, HasOutputs, Responses

\* Responses are counted one by one.
LEMMA CountOfResponses ==
  ASSUME NEW m, NEW k \in Nat
  PROVE  /\ IsFiniteSet(Responses(m, k)) /\ Cardinality(Responses(m, k)) \in Nat
         /\ Cardinality(Responses(m, k + 1)) =
              Cardinality(Responses(m, k)) + (IF IsResponse(m, k + 1) THEN 1 ELSE 0)
<1>1. IsFiniteSet(Responses(m, k))
  <2>1. IsFiniteSet(1..k)
    BY FS_Interval
  <2>2. Responses(m, k) \in SUBSET (1..k)
    BY DEF Responses
  <2> QED
    BY <2>1, <2>2, FS_Subset
<1>2. Cardinality(Responses(m, k)) \in Nat
  BY <1>1, FS_CardinalityType
<1>3. k + 1 \notin Responses(m, k)
  BY DEF Responses
<1>4. 1..(k + 1) = (1..k) \cup {k + 1}
  OBVIOUS
<1>5. CASE IsResponse(m, k + 1)
  <2>1. Responses(m, k + 1) = Responses(m, k) \cup {k + 1}
    BY <1>4, <1>5 DEF Responses
  <2> QED
    BY <1>1, <1>2, <1>3, <1>5, <2>1, FS_AddElement
<1>6. CASE ~IsResponse(m, k + 1)
  <2>1. Responses(m, k + 1) = Responses(m, k)
    BY <1>4, <1>6 DEF Responses
  <2> QED
    BY <1>1, <1>2, <1>6, <2>1
<1> QED
  BY <1>5, <1>6

\* What is said of a message stays true when the history grows by messages that do not begin with
\* outputs.
LEMMA Grown ==
  ASSUME NEW m \in Seq(Messages), NEW more \in Seq(Messages), Follows(m),
         Len(m) >= 1, Len(more) >= 1, more[1].part # "outputs"
  PROVE  LET all == m \o more
             n == Len(m)
         IN  /\ all \in Seq(Messages) /\ DOMAIN all = 1..(n + Len(more)) /\ Len(all) = n + Len(more)
             /\ \A k \in 1..n : all[k] = m[k] /\ InPlace(all, k)
             /\ \A k \in 1..Len(more) : all[n + k] = more[k]
             /\ Responses(all, n) = Responses(m, n)
             /\ all[1].part = "system"
<1> DEFINE all == m \o more
           n == Len(m)
<1>1. n \in Nat /\ DOMAIN m = 1..n /\ Len(more) \in Nat
  BY LenProperties
<1>2. /\ all \in Seq(Messages) /\ Len(all) = n + Len(more)
      /\ \A k \in 1..(n + Len(more)) : all[k] = IF k <= n THEN m[k] ELSE more[k - n]
  BY ConcatProperties
<1>3. DOMAIN all = 1..(n + Len(more))
  BY <1>2, LenProperties
<1> HIDE DEF all
<1>4. ASSUME NEW k \in 1..n PROVE all[k] = m[k]
  <2>1. k \in 1..(n + Len(more)) /\ k <= n
    BY <1>1
  <2> QED
    BY <1>2, <2>1
<1>5. ASSUME NEW k \in 1..Len(more) PROVE all[n + k] = more[k]
  <2>1. n + k \in 1..(n + Len(more)) /\ ~(n + k <= n) /\ (n + k) - n = k
    BY <1>1
  <2> QED
    BY <1>2, <2>1
<1> HIDE DEF n
<1>6. ASSUME NEW k \in 1..n PROVE Responses(all, k) = Responses(m, k)
  <2>1. \A j \in 1..k : j \in 1..n
    BY <1>1
  <2> QED
    BY <1>4, <2>1 DEF Responses, IsResponse
<1>7. all[n + 1].part # "outputs"
  BY <1>1, <1>5
<1>8. ASSUME NEW k \in 1..n PROVE InPlace(all, k)
  <2>1. InPlace(m, k)
    BY <1>1 DEF Follows
  <2>2. all[k] = m[k] /\ (k # 1 => k - 1 \in 1..n /\ all[k - 1] = m[k - 1])
    BY <1>1, <1>4
  <2>3. m[1].part = "system"
    BY DEF Follows
  <2>4. k \in DOMAIN m /\ k \in DOMAIN all
    BY <1>1, <1>3
  <2>5. ASSUME k # n
        PROVE  /\ all[k + 1] = m[k + 1]
               /\ HasOutputs(all, k + 1) <=> HasOutputs(m, k + 1)
    <3>1. k + 1 \in 1..n /\ k + 1 \in DOMAIN all
      BY <1>1, <1>3, <2>5
    <3> QED
      BY <1>1, <1>4, <3>1 DEF HasOutputs
  <2>6. k = n => ~HasOutputs(all, k + 1) /\ ~HasOutputs(m, k + 1)
    BY <1>1, <1>7 DEF HasOutputs
  <2>7. CASE IsResponse(m, k)
    <3>1. k # 1 /\ IsResponse(all, k) /\ ~HasOutputs(all, k)
      BY <2>2, <2>3, <2>7 DEF IsResponse, HasOutputs
    <3>2. /\ m[k - 1].part = "turn" /\ m[k - 1].turn = Cardinality(Responses(m, k))
          /\ LET codes == CodeOf(m[k].segments)
             IN  IF codes = <<>> THEN ~HasOutputs(m, k + 1)
                 ELSE /\ HasOutputs(m, k + 1)
                      /\ codes = [b \in DOMAIN m[k + 1].outputs |-> m[k + 1].outputs[b].code]
      BY <2>1, <2>7 DEF InPlace
    <3>3. all[k - 1].part = "turn" /\ all[k - 1].turn = Cardinality(Responses(all, k))
      BY <1>6, <2>2, <3>1, <3>2
    <3>4. LET codes == CodeOf(all[k].segments)
          IN  IF codes = <<>> THEN ~HasOutputs(all, k + 1)
              ELSE /\ HasOutputs(all, k + 1)
                   /\ codes = [b \in DOMAIN all[k + 1].outputs |-> all[k + 1].outputs[b].code]
      BY <2>2, <2>5, <2>6, <3>2
    <3> QED
      BY <3>1, <3>3, <3>4 DEF InPlace
  <2>8. CASE ~IsResponse(m, k)
    <3>1. ~IsResponse(all, k)
      BY <2>2, <2>8 DEF IsResponse
    <3>2. HasOutputs(all, k) => IsResponse(all, k - 1)
      <4>1. SUFFICES ASSUME HasOutputs(all, k) PROVE IsResponse(all, k - 1)
        OBVIOUS
      <4>2. HasOutputs(m, k) /\ k # 1
        BY <2>2, <2>3, <2>4, <4>1 DEF HasOutputs
      <4>3. IsResponse(m, k - 1)
        BY <2>1, <4>2 DEF InPlace
      <4> QED
        BY <2>2, <4>2, <4>3 DEF IsResponse
    <3> QED
      BY <3>1, <3>2 DEF InPlace
  <2> QED
    BY <2>7, <2>8
<1>9. n \in 1..n /\ 1 \in 1..n
  BY <1>1 DEF n
<1>10. Responses(all, n) = Responses(m, n)
  BY <1>6, <1>9
<1>11. all[1].part = "system"
  BY <1>4, <1>9 DEF Follows
<1> QED
  BY <1>1, <1>2, <1>3, <1>4, <1>5, <1>8, <1>10, <1>11 DEF all, n

\* The prompt of a turn may follow any history.
LEMMA PromptAdded ==
  ASSUME NEW m \in Seq(Messages), Follows(m), Len(m) >= 1,
         NEW prompt \in Messages, prompt.part = "turn"
  PROVE  LET all == Append(m, prompt)
         IN  /\ Follows(all) /\ Len(all) = Len(m) + 1 /\ all[Len(all)] = prompt
             /\ Cardinality(Responses(all, Len(all))) = Cardinality(Responses(m, Len(m)))
<1> DEFINE more == <<prompt>>
           all == m \o more
           n == Len(m)
<1>1. n \in Nat /\ more \in Seq(Messages) /\ Len(more) = 1 /\ more[1] = prompt
  BY LenProperties
<1>2. Append(m, prompt) = all
  BY <1>1, AppendIsConcat
<1> HIDE DEF more
<1>3. /\ all \in Seq(Messages) /\ DOMAIN all = 1..(n + 1) /\ Len(all) = n + 1
      /\ \A k \in 1..n : InPlace(all, k)
      /\ all[n + 1] = prompt
      /\ Responses(all, n) = Responses(m, n)
      /\ all[1].part = "system"
  <2>1. Len(more) >= 1 /\ more[1].part # "outputs" /\ 1 \in 1..Len(more)
    BY <1>1
  <2>2. /\ all \in Seq(Messages) /\ DOMAIN all = 1..(n + Len(more)) /\ Len(all) = n + Len(more)
        /\ \A k \in 1..n : InPlace(all, k)
        /\ \A k \in 1..Len(more) : all[n + k] = more[k]
        /\ Responses(all, n) = Responses(m, n)
        /\ all[1].part = "system"
    BY <1>1, <2>1, Grown
  <2> HIDE DEF all, n
  <2> QED
    BY <1>1, <2>1, <2>2
<1> HIDE DEF all, n
<1>4. ~IsResponse(all, n + 1) /\ ~HasOutputs(all, n + 1)
  BY <1>3 DEF IsResponse, HasOutputs
<1>5. InPlace(all, n + 1)
  BY <1>4 DEF InPlace
<1>6. \A k \in 1..(n + 1) : k \in 1..n \/ k = n + 1
  BY <1>1
<1>7. Follows(all)
  BY <1>3, <1>5, <1>6 DEF Follows
<1>8. Cardinality(Responses(all, n + 1)) = Cardinality(Responses(m, n))
  BY <1>1, <1>3, <1>4, CountOfResponses
<1> QED
  BY <1>2, <1>3, <1>7, <1>8 DEF n

\* After the prompt of its turn come the response and the outputs of the blocks it contains.
LEMMA TurnAdded ==
  ASSUME NEW m \in Seq(Messages), Follows(m), Len(m) >= 1,
         m[Len(m)].part = "turn", m[Len(m)].turn = Cardinality(Responses(m, Len(m))) + 1,
         NEW doc \in Replies, NEW rs \in Seq(Reports),
         CodeOf(doc) \in Seq(CodeText), Len(CodeOf(doc)) = Len(rs),
         \A b \in 1..Len(rs) : rs[b].code = CodeOf(doc)[b]
  PROVE  LET all == m \o FormatIteration(doc, rs)
         IN  /\ Follows(all) /\ Len(all) >= 1
             /\ Cardinality(Responses(all, Len(all))) = Cardinality(Responses(m, Len(m))) + 1
<1> DEFINE more == FormatIteration(doc, rs)
           all == m \o more
           n == Len(m)
           last == Len(rs)
<1>1. n \in Nat /\ last \in Nat /\ n >= 1
  BY LenProperties
<1>2. /\ more \in Seq(Messages) /\ Len(more) = IF last = 0 THEN 1 ELSE 2
      /\ more[1].part = "response" /\ more[1].segments = doc
      /\ last # 0 => /\ more[2].part = "outputs" /\ DOMAIN more[2].outputs = 1..last
                     /\ \A b \in 1..last : more[2].outputs[b].code = rs[b].code
  BY IterationMessages
<1> HIDE DEF more
<1>3. Len(more) \in Nat /\ Len(more) >= 1 /\ more[1].part # "outputs"
  BY <1>1, <1>2
<1>4. /\ all \in Seq(Messages) /\ DOMAIN all = 1..(n + Len(more)) /\ Len(all) = n + Len(more)
      /\ \A k \in 1..n : all[k] = m[k] /\ InPlace(all, k)
      /\ \A k \in 1..Len(more) : all[n + k] = more[k]
      /\ Responses(all, n) = Responses(m, n)
      /\ all[1].part = "system"
  BY <1>3, <1>2, <1>1, Grown
<1> HIDE DEF all
<1>5. all[n + 1] = more[1] /\ (last # 0 => all[n + 2] = more[2])
  <2>1. 1 \in 1..Len(more) /\ (last # 0 => 2 \in 1..Len(more))
    BY <1>2, <1>3
  <2> QED
    BY <1>4, <2>1
<1>6. all[n].part = "turn" /\ all[n].turn = Cardinality(Responses(all, n)) + 1
  <2>1. n \in 1..n
    BY <1>1
  <2> QED
    BY <1>4, <2>1
<1> HIDE DEF n, last
<1>7. IsResponse(all, n + 1) /\ ~HasOutputs(all, n + 1)
  BY <1>2, <1>5 DEF IsResponse, HasOutputs
<1>8. Cardinality(Responses(all, n + 1)) = Cardinality(Responses(all, n)) + 1
  BY <1>1, <1>7, CountOfResponses
<1>9. /\ CodeOf(doc) \in Seq(CodeText) /\ Len(CodeOf(doc)) = last
      /\ \A b \in 1..last : rs[b].code = CodeOf(doc)[b]
  BY DEF last
<1>10. CASE last = 0
  <2>1. CodeOf(doc) = <<>>
    BY <1>9, <1>10, EmptySeq
  <2>2. Len(all) = n + 1 /\ DOMAIN all = 1..(n + 1)
    BY <1>2, <1>4, <1>10
  <2>3. ~HasOutputs(all, (n + 1) + 1)
    BY <1>1, <2>2 DEF HasOutputs
  <2>4. InPlace(all, n + 1)
    <3>1. (n + 1) - 1 = n
      BY <1>1
    <3> QED
      BY <1>2, <1>5, <1>6, <1>7, <1>8, <2>1, <2>3, <3>1 DEF InPlace
  <2>5. \A k \in 1..(n + 1) : k \in 1..n \/ k = n + 1
    BY <1>1
  <2>6. Follows(all)
    BY <1>4, <2>2, <2>4, <2>5 DEF Follows
  <2> QED
    BY <1>1, <1>4, <1>8, <2>2, <2>6 DEF all, more, n
<1>11. CASE last # 0
  <2>1. Len(all) = n + 2 /\ DOMAIN all = 1..(n + 2)
    BY <1>2, <1>4, <1>11
  <2>2. HasOutputs(all, n + 2) /\ ~IsResponse(all, n + 2)
    BY <1>1, <1>2, <1>5, <1>11, <2>1 DEF HasOutputs, IsResponse
  <2> DEFINE outputs == all[n + 2].outputs
             codes == CodeOf(doc)
  <2>3. codes # <<>> /\ codes = [b \in DOMAIN outputs |-> outputs[b].code]
    <3>1. DOMAIN outputs = 1..last /\ \A b \in 1..last : outputs[b].code = codes[b]
      BY <1>2, <1>5, <1>9, <1>11
    <3>2. codes \in [1..last -> CodeText]
      BY <1>9, LenProperties
    <3>3. Len(<<>>) = 0 /\ Len(codes) # 0
      BY <1>9, <1>11
    <3> HIDE DEF outputs, codes
    <3> QED
      BY <3>1, <3>2, <3>3
  <2> HIDE DEF codes
  <2>4. InPlace(all, n + 1)
    <3>1. (n + 1) - 1 = n /\ (n + 1) + 1 = n + 2
      BY <1>1
    <3>2. CodeOf(all[n + 1].segments) = codes
      BY <1>2, <1>5 DEF codes
    <3> QED
      BY <1>6, <1>7, <1>8, <2>2, <2>3, <3>1, <3>2 DEF InPlace
  <2>5. InPlace(all, n + 2)
    <3>1. (n + 2) - 1 = n + 1
      BY <1>1
    <3> QED
      BY <1>7, <2>2, <3>1 DEF InPlace
  <2>6. \A k \in 1..(n + 2) : k \in 1..n \/ k = n + 1 \/ k = n + 2
    BY <1>1
  <2>7. Follows(all)
    BY <1>4, <2>1, <2>4, <2>5, <2>6 DEF Follows
  <2>8. Cardinality(Responses(all, n + 2)) = Cardinality(Responses(all, n)) + 1
    <3>1. n + 1 \in Nat /\ (n + 1) + 1 = n + 2
      BY <1>1
    <3>2. Cardinality(Responses(all, n + 1)) \in Nat
      BY <3>1, CountOfResponses
    <3>3. Cardinality(Responses(all, (n + 1) + 1)) = Cardinality(Responses(all, n + 1))
      BY <2>2, <3>1, <3>2, CountOfResponses
    <3> QED
      BY <1>8, <3>1, <3>3
  <2> QED
    BY <1>1, <1>4, <2>1, <2>7, <2>8 DEF all, more, n
<1> QED
  BY <1>10, <1>11

\* While a turn lasts the history ends with its prompt; the turns completed are the responses in it.
TranscriptInv ==
  /\ Len(messages) >= 1 /\ Follows(messages)
  /\ pc \in {"model", "exec", "code"} =>
       messages[Len(messages)].part = "turn" /\ messages[Len(messages)].turn = iteration + 1
  /\ pc # "answered" => Cardinality(Responses(messages, Len(messages))) = iteration
  /\ \A b \in DOMAIN results : results[b].code = blocks[b]

LEMMA TranscriptStep == TypeInv /\ ParsedInv /\ TranscriptInv /\ [Next]_vars => TranscriptInv'
<1> SUFFICES ASSUME TypeInv, ParsedInv, TranscriptInv, [Next]_vars PROVE TranscriptInv'
  OBVIOUS
<1>0. /\ messages \in Seq(Messages) /\ iteration \in Nat
      /\ results \in Seq(Reports) /\ blocks \in Seq(CodeText)
      /\ Len(results) \in Nat /\ Len(blocks) \in Nat /\ DOMAIN results = 1..Len(results)
  BY LenProperties DEF TypeInv, HostTypes, BlockTypes
<1>u. UNCHANGED <<pc, iteration, messages, blocks, results>> => TranscriptInv'
  BY DEF TranscriptInv
<1>1. CASE StartTurn
  <2> DEFINE prompt == BuildUserPrompt(iteration)
  <2>1. /\ pc = "turn" /\ pc' = "model" /\ messages' = Append(messages, prompt)
        /\ UNCHANGED <<iteration, blocks, results>>
    BY <1>1 DEF StartTurn
  <2>2. prompt \in Messages /\ prompt.part = "turn" /\ prompt.turn = iteration + 1
    BY <1>0, PromptType
  <2> HIDE DEF prompt
  <2>3. /\ Follows(Append(messages, prompt))
        /\ Len(Append(messages, prompt)) = Len(messages) + 1
        /\ Append(messages, prompt)[Len(Append(messages, prompt))] = prompt
        /\ Cardinality(Responses(Append(messages, prompt), Len(Append(messages, prompt)))) =
             Cardinality(Responses(messages, Len(messages)))
    BY <1>0, <2>2, PromptAdded DEF TranscriptInv
  <2>4. Len(messages) \in Nat
    BY <1>0, LenProperties
  <2> QED
    BY <2>1, <2>2, <2>3, <2>4 DEF TranscriptInv
<1>2. CASE ModelReply
  <2>1. /\ pc = "model" /\ pc' = "exec" /\ results' = <<>>
        /\ UNCHANGED <<iteration, messages>>
    BY <1>2 DEF ModelReply
  <2> QED
    BY <2>1 DEF TranscriptInv
<1>3. CASE StartBlock
  BY <1>3 DEF StartBlock, TranscriptInv
<1>4. CASE EndTurn
  <2>1. /\ pc = "exec" /\ iteration' = iteration + 1 /\ results' = <<>>
        /\ Len(results) = Len(blocks) /\ blocks = CodeOf(segments) /\ segments \in Replies
        /\ \/ pc' = "answered" /\ messages' = messages
           \/ pc' = "turn" /\ messages' = messages \o FormatIteration(segments, results)
    BY <1>4 DEF EndTurn, ParsedInv
  <2>2. CASE pc' = "answered" /\ messages' = messages
    BY <2>1, <2>2 DEF TranscriptInv
  <2>3. CASE pc' = "turn" /\ messages' = messages \o FormatIteration(segments, results)
    <3> DEFINE all == messages \o FormatIteration(segments, results)
    <3>1. /\ Len(messages) >= 1 /\ Follows(messages)
          /\ messages[Len(messages)].part = "turn"
          /\ Cardinality(Responses(messages, Len(messages))) = iteration
          /\ messages[Len(messages)].turn = iteration + 1
      BY <2>1 DEF TranscriptInv
    <3>2. /\ CodeOf(segments) \in Seq(CodeText) /\ Len(CodeOf(segments)) = Len(results)
          /\ \A b \in 1..Len(results) : results[b].code = CodeOf(segments)[b]
      BY <1>0, <2>1 DEF TranscriptInv
    <3>3. /\ Follows(all) /\ Len(all) >= 1
          /\ Cardinality(Responses(all, Len(all))) =
               Cardinality(Responses(messages, Len(messages))) + 1
      BY <1>0, <2>1, <3>1, <3>2, TurnAdded
    <3> HIDE DEF all
    <3>4. messages' = all
      BY <2>3 DEF all
    <3> QED
      BY <2>1, <2>3, <3>1, <3>3, <3>4 DEF TranscriptInv
  <2> QED
    BY <2>1, <2>2, <2>3
<1>5. CASE DefaultAnswer
  BY <1>5 DEF DefaultAnswer, TranscriptInv
<1>6. CASE EndBlock \/ BlockDies
  <2>1. pc = "code" /\ pc' = "exec" /\ UNCHANGED <<iteration, messages, blocks>>
    BY <1>6, ReportStep
  <2>2. PICK r \in Reports : results' = Append(results, r) /\ r.code = blocks[Len(results) + 1]
    BY <1>6, ReportStep
  <2>3. \A b \in DOMAIN results' : results'[b].code = blocks[b]
    <3>1. DOMAIN Append(results, r) = 1..(Len(results) + 1)
      BY <1>0
    <3>2. ASSUME NEW b \in 1..(Len(results) + 1) PROVE Append(results, r)[b].code = blocks[b]
      <4>1. CASE b = Len(results) + 1
        BY <1>0, <2>2, <4>1
      <4>2. CASE b # Len(results) + 1
        <5>1. b \in 1..Len(results)
          BY <1>0, <4>2
        <5>2. Append(results, r)[b] = results[b]
          BY <1>0, <5>1
        <5> QED
          BY <1>0, <5>1, <5>2 DEF TranscriptInv
      <4> QED
        BY <4>1, <4>2
    <3> QED
      BY <2>2, <3>1, <3>2
  <2> QED
    BY <2>1, <2>3 DEF TranscriptInv
<1>r. CASE \E prompt \in PromptKinds : QueryRaises(prompt)
  BY <1>r, <1>u DEF QueryRaises
<1>7. CASE \E q \in Queries : QueryException(q)
  BY <1>7, <1>u DEF QueryException
<1>8. ASSUME NEW q \in Queries, NEW outcomes \in [DOMAIN q -> {"content", "error"}],
             QueryAnswered(q, outcomes)
      PROVE  TranscriptInv'
  BY <1>8, <1>u DEF QueryAnswered
<1>9. CASE \E a \in Answers \cup {NoAnswer} : SubmitAnswer(a)
  BY <1>9, <1>u DEF SubmitAnswer
<1>10. CASE UNCHANGED vars
  BY <1>10, <1>u DEF vars
<1> QED
  BY <1>r, <1>1, <1>2, <1>3, <1>4, <1>5, <1>6, <1>7, <1>8, <1>9, <1>10 DEF Next

\* In the history every response stands after the prompt of its turn and before the outputs of the
\* blocks it contains, for any number of turns and of blocks.
THEOREM Transcribed ==
  ASSUME \A doc \in Replies : WellFormed(doc)
  PROVE  Spec => []Transcript
<1>1. Init => TranscriptInv
  <2> SUFFICES ASSUME Init PROVE TranscriptInv
    OBVIOUS
  <2> DEFINE m == BuildSystemPrompt
  <2>1. /\ m \in Seq(Messages) /\ Len(m) = 2 /\ m[1].part = "system" /\ m[2].part = "metadata"
    BY PromptType
  <2>2. messages = m /\ pc = "turn" /\ iteration = 0 /\ results = <<>>
    BY DEF Init
  <2> HIDE DEF m
  <2>3. \A k \in 1..2 : ~IsResponse(m, k) /\ ~HasOutputs(m, k)
    BY <2>1 DEF IsResponse, HasOutputs
  <2>4. Follows(m)
    <3>1. DOMAIN m = 1..2
      BY <2>1, LenProperties
    <3> QED
      BY <2>1, <2>3, <3>1 DEF Follows, InPlace
  <2>5. Responses(m, 2) = {}
    BY <2>3 DEF Responses
  <2>6. Cardinality(Responses(m, 2)) = 0
    BY <2>5, FS_EmptySet
  <2>7. Len(messages) = 2 /\ Follows(messages)
    BY <2>1, <2>2, <2>4
  <2>8. Cardinality(Responses(messages, Len(messages))) = 0
    BY <2>1, <2>2, <2>6
  <2>9. DOMAIN results = {}
    BY <2>2
  <2> QED
    BY <2>2, <2>7, <2>8, <2>9 DEF TranscriptInv
<1>2. TranscriptInv => Transcript
  BY TranscriptOf DEF TranscriptInv, Follows
<1>3. Spec => []ParsedInv
  BY ParsedAlways
<1> QED
  BY <1>1, <1>2, <1>3, TypeCorrect, TranscriptStep, PTL DEF Spec
----------------------------------------------------------------------------
(* The calls a block reports *)

\* CallsOf, of any calls and of any answers; the calls are among the answers.
AnsweredIn(g) == {k \in DOMAIN g : g[k].outcome # "exception"}
PlaceIn(g, k) == Cardinality({j \in AnsweredIn(g) : j <= k})
Recorded(calls, g) ==
  /\ Len(calls) = Cardinality(AnsweredIn(g))
  /\ \A k \in AnsweredIn(g) : calls[PlaceIn(g, k)] = g[k]
  /\ \A m \in DOMAIN calls : \E k \in DOMAIN g : calls[m] = g[k]

LEMMA RecordedCalls == Recorded(llmCalls, got) => CallsOf(llmCalls)
BY DEF Recorded, CallsOf, AnsweredIn, PlaceIn, AnsweredPrompts, Place

\* The place of an answer is a place among the answers.
LEMMA PlaceType ==
  ASSUME NEW g \in Seq(Calls)
  PROVE  /\ AnsweredIn(g) \subseteq 1..Len(g) /\ IsFiniteSet(AnsweredIn(g))
         /\ Cardinality(AnsweredIn(g)) \in Nat
         /\ \A k \in AnsweredIn(g) : PlaceIn(g, k) \in 1..Cardinality(AnsweredIn(g))
<1>1. Len(g) \in Nat /\ DOMAIN g = 1..Len(g)
  BY LenProperties
<1>2. AnsweredIn(g) \subseteq 1..Len(g)
  BY <1>1 DEF AnsweredIn
<1>3. IsFiniteSet(AnsweredIn(g))
  <2>1. IsFiniteSet(1..Len(g))
    BY <1>1, FS_Interval
  <2> QED
    BY <1>2, <2>1, FS_Subset
<1>4. Cardinality(AnsweredIn(g)) \in Nat
  BY <1>3, FS_CardinalityType
<1>5. ASSUME NEW k \in AnsweredIn(g) PROVE PlaceIn(g, k) \in 1..Cardinality(AnsweredIn(g))
  <2> DEFINE T == {j \in AnsweredIn(g) : j <= k}
  <2>1. T \in SUBSET AnsweredIn(g)
    OBVIOUS
  <2>2. k \in T
    BY <1>1, <1>2
  <2>3. PlaceIn(g, k) = Cardinality(T)
    BY DEF PlaceIn
  <2> HIDE DEF T
  <2>4. IsFiniteSet(T) /\ Cardinality(T) <= Cardinality(AnsweredIn(g))
    BY <1>3, <2>1, FS_Subset
  <2>5. Cardinality(T) \in Nat /\ Cardinality(T) # 0
    <3>1. Cardinality(T) \in Nat
      BY <2>4, FS_CardinalityType
    <3>2. T # {}
      BY <2>2
    <3> QED
      BY <2>4, <3>1, <3>2, FS_EmptySet
  <2> QED
    BY <1>4, <2>3, <2>4, <2>5
<1> QED
  BY <1>2, <1>3, <1>4, <1>5

\* The answers of two sequences of them, one after the other.
LEMMA AnsweredConcat ==
  ASSUME NEW g \in Seq(Calls), NEW more \in Seq(Calls)
  PROVE  LET all == g \o more
             n == Len(g)
         IN  /\ all \in Seq(Calls) /\ DOMAIN all = 1..(n + Len(more))
             /\ \A k \in 1..n : all[k] = g[k] /\ (k \in AnsweredIn(all) <=> k \in AnsweredIn(g))
             /\ \A k \in 1..Len(more) : all[n + k] = more[k]
             /\ \A k \in AnsweredIn(g) : PlaceIn(all, k) = PlaceIn(g, k)
<1> DEFINE all == g \o more
           n == Len(g)
<1>1. n \in Nat /\ Len(more) \in Nat /\ DOMAIN g = 1..n
  BY LenProperties
<1>2. /\ all \in Seq(Calls) /\ Len(all) = n + Len(more)
      /\ \A k \in 1..(n + Len(more)) : all[k] = IF k <= n THEN g[k] ELSE more[k - n]
  BY ConcatProperties
<1>3. DOMAIN all = 1..(n + Len(more))
  BY <1>2, LenProperties
<1> HIDE DEF all, n
<1>4. ASSUME NEW k \in 1..n PROVE all[k] = g[k] /\ (k \in AnsweredIn(all) <=> k \in AnsweredIn(g))
  <2>1. k \in 1..(n + Len(more)) /\ k <= n
    BY <1>1
  <2>2. all[k] = g[k]
    BY <1>2, <2>1
  <2> QED
    BY <1>1, <1>3, <2>1, <2>2 DEF AnsweredIn
<1>5. ASSUME NEW k \in 1..Len(more) PROVE all[n + k] = more[k]
  <2>1. n + k \in 1..(n + Len(more)) /\ ~(n + k <= n) /\ (n + k) - n = k
    BY <1>1
  <2> QED
    BY <1>2, <2>1
<1>6. ASSUME NEW k \in AnsweredIn(g) PROVE PlaceIn(all, k) = PlaceIn(g, k)
  <2>1. k \in 1..n
    BY <1>1 DEF AnsweredIn
  <2>2. \A j \in AnsweredIn(all) : j <= k => j \in 1..n
    BY <1>1, <1>3, <2>1 DEF AnsweredIn
  <2>3. \A j \in AnsweredIn(g) : j \in 1..n
    BY <1>1 DEF AnsweredIn
  <2>4. {j \in AnsweredIn(all) : j <= k} = {j \in AnsweredIn(g) : j <= k}
    BY <1>4, <2>2, <2>3
  <2> QED
    BY <2>4 DEF PlaceIn
<1> QED
  BY <1>2, <1>3, <1>4, <1>5, <1>6 DEF all, n

\* Exceptions add nothing to the record.
LEMMA RecordKept ==
  ASSUME NEW g \in Seq(Calls), NEW calls, Recorded(calls, g), NEW more \in Seq(Calls),
         \A k \in DOMAIN more : more[k].outcome = "exception"
  PROVE  Recorded(calls, g \o more)
<1> DEFINE all == g \o more
           n == Len(g)
<1>1. n \in Nat /\ Len(more) \in Nat /\ DOMAIN g = 1..n /\ DOMAIN more = 1..Len(more)
  BY LenProperties
<1>2. /\ DOMAIN all = 1..(n + Len(more))
      /\ \A k \in 1..n : all[k] = g[k] /\ (k \in AnsweredIn(all) <=> k \in AnsweredIn(g))
      /\ \A k \in 1..Len(more) : all[n + k] = more[k]
      /\ \A k \in AnsweredIn(g) : PlaceIn(all, k) = PlaceIn(g, k)
  BY AnsweredConcat
<1> HIDE DEF all, n
<1>3. AnsweredIn(all) = AnsweredIn(g)
  <2>1. ASSUME NEW k \in AnsweredIn(all) PROVE k \in AnsweredIn(g)
    <3>1. k \in 1..(n + Len(more)) /\ all[k].outcome # "exception"
      BY <1>2 DEF AnsweredIn
    <3>2. k \in 1..n \/ (k - n \in 1..Len(more) /\ n + (k - n) = k)
      BY <1>1, <3>1
    <3>3. k - n \in 1..Len(more) => more[k - n].outcome = "exception"
      BY <1>1
    <3> QED
      BY <1>2, <2>1, <3>1, <3>2, <3>3
  <2>2. \A k \in AnsweredIn(g) : k \in 1..n
    BY <1>1 DEF AnsweredIn
  <2> QED
    BY <1>2, <2>1, <2>2
<1>4. \A k \in AnsweredIn(g) : all[k] = g[k]
  BY <1>1, <1>2 DEF AnsweredIn
<1>5. \A k \in DOMAIN g : k \in DOMAIN all /\ all[k] = g[k]
  BY <1>1, <1>2
<1>6. Recorded(calls, all)
  BY <1>2, <1>3, <1>4, <1>5 DEF Recorded
<1> QED
  BY <1>6 DEF all

\* A set of numbers up to n and as many more as follow n.
LEMMA CountOfMore ==
  ASSUME NEW n \in Nat, NEW A, A \subseteq 1..n, IsFiniteSet(A), NEW i \in Nat
  PROVE  Cardinality(A \cup ((n + 1)..(n + i))) = Cardinality(A) + i
<1> DEFINE B == (n + 1)..(n + i)
<1>1. IsFiniteSet(B) /\ Cardinality(B) = i
  <2>1. n + 1 \in Int /\ n + i \in Int
    OBVIOUS
  <2>2. IsFiniteSet(B) /\ Cardinality(B) = IF n + 1 > n + i THEN 0 ELSE (n + i) - (n + 1) + 1
    BY <2>1, FS_Interval
  <2> HIDE DEF B
  <2> QED
    BY <2>2
<1>2. A \cap B = {}
  OBVIOUS
<1> HIDE DEF B
<1>3. Cardinality(A) \in Nat
  BY FS_CardinalityType
<1>4. Cardinality(A \cup B) = Cardinality(A) + Cardinality(B) - Cardinality(A \cap B)
  BY <1>1, FS_Union
<1>5. Cardinality(A \cap B) = 0
  BY <1>2, FS_EmptySet
<1> QED
  BY <1>1, <1>3, <1>4, <1>5 DEF B

\* Answers are recorded, in their order, after those recorded before.
LEMMA RecordGrown ==
  ASSUME NEW g \in Seq(Calls), NEW calls \in Seq(Calls), Recorded(calls, g),
         NEW more \in Seq(Calls), \A k \in DOMAIN more : more[k].outcome # "exception"
  PROVE  Recorded(calls \o more, g \o more)
<1> DEFINE all == g \o more
           n == Len(g)
           r == Len(more)
           A == AnsweredIn(g)
           record == calls \o more
<1>1. n \in Nat /\ r \in Nat /\ DOMAIN g = 1..n /\ DOMAIN more = 1..r
      /\ DOMAIN calls = 1..Len(calls) /\ Len(calls) \in Nat
  BY LenProperties
<1>2. /\ DOMAIN all = 1..(n + r)
      /\ \A k \in 1..n : all[k] = g[k] /\ (k \in AnsweredIn(all) <=> k \in A)
      /\ \A k \in 1..r : all[n + k] = more[k]
      /\ \A k \in A : PlaceIn(all, k) = PlaceIn(g, k)
  BY AnsweredConcat
<1>3. /\ Len(record) = Len(calls) + r /\ record \in Seq(Calls)
      /\ \A m \in 1..(Len(calls) + r) :
           record[m] = IF m <= Len(calls) THEN calls[m] ELSE more[m - Len(calls)]
  BY ConcatProperties
<1>4. DOMAIN record = 1..(Len(calls) + r)
  BY <1>3, LenProperties
<1>5. /\ A \subseteq 1..n /\ IsFiniteSet(A) /\ Cardinality(A) = Len(calls)
      /\ \A k \in A : PlaceIn(g, k) \in 1..Len(calls) /\ calls[PlaceIn(g, k)] = g[k]
  BY PlaceType DEF Recorded
<1>6. \A m \in 1..Len(calls) : \E k \in DOMAIN g : calls[m] = g[k]
  BY <1>1 DEF Recorded
<1> HIDE DEF all, n, r, A, record
<1>7. ASSUME NEW k \in 1..r PROVE n + k \in AnsweredIn(all)
  <2>1. n + k \in DOMAIN all
    BY <1>1, <1>2
  <2>2. all[n + k].outcome # "exception"
    BY <1>1, <1>2
  <2> QED
    BY <2>1, <2>2 DEF AnsweredIn
<1>8. ASSUME NEW k \in AnsweredIn(all)
      PROVE  k \in A \/ (k \notin 1..n /\ k - n \in 1..r /\ n + (k - n) = k)
  <2>1. k \in 1..(n + r)
    BY <1>2 DEF AnsweredIn
  <2>2. k \in 1..n \/ (k \notin 1..n /\ k - n \in 1..r /\ n + (k - n) = k)
    BY <1>1, <2>1
  <2> QED
    BY <1>2, <1>8, <2>2
<1>9. ASSUME NEW i \in 0..r
      PROVE  Cardinality({j \in AnsweredIn(all) : j <= n + i}) = Len(calls) + i
  <2> DEFINE T == {j \in AnsweredIn(all) : j <= n + i}
             U == A \cup ((n + 1)..(n + i))
  <2>1. ASSUME NEW j \in T PROVE j \in U
    <3>1. j \in AnsweredIn(all) /\ j <= n + i
      OBVIOUS
    <3>2. j - n \in 1..r /\ n + (j - n) = j => j \in (n + 1)..(n + i)
      BY <1>1, <3>1
    <3> QED
      BY <1>8, <3>1, <3>2
  <2>2. ASSUME NEW j \in U PROVE j \in T
    <3>1. CASE j \in A
      <4>1. j \in 1..n /\ j <= n + i
        BY <1>1, <1>5, <3>1
      <4> QED
        BY <1>2, <3>1, <4>1
    <3>2. CASE j \in (n + 1)..(n + i)
      <4>1. j - n \in 1..r /\ n + (j - n) = j /\ j <= n + i
        BY <1>1, <3>2
      <4>2. j \in AnsweredIn(all)
        BY <1>7, <4>1
      <4> QED
        BY <4>1, <4>2
    <3> QED
      BY <2>2, <3>1, <3>2
  <2>3. T = U
    BY <2>1, <2>2
  <2>4. i \in Nat
    BY <1>1
  <2>5. Cardinality(U) = Cardinality(A) + i
    <3> HIDE DEF T
    <3>1. n \in Nat /\ A \subseteq 1..n /\ IsFiniteSet(A)
      BY <1>1, <1>5
    <3> QED
      BY <2>4, <3>1, CountOfMore
  <2> HIDE DEF T, U
  <2>6. Cardinality(T) = Len(calls) + i
    BY <1>5, <2>3, <2>5
  <2> QED
    BY <2>6 DEF T
<1>10. Len(record) = Cardinality(AnsweredIn(all))
  <2>1. r \in 0..r
    BY <1>1
  <2>2. \A j \in AnsweredIn(all) : j <= n + r
    BY <1>1, <1>2 DEF AnsweredIn
  <2>3. {j \in AnsweredIn(all) : j <= n + r} = AnsweredIn(all)
    BY <2>2
  <2>4. Cardinality({j \in AnsweredIn(all) : j <= n + r}) = Len(calls) + r
    BY <1>9, <2>1
  <2> QED
    BY <1>3, <2>3, <2>4
<1>11. ASSUME NEW k \in AnsweredIn(all) PROVE record[PlaceIn(all, k)] = all[k]
  <2>1. CASE k \in A
    <3>1. PlaceIn(all, k) = PlaceIn(g, k) /\ PlaceIn(g, k) \in 1..Len(calls) /\ k \in 1..n
      BY <1>2, <1>5, <2>1
    <3>2. record[PlaceIn(g, k)] = calls[PlaceIn(g, k)]
      <4> DEFINE p == PlaceIn(g, k)
      <4>1. p \in 1..Len(calls)
        BY <3>1
      <4> HIDE DEF p
      <4>2. p \in 1..(Len(calls) + r) /\ p <= Len(calls)
        BY <1>1, <4>1
      <4>3. record[p] = calls[p]
        BY <1>3, <4>2
      <4> QED
        BY <4>3 DEF p
    <3> QED
      BY <1>2, <1>5, <2>1, <3>1, <3>2
  <2>2. CASE k \notin A
    <3> DEFINE i == k - n
    <3>1. i \in 1..r /\ n + i = k
      BY <1>8, <2>2
    <3> HIDE DEF i
    <3>2. PlaceIn(all, k) = Len(calls) + i
      <4>1. i \in 0..r
        BY <1>1, <3>1
      <4>2. Cardinality({j \in AnsweredIn(all) : j <= n + i}) = Len(calls) + i
        BY <1>9, <4>1
      <4> QED
        BY <3>1, <4>2 DEF PlaceIn
    <3>3. record[Len(calls) + i] = more[i]
      <4>1. /\ Len(calls) + i \in 1..(Len(calls) + r) /\ ~(Len(calls) + i <= Len(calls))
            /\ (Len(calls) + i) - Len(calls) = i
        BY <1>1, <3>1
      <4> QED
        BY <1>3, <4>1
    <3>4. all[n + i] = more[i]
      BY <1>2, <3>1
    <3> QED
      BY <3>1, <3>2, <3>3, <3>4
  <2> QED
    BY <2>1, <2>2
<1>12. ASSUME NEW m \in DOMAIN record PROVE \E k \in DOMAIN all : record[m] = all[k]
  <2>1. m \in 1..(Len(calls) + r)
    BY <1>4
  <2>2. CASE m <= Len(calls)
    <3>1. m \in 1..Len(calls) /\ record[m] = calls[m]
      BY <1>1, <1>3, <2>1, <2>2
    <3>2. PICK k \in DOMAIN g : calls[m] = g[k]
      BY <1>6, <3>1
    <3>3. k \in DOMAIN all /\ all[k] = g[k]
      BY <1>1, <1>2
    <3> QED
      BY <3>1, <3>2, <3>3
  <2>3. CASE ~(m <= Len(calls))
    <3>1. m - Len(calls) \in 1..r /\ record[m] = more[m - Len(calls)]
      BY <1>1, <1>3, <2>1, <2>3
    <3>2. n + (m - Len(calls)) \in DOMAIN all
      BY <1>1, <1>2, <3>1
    <3> QED
      BY <1>2, <3>1, <3>2
  <2> QED
    BY <2>2, <2>3
<1>13. Recorded(record, all)
  BY <1>10, <1>11, <1>12 DEF Recorded
<1> QED
  BY <1>13 DEF record, all

\* What the script has recorded are the calls that were answered.
LEMMA RecordStep == TypeInv /\ Recorded(llmCalls, got) /\ [Next]_vars => Recorded(llmCalls, got)'
<1> SUFFICES ASSUME TypeInv, Recorded(llmCalls, got), [Next]_vars PROVE Recorded(llmCalls', got')
  OBVIOUS
<1>0. got \in Seq(Calls) /\ llmCalls \in Seq(Calls) /\ asked \in Seq(PromptKinds)
      /\ Len(asked) \in Nat
  BY LenProperties DEF TypeInv, ScriptTypes
<1>u. UNCHANGED <<got, llmCalls>> => Recorded(llmCalls', got')
  OBVIOUS
<1>1. CASE StartTurn \/ ModelReply \/ StartBlock \/ EndTurn \/ DefaultAnswer
  BY <1>1, <1>u DEF StartTurn, ModelReply, StartBlock, EndTurn, DefaultAnswer, script
<1>2. CASE EndBlock \/ BlockDies
  <2>1. got' = <<>> /\ llmCalls' = <<>>
    BY <1>2 DEF EndBlock, BlockDies, ProcessEnds
  <2>2. AnsweredIn(<<>>) = {} /\ DOMAIN <<>> = {} /\ Len(<<>>) = 0
    BY DEF AnsweredIn
  <2>3. Recorded(<<>>, <<>>)
    BY <2>2, FS_EmptySet DEF Recorded
  <2> QED
    BY <2>1, <2>3
<1>r. CASE \E prompt \in PromptKinds : QueryRaises(prompt)
  BY <1>r, <1>u DEF QueryRaises, script
<1>3. ASSUME NEW q \in Queries, QueryException(q) PROVE Recorded(llmCalls', got')
  <2>1. got' = got \o ExceptionResults(q) /\ llmCalls' = llmCalls
    BY <1>3 DEF QueryException
  <2>2. /\ ExceptionResults(q) \in Seq(Calls)
        /\ \A k \in DOMAIN ExceptionResults(q) : ExceptionResults(q)[k].outcome = "exception"
    BY ExceptionsFit
  <2>3. Recorded(llmCalls, got \o ExceptionResults(q))
    BY <1>0, <2>2, RecordKept
  <2> QED
    BY <2>1, <2>3
<1>4. ASSUME NEW q \in Queries, NEW outcomes \in [DOMAIN q -> {"content", "error"}],
             QueryAnswered(q, outcomes)
      PROVE  Recorded(llmCalls', got')
  <2> DEFINE replies == [k \in DOMAIN q |-> Replied(Len(asked) + k, q[k], outcomes[k])]
  <2>1. got' = got \o replies /\ llmCalls' = llmCalls \o replies
    BY <1>4 DEF QueryAnswered, RecordCalls
  <2>2. replies \in Seq(Calls)
    BY <1>0, RepliesFit
  <2>3. \A k \in DOMAIN replies : replies[k].outcome # "exception"
    BY DEF Replied
  <2> HIDE DEF replies
  <2>4. Recorded(llmCalls \o replies, got \o replies)
    BY <1>0, <2>2, <2>3, RecordGrown
  <2> QED
    BY <2>1, <2>4
<1>5. CASE \E a \in Answers \cup {NoAnswer} : SubmitAnswer(a)
  BY <1>5, <1>u DEF SubmitAnswer
<1>6. CASE UNCHANGED vars
  BY <1>6, <1>u DEF vars
<1> QED
  BY <1>r, <1>1, <1>2, <1>3, <1>4, <1>5, <1>6 DEF Next

\* The report of a block that ends has the calls its script recorded.
LEMMA ReportOfCalls ==
  TypeInv /\ AskedInv /\ Recorded(llmCalls, got) /\ [Next]_vars =>
    [pc = "code" /\ pc' = "exec" /\ AllText /\ Reported.ended => CallsOf(Reported.calls)]_vars
<1> SUFFICES ASSUME TypeInv, AskedInv, Recorded(llmCalls, got), [Next]_vars,
                    pc = "code", pc' = "exec", AllText, Reported.ended
             PROVE  CallsOf(Reported.calls)
  OBVIOUS
<1>0. got \in Seq(Calls) /\ llmCalls \in Seq(Calls) /\ results \in Seq(Reports)
  BY DEF TypeInv, ScriptTypes, BlockTypes
<1>1. EndBlock \/ BlockDies
  BY DEF Next, vars, StartTurn, ModelReply, StartBlock, EndTurn, DefaultAnswer, QueryException,
         QueryRaises, QueryAnswered, SubmitAnswer
<1>2. ASSUME NEW r, results' = Append(results, r) PROVE Reported = r
  <2>1. Len(Append(results, r)) = Len(results) + 1 /\ Append(results, r)[Len(results) + 1] = r
    BY <1>0
  <2> QED
    BY <1>2, <2>1 DEF Reported
<1>3. CASE EndBlock
  <2>1. PICK stdout \in 0..StdoutBound, stderr \in BOOLEAN :
          results' = Append(results, ParseExecOutput(stdout, stderr))
    BY <1>3 DEF EndBlock
  <2>2. Readable(llmCalls)
    <3>1. ASSUME NEW m \in DOMAIN llmCalls PROVE llmCalls[m].prompt = "text"
      <4>1. PICK k \in DOMAIN got : llmCalls[m] = got[k]
        BY DEF Recorded
      <4>2. k \in DOMAIN asked /\ got[k].prompt = asked[k]
        <5>1. DOMAIN got = 1..Len(got) /\ DOMAIN asked = 1..Len(asked) /\ Len(got) = Len(asked)
          BY LenProperties DEF AskedInv, EveryPromptAnswered
        <5> QED
          BY <5>1 DEF AskedInv, EveryPromptAnswered
      <4> QED
        BY <4>1, <4>2 DEF AllText
    <3> QED
      BY <3>1 DEF Readable
  <2>3. Reported = ParseExecOutput(stdout, stderr)
    BY <1>2, <2>1
  <2>4. ParseExecOutput(stdout, stderr).calls = llmCalls
    BY <2>2 DEF ParseExecOutput, Result
  <2> QED
    BY <2>3, <2>4, RecordedCalls
<1>4. CASE BlockDies
  <2>1. PICK stdout \in 0..StdoutBound :
          results' = Append(results, Result(stdout, TRUE, FALSE, NoAnswer, <<>>, FALSE))
    BY <1>4 DEF BlockDies
  <2>2. Reported = Result(stdout, TRUE, FALSE, NoAnswer, <<>>, FALSE)
    BY <1>2, <2>1
  <2>3. Reported.ended = FALSE
    BY <2>2 DEF Result
  <2> QED
    BY <2>3
<1> QED
  BY <1>1, <1>3, <1>4

\* A block that ends reports to the host the calls that were answered and no others, with the
\* answers the code saw and in their order, whatever failed between, if all its prompts were text.
THEOREM CallsAsAnswered == Spec => CallsReported
<1>1. Init => AskedInv /\ Recorded(llmCalls, got)
  <2>1. AnsweredIn(<<>>) = {} /\ DOMAIN <<>> = {} /\ Len(<<>>) = 0
    BY DEF AnsweredIn
  <2>2. Recorded(<<>>, <<>>)
    BY <2>1, FS_EmptySet DEF Recorded
  <2> QED
    BY <2>2, NothingAsked DEF Init
<1> QED
  BY <1>1, AskedStep, TypeCorrect, RecordStep, ReportOfCalls, PTL DEF Spec, CallsReported
=============================================================================
