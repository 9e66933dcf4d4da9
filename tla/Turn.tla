-------------------------------- MODULE Turn ---------------------------------
(***************************************************************************)
(* What travels in the turns of a call: the response and the code blocks   *)
(* found in it, the queries their code makes (container side: the helpers  *)
(* of internal/environment/execscript.go), the report of each block as     *)
(* internal/environment/docker.go reads it, and the messages that          *)
(* internal/rlm/iteration.go and internal/prompt make of it for the next   *)
(* turn.  Limits, failures of the host and its resources are in            *)
(* Completion, the state that survives a block in ReplSession, the service *)
(* behind the queries in LMHandler.                                        *)
(***************************************************************************)
EXTENDS ReplBlocks

CONSTANTS
  Lines, Replies, \* lines of text, and the documents (segments) the model may answer with
  PromptKinds,    \* kinds of the prompts code may send
  Answers, NoAnswer,
  MaxIterations,
  MaxChars,       \* defaultMaxIterationChars
  StdoutBound,    \* bound: length of a block's standard output
  BatchBound,     \* bound: prompts in a query
  QueriesBound    \* bound: prompts sent in a call

ASSUME RepliesAssumption == Replies \subseteq Seq(Segments(Lines))
ASSUME KindsAssumption == PromptKinds \subseteq {"text", "messages", "object", "unencodable"}
ASSUME AnswersAssumption == NoAnswer \notin Answers
ASSUME SizesAssumption ==
  /\ {MaxIterations, MaxChars} \subseteq Nat \ {0}
  /\ {StdoutBound, BatchBound, QueriesBound} \subseteq Nat

VARIABLES
  pc,               \* where the call is
  iteration,        \* turns completed
  messages,         \* messageHistory
  segments,         \* ghost: the document the response renders
  blocks, results,  \* the blocks found in the response; the results of those run
  sent,             \* prompts the queries of this call were given
  asked, got,       \* ghost: prompts of the running block's queries that returned, and what
                    \* its code was told of each
  llmCalls,         \* _llm_calls of the running block
  answer, saved     \* the answer its code has submitted; the one in the state file
vars == <<pc, iteration, messages, segments, blocks, results, sent, asked, got, llmCalls, answer,
          saved>>
script == <<asked, got, llmCalls, answer, saved>>

----------------------------------------------------------------------------
(* Messages *)

BuildSystemPrompt ==
  <<[role |-> "system", part |-> "system"], [role |-> "user", part |-> "metadata"]>>
BuildUserPrompt(i) == [role |-> "user", part |-> "turn", turn |-> i + 1]

\* formatExecutionResult: what a block's part of the message shows; code is a ghost.
FormatResultUncut(r) ==
  [code |-> r.code, stdout |-> r.stdout, truncated |-> r.stdout > MaxChars,
   stderr |-> r.stderr, variables |-> r.locals]
FormatResult(r) ==
  [code |-> r.code, stdout |-> Min({r.stdout, MaxChars}), truncated |-> r.stdout > MaxChars,
   stderr |-> r.stderr, variables |-> r.locals]

FormatIterationSilentOmitted(doc, rs) ==
  LET loud == SelectSeq(rs, LAMBDA r : r.stdout > 0 \/ r.stderr)
  IN  <<[role |-> "assistant", part |-> "response", segments |-> doc]>>
      \o IF rs = <<>> THEN <<>>
         ELSE <<[role |-> "user", part |-> "outputs",
                 outputs |-> [k \in DOMAIN loud |-> FormatResult(loud[k])]]>>
FormatIteration(doc, rs) ==
  <<[role |-> "assistant", part |-> "response", segments |-> doc]>>
  \o IF rs = <<>> THEN <<>>
     ELSE <<[role |-> "user", part |-> "outputs",
             outputs |-> [k \in DOMAIN rs |-> FormatResult(rs[k])]]>>

----------------------------------------------------------------------------
(* The host's loop *)

Init ==
  /\ pc = "turn" /\ iteration = 0
  /\ messages = BuildSystemPrompt
  /\ segments = <<>> /\ blocks = <<>> /\ results = <<>> /\ sent = 0
  /\ asked = <<>> /\ got = <<>> /\ llmCalls = <<>>
  /\ answer = NoAnswer /\ saved = NoAnswer

StartTurn ==
  /\ pc = "turn" /\ iteration < MaxIterations
  /\ messages' = Append(messages, BuildUserPrompt(iteration))
  /\ pc' = "model"
  /\ UNCHANGED <<iteration, segments, blocks, results, sent, script>>

ModelReply ==
  /\ pc = "model" /\ pc' = "exec"
  /\ segments' \in Replies
  /\ blocks' = FindCodeBlocks(Render(segments'))
  /\ results' = <<>>
  /\ UNCHANGED <<iteration, messages, sent, script>>

StartBlock ==
  /\ pc = "exec" /\ Len(results) < Len(blocks)
  /\ pc' = "code" /\ answer' = saved
  /\ UNCHANGED <<iteration, messages, segments, blocks, results, sent, asked, got, llmCalls,
                 saved>>

Final(rs) == SelectSeq(rs, LAMBDA r : r.final # NoAnswer)

EndTurn ==
  /\ pc = "exec" /\ Len(results) = Len(blocks)
  /\ iteration' = iteration + 1
  /\ IF Final(results) # <<>>
       THEN pc' = "answered" /\ UNCHANGED messages
       ELSE pc' = "turn" /\ messages' = messages \o FormatIteration(segments, results)
  /\ segments' = <<>> /\ blocks' = <<>> /\ results' = <<>>
  /\ UNCHANGED <<sent, script>>

\* defaultAnswer asks with one more message, which the history does not keep.
DefaultAnswer ==
  /\ pc = "turn" /\ iteration = MaxIterations
  /\ pc' = "answered"
  /\ UNCHANGED <<iteration, messages, segments, blocks, results, sent, script>>

----------------------------------------------------------------------------
(* The script: llm_query, llm_query_batched and, for prompts that are text, rlm_query and     *)
(* rlm_query_batched, which differ in the service they call.                                 *)

Encodable(prompts) == \A k \in DOMAIN prompts : prompts[k] # "unencodable"

\* The service's answer to a prompt: a dict is no prompt the LM client accepts.
Replied(to, prompt, outcome) ==
  [to |-> to, prompt |-> prompt, outcome |-> IF prompt = "object" THEN "error" ELSE outcome]

RecordCallsSucceeded(replies) == llmCalls' = llmCalls \o SelectSeq(replies, LAMBDA c : c.outcome = "content")
RecordCalls(replies) == llmCalls' = llmCalls \o replies

Unanswered(prompt) == [to |-> 0, prompt |-> prompt, outcome |-> "exception"]
ExceptionResultsOnce(prompts) == <<Unanswered(prompts[1])>>
ExceptionResults(prompts) == [k \in DOMAIN prompts |-> Unanswered(prompts[k])]

CanSend(prompts) == pc = "code" /\ sent + Len(prompts) <= QueriesBound

QueryAnswered(prompts, outcomes) ==
  /\ CanSend(prompts) /\ Encodable(prompts)
  /\ LET replies == [k \in DOMAIN prompts |-> Replied(Len(asked) + k, prompts[k], outcomes[k])]
     IN  got' = got \o replies /\ RecordCalls(replies)
  /\ asked' = asked \o prompts /\ sent' = sent + Len(prompts)
  /\ UNCHANGED <<pc, iteration, messages, segments, blocks, results, answer,
                 saved>>

\* The server is gone or the 600 s are over, or a prompt of a batch, of one too, has no JSON form.
QueryException(prompts) ==
  /\ CanSend(prompts)
  /\ got' = got \o ExceptionResults(prompts)
  /\ asked' = asked \o prompts /\ sent' = sent + Len(prompts)
  /\ UNCHANGED <<pc, iteration, messages, segments, blocks, results, llmCalls, answer,
                 saved>>

\* llm_query or rlm_query of a prompt without a JSON form: the log line before its try encodes the
\* prompt too, so it raises in the code, which was told nothing; the code may catch it and go on.
QueryRaises(prompt) ==
  /\ CanSend(<<prompt>>) /\ ~Encodable(<<prompt>>)
  /\ sent' = sent + 1
  /\ UNCHANGED <<pc, iteration, messages, segments, blocks, results, script>>

\* Code fills in the answer, or takes it back.
SubmitAnswer(a) ==
  /\ pc = "code"
  /\ answer' = a
  /\ UNCHANGED <<pc, iteration, messages, segments, blocks, results, sent, asked, got,
                 llmCalls, saved>>

----------------------------------------------------------------------------
(* The report *)

Code == blocks[Len(results) + 1]
Result(stdout, stderr, locals, final, calls, ended) ==
  [code |-> Code, stdout |-> stdout, stderr |-> stderr, locals |-> locals, final |-> final,
   calls |-> calls, ended |-> ended]

\* rawLLMCall takes the prompt of a call for a string, where the script reports it as it was sent.
Readable(calls) == \A k \in DOMAIN calls : calls[k].prompt = "text"

\* parseExecOutput; of a report it cannot read the host keeps the raw output, which is longer.
ParseExecOutput(stdout, stderr) ==
  IF Readable(llmCalls)
    THEN Result(stdout, stderr, TRUE, answer, llmCalls, TRUE)
    ELSE Result(stdout + 1, TRUE, FALSE, NoAnswer, <<>>, TRUE)

ProcessEnds ==
  /\ pc = "code" /\ pc' = "exec"
  /\ asked' = <<>> /\ got' = <<>> /\ llmCalls' = <<>> /\ answer' = NoAnswer
  /\ UNCHANGED <<iteration, messages, segments, blocks, sent>>

EndBlock ==
  /\ ProcessEnds
  /\ saved' = answer
  /\ \E stdout \in 0..StdoutBound, stderr \in BOOLEAN :
       results' = Append(results, ParseExecOutput(stdout, stderr))

\* docker exec fails, or the process ends before it reports: before, while or after it saves.
BlockDies ==
  /\ ProcessEnds
  /\ saved' \in {saved, NoAnswer, answer}
  /\ \E stdout \in 0..StdoutBound :
       results' = Append(results, Result(stdout, TRUE, FALSE, NoAnswer, <<>>, FALSE))

Queries == UNION {[1..n -> PromptKinds] : n \in 1..BatchBound}

Next ==
  \/ StartTurn \/ ModelReply \/ StartBlock \/ EndTurn \/ DefaultAnswer \/ EndBlock \/ BlockDies
  \/ \E q \in Queries : QueryException(q)
  \/ \E prompt \in PromptKinds : QueryRaises(prompt)
  \/ \E q \in Queries : \E outcomes \in [DOMAIN q -> {"content", "error"}] :
       QueryAnswered(q, outcomes)
  \/ \E a \in Answers \cup {NoAnswer} : SubmitAnswer(a)

Spec == Init /\ [][Next]_vars

----------------------------------------------------------------------------
(* Properties *)

\* Every variable keeps its type, and of a block's standard output the model sees no more than
\* MaxChars.
Calls == [to : Nat, prompt : PromptKinds, outcome : {"content", "error", "exception"}]
TypeOK ==
  /\ pc \in {"turn", "model", "exec", "code", "answered"}
  /\ iteration \in 0..MaxIterations /\ sent \in 0..QueriesBound
  /\ segments \in Replies \cup {<<>>}
  /\ Len(results) <= Len(blocks)
  /\ asked \in Seq(PromptKinds) /\ got \in Seq(Calls) /\ llmCalls \in Seq(Calls)
  /\ {answer, saved} \subseteq Answers \cup {NoAnswer}
  /\ \A k \in DOMAIN messages : messages[k].part = "outputs" =>
       \A b \in DOMAIN messages[k].outputs : messages[k].outputs[b].stdout <= MaxChars

\* The code that runs is the code the model meant: the repl blocks of its document, in order,
\* however they stand among prose, blank lines, other blocks and a block that was cut off.
BlocksAsWritten == pc = "exec" => blocks = CodeOf(segments)

\* In the history each response stands after the prompt of its turn, and before the outputs of
\* exactly the blocks it contains, in their order, if it contains any; the prompts count up.
ResponseAt(k) == messages[k].part = "response"
OutputsAt(k) == k \in DOMAIN messages /\ messages[k].part = "outputs"
Transcript ==
  \A k \in DOMAIN messages :
    /\ ResponseAt(k) =>
         /\ messages[k - 1].part = "turn"
         /\ messages[k - 1].turn = Cardinality({j \in 1..k : ResponseAt(j)})
         /\ LET codes == CodeOf(messages[k].segments)
            IN  IF codes = <<>> THEN ~OutputsAt(k + 1)
                ELSE /\ OutputsAt(k + 1)
                     /\ codes = [b \in DOMAIN messages[k + 1].outputs |->
                                   messages[k + 1].outputs[b].code]
    /\ OutputsAt(k) => ResponseAt(k - 1)

\* Of every query that returns code is told one thing of each prompt, at the place the prompt was
\* sent from: the answer to that very prompt, or an error.
EveryPromptAnswered ==
  /\ Len(got) = Len(asked)
  /\ \A k \in DOMAIN got : /\ got[k].prompt = asked[k]
                           /\ got[k].outcome # "exception" => got[k].to = k

\* A block that ends reports to the host all the calls that were answered and no others, with the
\* answers the code saw and in that order, whatever failed between; provided all its prompts were
\* text.
AllText == \A k \in DOMAIN asked : asked[k] = "text"
AnsweredPrompts == {k \in DOMAIN got : got[k].outcome # "exception"}
Place(k) == Cardinality({j \in AnsweredPrompts : j <= k})
CallsOf(calls) ==
  /\ Len(calls) = Cardinality(AnsweredPrompts)
  /\ \A k \in AnsweredPrompts : calls[Place(k)] = got[k]
Reported == results'[Len(results')]
CallsReported ==
  [][pc = "code" /\ pc' = "exec" /\ AllText /\ Reported.ended => CallsOf(Reported.calls)]_vars

----------------------------------------------------------------------------
(* What documents of the repository say, and the code does not do *)

\* spec.md:207-210: the answer that code submits is in the result of ExecuteCode.
AnswerReported ==
  [][pc = "code" /\ pc' = "exec" /\ Reported.ended => Reported.final = answer]_vars
=============================================================================
