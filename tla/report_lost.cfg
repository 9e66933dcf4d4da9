\* A block that asks with a list of messages and submits an answer.
SPECIFICATION Spec
CONSTANTS
  Lines <- LinesOfText
  Replies <- OneBlock
  PromptKinds = {"text", "messages"}
  Answers = {"a"}
  NoAnswer = "none"
  MaxIterations = 1
  MaxChars = 1
  StdoutBound = 0
  BatchBound = 1
  QueriesBound = 1
PROPERTY AnswerReported
CHECK_DEADLOCK FALSE
