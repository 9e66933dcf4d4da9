\* Two turns of any document of three segments, with a query or two.
SPECIFICATION Spec
CONSTANTS
  Lines <- LinesOfText
  Replies <- Documents
  PromptKinds = {"text", "object", "unencodable"}
  Answers = {"a"}
  NoAnswer = "none"
  MaxIterations = 2
  MaxChars = 1
  StdoutBound = 1
  BatchBound = 2
  QueriesBound = 2
INVARIANTS TypeOK BlocksAsWritten Transcript EveryPromptAnswered
PROPERTY CallsReported
CHECK_DEADLOCK FALSE
