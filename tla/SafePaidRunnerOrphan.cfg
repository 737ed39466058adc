\* A business failure is continued over although its last call is an orphan.
SPECIFICATION RunnerSpec
CONSTANTS
  q1 = q1
  q2 = q2
  Qid = {q1, q2}
  AttemptId = {a1, a2, a3}
  QidBudget <- TwoCalls
  MaxTotal = 3
  Tokens = {0, 2}
  NoAttempt = NoAttempt
  Allowed <- MCAllowed
  BatchTokens = 4
  QidTokens = 2
  CandidateCap = 5
  MaxQuestions = 2
  CallsPerQuestion = 2
  Canary = FALSE
  ContinueOnBlocking = TRUE
  FallbackEnabled = FALSE
  Retries = {{}}
  Recoveries = {{}}
  NoQid = NoQid
  NoFile = NoFile
  Torn = Torn
SYMMETRY AttemptSymm
INVARIANT NoCallOverOrphan
CHECK_DEADLOCK FALSE
