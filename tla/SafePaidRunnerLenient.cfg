\* Business failures are continued over, fallback results are enabled, and the
\* operator may authorise a retry of q1. One call per question.
SPECIFICATION RunnerSpec
CONSTANTS
  q1 = q1
  q2 = q2
  Qid = {q1, q2}
  AttemptId = {a1, a2}
  QidBudget <- OneCall
  MaxTotal = 2
  Tokens = {0, 2}
  NoAttempt = NoAttempt
  Allowed <- MCAllowed
  BatchTokens = 3
  QidTokens = 2
  CandidateCap = 0
  MaxQuestions = 2
  CallsPerQuestion = 1
  Canary = FALSE
  ContinueOnBlocking = TRUE
  FallbackEnabled = TRUE
  Retries = {{}, {q1}}
  Recoveries = {{}}
  NoQid = NoQid
  NoFile = NoFile
  Torn = Torn
INVARIANTS SpendBounded CumulativeConsistent
PROPERTY BatchEnds
CHECK_DEADLOCK FALSE
