\* The default policy: a failed child stops the batch. q1 has two calls;
\* the operator may authorise the recovery of q1.
SPECIFICATION RunnerSpec
CONSTANTS
  q1 = q1
  q2 = q2
  Qid = {q1, q2}
  AttemptId = {a1, a2, a3}
  QidBudget <- MCBudget
  MaxTotal = 3
  Tokens = {0, 2}
  NoAttempt = NoAttempt
  Allowed <- MCAllowed
  BatchTokens = 4
  QidTokens = 2
  CandidateCap = 5
  MaxQuestions = 2
  CallsPerQuestion = 2
  Canary = FALSE
  ContinueOnBlocking = FALSE
  FallbackEnabled = FALSE
  Retries = {{}}
  Recoveries = {{}, {q1}}
  NoQid = NoQid
  NoFile = NoFile
  Torn = Torn
SYMMETRY AttemptSymm
INVARIANTS RunnerTypeOK CompletedIsProcessed StaleRecoveryResolved
  NoCallOverOrphan
PROPERTY NoReplay
CHECK_DEADLOCK FALSE
