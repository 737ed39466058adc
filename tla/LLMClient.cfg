\* A chain of two endpoints: the first one hard-stop, with a usage file and a token
\* budget of one call. q1 has a budget of one call; q2 has none, so that only the
\* token budget of the endpoint limits what it spends there.
SPECIFICATION ClientSpec
CONSTANTS
  q1 = q1
  q2 = q2
  Qid = {q1, q2}
  AttemptId = {a1, a2, a3}
  QidBudget <- MCQidBudget
  MaxTotal = 0
  Tokens = {0, 1, 2}
  NoAttempt = NoAttempt
  NEndpoints = 2
  UsageFile = {1}
  HardStop = {1}
  TokenBudget <- MCTokenBudget
  NoQid = NoQid
INVARIANTS ClientTypeOK RequestsWithinBudget CallsWithinBudget
  UsageCoversLedger ChargeWithinEndpointBudget
PROPERTIES OutcomesAreFinal PermitsSpec LedgerSpec ChatEnds
CHECK_DEADLOCK FALSE
