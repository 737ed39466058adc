\* Runs over all three questions or the first two, that resume or restart, with
\* and without skipping failed questions and continuing over new failures.
SPECIFICATION Spec
CONSTANTS
  q1 = q1
  q2 = q2
  q3 = q3
  Qid = {q1, q2, q3}
  Order <- MCOrder
  Selections = {{q1, q2, q3}, {q1, q2}}
  Restart = {TRUE, FALSE}
  SkipRecorded = {TRUE, FALSE}
  Continue = {TRUE, FALSE}
  SaveEvery = 2
  TokenBudget = 4
  Tokens = {2}
  Torn = Torn
INVARIANTS TypeOK CrashLosesFewResults CheckpointSpendBounded SkippingRunsCanSave
  DebugMatchesCheckpoint
PROPERTIES ResumeKeepsAccepted RunEnds
CHECK_DEADLOCK FALSE
