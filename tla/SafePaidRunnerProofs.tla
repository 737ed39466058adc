------------------------ MODULE SafePaidRunnerProofs ------------------------
(***************************************************************************)
(* Proofs about SafePaidRunner, for every batch, every budget, every set   *)
(* of authorisations and any number of runs over the same files: the       *)
(* children use the ledger as TokenLedger says, no question is paid for    *)
(* twice without authorisation, under the strict policy no call is made    *)
(* over an orphan attempt, the cumulative files agree, a batch that has    *)
(* come to its end has an outcome for every question, its spend is bounded *)
(* and so are the steps of each of its runs.                               *)
(***************************************************************************)
EXTENDS SafePaidRunner, TokenLedgerProofs

(* A bound on the spend grows by t with a call that costs t at most.       *)
LEMMA SpendGrows ==
  ASSUME NEW u \in Nat, NEW v \in Nat, NEW t \in Nat, NEW q \in Nat, NEW b \in Nat,
         NEW m \in Int, NEW n \in Int, NEW k \in Int,
         v <= u + t, u + q <= b + m, n = m + t, n <= k
  PROVE  v + q <= b + n /\ v + q <= b + k
  OBVIOUS

(* More calls cost no less.                                                *)
LEMMA CallsCost ==
  ASSUME NEW t \in Nat, NEW m \in Int, NEW n \in Int, m <= n
  PROVE  m * t <= n * t /\ (m + 1) * t = m * t + t /\ m * t \in Int /\ n * t \in Int
<1>1. PICK k \in Nat : n = m + k
  <2>1. n - m \in Nat /\ n = m + (n - m)
    OBVIOUS
  <2> QED BY <2>1
<1>2. (m + k) * t = m * t + k * t /\ k * t >= 0 /\ (m + 1) * t = m * t + t
  OBVIOUS
<1>3. m * t \in Int /\ n * t \in Int /\ k * t \in Int
  OBVIOUS
<1> QED BY <1>1, <1>2, <1>3

\* How many steps a run has left at most: of the question in hand, and for each
\* question in the queue two for every call and ten besides.
Place ==
  CASE pc = "child" -> 8 [] pc = "save" -> 7 [] pc = "truncate" -> 6 [] pc = "write" -> 5
    [] pc = "persist" -> 4 [] pc = "persistDebug" -> 3 [] pc = "judge" -> 2 [] OTHER -> 1
CallsLeft == 2 * (CallsPerQuestion - calls) + (IF open = NoAttempt THEN 0 ELSE 1)
InHand    == IF pc = "child" THEN Place + CallsLeft ELSE Place
Waiting   == Cardinality(queue) * (2 * CallsPerQuestion + 10)
StepsLeft == IF pc = "down" THEN 0 ELSE InHand + Waiting

\* What is counted, each by itself.
StepsInv ==
  /\ Place \in 1..8 /\ (pc = "child" => Place = 8)
  /\ CallsLeft \in Nat /\ CallsLeft <= 2 * CallsPerQuestion + 1
  /\ InHand \in Nat /\ InHand > 0
  /\ IsFiniteSet(queue) /\ Cardinality(queue) \in Nat /\ Waiting \in Nat /\ StepsLeft \in Nat
  /\ pc # "down" => StepsLeft = InHand + Waiting

\* A run that is on has a number of steps left.
LEMMA StepsLeftNat ==
  CallsPerQuestion \in Nat /\ calls \in 0..CallsPerQuestion /\ IsFiniteSet(queue) => StepsInv
<1> SUFFICES ASSUME CallsPerQuestion \in Nat, calls \in 0..CallsPerQuestion, IsFiniteSet(queue)
             PROVE  StepsInv
  OBVIOUS
<1>2. Place \in 1..8 /\ (pc = "child" => Place = 8)
  BY DEF Place
<1>3. CallsLeft \in Nat /\ CallsLeft <= 2 * CallsPerQuestion + 1
  <2>1. ASSUME NEW n \in 0..CallsPerQuestion, NEW k \in {0, 1}
        PROVE  /\ 2 * (CallsPerQuestion - n) + k \in Nat
               /\ 2 * (CallsPerQuestion - n) + k <= 2 * CallsPerQuestion + 1
    OBVIOUS
  <2>2. (IF open = NoAttempt THEN 0 ELSE 1) \in {0, 1}
    OBVIOUS
  <2> QED BY <2>1, <2>2, Zenon DEF CallsLeft
<1>4. InHand \in Nat /\ InHand > 0
  <2>1. Place + CallsLeft \in Nat /\ Place + CallsLeft > 0 /\ Place \in Nat /\ Place > 0
    BY <1>2, <1>3
  <2> QED BY <2>1, Zenon DEF InHand
<1>5. IsFiniteSet(queue) /\ Cardinality(queue) \in Nat /\ Waiting \in Nat
  <2>1. IsFiniteSet(queue) /\ Cardinality(queue) \in Nat
    BY FS_CardinalityType
  <2>2. ASSUME NEW m \in Nat, NEW n \in Nat PROVE m * n \in Nat
    OBVIOUS
  <2>3. 2 * CallsPerQuestion + 10 \in Nat
    OBVIOUS
  <2> QED BY <2>1, <2>2, <2>3, Zenon DEF Waiting
<1>6. pc # "down" => StepsLeft = InHand + Waiting
  BY DEF StepsLeft
<1>7. pc = "down" => StepsLeft = 0
  BY DEF StepsLeft
<1>8. StepsLeft \in Nat
  BY <1>4, <1>5, <1>6, <1>7
<1> QED BY <1>2, <1>3, <1>4, <1>5, <1>6, <1>8 DEF StepsInv

\* What both sides share does not matter.
LEMMA SharedTerm ==
  ASSUME NEW m \in Nat, NEW n \in Nat, NEW k \in Nat, m < n
  PROVE  m + k < n + k /\ k + m < k + n
  OBVIOUS

\* A run goes on in one of four ways: it ends,
LEMMA RunStops ==
  ASSUME StepsInv, pc # "down", pc' = "down"
  PROVE  StepsLeft' < StepsLeft
<1>1. StepsLeft' = 0
  BY DEF StepsLeft
<1>2. StepsLeft \in Nat /\ StepsLeft # 0
  BY DEF StepsInv
<1> QED BY <1>1, <1>2

\* has fewer steps left with the question in hand,
LEMMA RunWorks ==
  ASSUME StepsInv, StepsInv', pc # "down", pc' # "down", queue' = queue, InHand' < InHand
  PROVE  StepsLeft' < StepsLeft
<1>1. StepsLeft = InHand + Waiting /\ InHand \in Nat /\ Waiting \in Nat
  BY DEF StepsInv
<1>2. StepsLeft' = InHand' + Waiting' /\ InHand' \in Nat
  BY DEF StepsInv
<1>3. Waiting' = Waiting
  BY DEF Waiting
<1>4. StepsLeft' = InHand' + Waiting
  BY <1>2, <1>3, Zenon
<1>5. InHand' + Waiting < InHand + Waiting
  BY <1>1, <1>2, SharedTerm
<1> QED BY <1>1, <1>4, <1>5, Zenon

\* be it at a later place
LEMMA RunMoves ==
  ASSUME StepsInv, StepsInv', pc # "down", pc' # "down", queue' = queue,
         pc' # "child", Place' < Place
  PROVE  StepsLeft' < StepsLeft
<1>1. InHand' = Place'
  BY DEF InHand
<1>2. InHand \in Nat /\ Place \in Nat /\ Place' \in Nat /\ InHand >= Place
  <2>1. Place \in Nat /\ Place' \in Nat /\ CallsLeft \in Nat /\ InHand \in Nat
    BY DEF StepsInv
  <2>2. InHand = Place \/ InHand = Place + CallsLeft
    BY DEF InHand
  <2> QED BY <2>1, <2>2
<1>3. InHand' < InHand
  BY <1>1, <1>2
<1> QED BY <1>3, RunWorks

\* or with fewer calls left,
LEMMA RunCalls ==
  ASSUME StepsInv, StepsInv', queue' = queue, pc = "child", pc' = "child",
         CallsLeft' < CallsLeft
  PROVE  StepsLeft' < StepsLeft
<1>1. InHand = 8 + CallsLeft /\ InHand' = 8 + CallsLeft'
  BY DEF InHand, Place
<1>2. CallsLeft \in Nat /\ CallsLeft' \in Nat
  BY DEF StepsInv
<1>3. 8 + CallsLeft' < 8 + CallsLeft
  BY <1>2, SharedTerm
<1>4. InHand' < InHand
  BY <1>1, <1>3, Zenon
<1> QED BY <1>4, RunWorks

\* or takes the next question, which is worth all the steps it may cost.
LEMMA RunTakes ==
  ASSUME StepsInv, StepsInv', CallsPerQuestion \in Nat, pc = "loop", pc' \in {"child", "save"},
         NEW q \in queue, queue' = queue \ {q}
  PROVE  StepsLeft' < StepsLeft
<1> DEFINE n == Cardinality(queue')
           k == 2 * CallsPerQuestion + 10
<1>1. n \in Nat /\ Cardinality(queue) = n + 1 /\ k \in Nat
  <2>1. IsFiniteSet(queue) /\ Cardinality(queue) \in Nat /\ n \in Nat
    BY DEF StepsInv
  <2>2. Cardinality(queue \ {q}) = Cardinality(queue) - 1
    BY <2>1, FS_RemoveElement
  <2>3. n = Cardinality(queue) - 1
    BY <2>2
  <2> QED BY <2>1, <2>3
<1>2. Waiting = (n + 1) * k /\ Waiting' = n * k
  BY <1>1 DEF Waiting
<1>3. /\ InHand \in Nat /\ InHand > 0 /\ StepsLeft = InHand + Waiting
      /\ InHand' \in Nat /\ StepsLeft' = InHand' + Waiting'
  BY DEF StepsInv
<1>4. InHand' <= 2 * CallsPerQuestion + 9
  <2>1. InHand' = 7 \/ InHand' = 8 + CallsLeft'
    BY DEF InHand, Place
  <2>2. CallsLeft' \in Nat /\ CallsLeft' <= 2 * CallsPerQuestion + 1
    BY DEF StepsInv
  <2> QED BY <2>1, <2>2
<1> HIDE DEF n
<1>5. (n + 1) * k = n * k + k /\ n * k \in Int
  BY <1>1, CallsCost
<1>6. StepsLeft = InHand + (n * k + k) /\ StepsLeft' = InHand' + n * k
  BY <1>2, <1>3, <1>5
<1> QED BY <1>3, <1>4, <1>5, <1>6

USE LedgerAssumption, RunnerAssumption

(* What a child's step needs to be a step of the ledger.                   *)
BatchInv ==
  /\ queue \subseteq Qid
  /\ calls \in Nat
  /\ pc = "child" => cur \in Qid

\* No run is on at first.
LEMMA BatchInit == RunnerInit => BatchInv
  BY DEF RunnerInit, BatchInv

\* Every step keeps it so.
LEMMA BatchStep == BatchInv /\ [RunnerNext]_runnerVars => BatchInv'
<1> SUFFICES ASSUME BatchInv, [RunnerNext]_runnerVars PROVE BatchInv'
  OBVIOUS
<1> USE DEF BatchInv
<1>1. ASSUME Down PROVE BatchInv'
  BY <1>1 DEF Down
<1>2. ASSUME ChildGone, queue' = queue PROVE BatchInv'
  BY <1>2 DEF ChildGone
<1>3. ASSUME queue' = queue, calls' = calls, pc' # "child" PROVE BatchInv'
  BY <1>3
<1>4. ASSUME NEW retries, NEW recovers, RefuseStart(recovers) \/ Start(retries, recovers)
      PROVE  BatchInv'
  BY <1>4 DEF RefuseStart, Start, runVars, child
<1>5. CASE StopNoHeadroom \/ StopOverCap \/ StopNoConfig \/ PersistMissing \/ PersistTorn \/ Complete \/ Crash
  BY <1>1, <1>5 DEF StopNoHeadroom, StopOverCap, StopNoConfig,
     PersistMissing, PersistTorn, Complete, Crash
<1>6. ASSUME NEW q \in Qid, Launch(q) PROVE BatchInv'
  BY <1>6 DEF Launch
<1>7. ASSUME NEW a \in AttemptId, CallBegin(a) PROVE BatchInv'
  BY <1>7 DEF CallBegin, others, runVars
<1>8. ASSUME NEW a \in AttemptId, RefusedCall(a) \/ RefusedPrompt(a) PROVE BatchInv'
  BY <1>3, <1>8 DEF RefusedCall, RefusedPrompt, Block, others, runVars
<1>9. CASE CallEnd
  BY <1>9 DEF CallEnd, others, runVars
<1>10. CASE Solved \/ Uncaught
  BY <1>2, <1>3, <1>10 DEF Solved, Uncaught, Return, Block, others, runVars
<1>11. CASE OtherFailure \/ WriteDebug \/ ChildKilled
  BY <1>2, <1>3, <1>11 DEF OtherFailure, WriteDebug, ChildKilled, others, runVars
<1>12. CASE SaveCheckpoint \/ TruncateDebug \/ PersistCheckpoint \/ PersistDebug
  BY <1>3, <1>12 DEF SaveCheckpoint, TruncateDebug, PersistCheckpoint, PersistDebug,
     runVars, child
<1>13. ASSUME NEW trip \in BOOLEAN, Judge(trip) PROVE BatchInv'
  BY <1>1, <1>3, <1>13 DEF Judge, runVars
<1>14. CASE UNCHANGED runnerVars
  BY <1>14 DEF runnerVars, runVars, child
<1> QED
  BY <1>4, <1>5, <1>6, <1>7, <1>8, <1>9, <1>10, <1>11, <1>12, <1>13, <1>14
  DEF RunnerNext, RunnerStep, ChildStep

-----------------------------------------------------------------------------
(* Each step of runner or child is one step of the ledger, or none.        *)
LEMMA RunnerStepIsLedgerStep ==
  ASSUME BatchInv, [RunnerNext]_runnerVars
  PROVE  [LedgerNext]_ledgerVars
<1>1. ASSUME UNCHANGED ledger, open' = NoAttempt PROVE [LedgerNext]_ledgerVars
  <2>1. CASE open = NoAttempt
    BY <1>1, <2>1 DEF ledgerVars
  <2>2. CASE open # NoAttempt
    BY <1>1, <2>2 DEF AbandonAttempt, LedgerNext
  <2> QED
    BY <2>1, <2>2
<1>2. CASE Crash \/ ChildKilled
  BY <1>1, <1>2 DEF Crash, ChildKilled
<1>3. ASSUME NEW a \in AttemptId, CallBegin(a) \/ RefusedCall(a) \/ RefusedPrompt(a)
      PROVE  [LedgerNext]_ledgerVars
  BY <1>3 DEF CallBegin, RefusedCall, RefusedPrompt, BatchInv, LedgerNext
<1>4. CASE CallEnd
  BY <1>4 DEF CallEnd, LedgerNext
<1>5. CASE Uncaught
  BY <1>5 DEF Uncaught, LedgerNext
<1>6. CASE UNCHANGED runnerVars
  BY <1>6 DEF runnerVars
<1>7. CASE Solved \/ OtherFailure \/ SaveCheckpoint \/ TruncateDebug \/ WriteDebug
  BY <1>7 DEF Solved, OtherFailure, SaveCheckpoint, TruncateDebug, WriteDebug
<1>8. CASE RunnerStep
  BY <1>8 DEF RunnerStep, StopNoHeadroom, Launch, StopOverCap, StopNoConfig, PersistMissing, PersistTorn,
     PersistCheckpoint, PersistDebug, Judge, Complete
<1>9. ASSUME NEW retries, NEW recovers, RefuseStart(recovers) \/ Start(retries, recovers)
      PROVE  [LedgerNext]_ledgerVars
  BY <1>9 DEF RefuseStart, Start
<1> QED
  BY <1>2, <1>3, <1>4, <1>5, <1>6, <1>7, <1>8, <1>9 DEF RunnerNext, ChildStep

(* A batch, over any number of runs, children, crashes and recoveries,     *)
(* uses the ledger as TokenLedger says; what is proved of every ledger     *)
(* therefore holds of the one a batch leaves behind.                       *)
THEOREM RunnerUsesLedger == RunnerSpec => LedgerSpec
<1>1. RunnerInit => LedgerInit
  BY DEF RunnerInit
<1>2. BatchInv /\ [RunnerNext]_runnerVars => [LedgerNext]_ledgerVars
  BY RunnerStepIsLedgerStep
<1> QED
  BY <1>1, <1>2, BatchInit, BatchStep, PTL DEF RunnerSpec, LedgerSpec

(* The budgets of runtime_safety.py hold over the whole batch.             *)
THEOREM BatchWithinBudget == RunnerSpec => []CallsWithinBudget
  BY RunnerUsesLedger, BudgetHolds, PTL

-----------------------------------------------------------------------------
(* Every question ever paid for has a row; a pending or launched question  *)
(* that was paid for is authorised; and the launched question has left the *)
(* queue, so that paying for it disturbs nothing that is pending.          *)
ReplayInv ==
  /\ \A q \in paid : \E a \in DOMAIN ledger : ledger[a].qid = q
  /\ queue \cap paid \subseteq authorised
  /\ pc = "child" => cur \notin queue
  /\ pc = "child" /\ calls = 0 /\ cur \in paid => cur \in authorised

\* Nothing was paid for at first.
LEMMA ReplayInit == RunnerInit => ReplayInv
  BY DEF RunnerInit, ReplayInv

(* The rows a run reads at its start tell it every question paid before.   *)
LEMMA StartSkipsPaid ==
  ASSUME ReplayInv, NEW retries, NEW recovers, Start(retries, recovers)
  PROVE  queue' \cap paid \subseteq authorised'
<1> SUFFICES ASSUME NEW q \in queue', q \in paid
             PROVE  q \in retries \cup recovers
  BY DEF Start
<1>1. PICK a \in DOMAIN ledger : ledger[a].qid = q
  BY DEF ReplayInv
<1>2. CASE a \in Inflight
  <2>1. q \in BlockedQids
    BY <1>1, <1>2 DEF BlockedQids
  <2>2. BlockedQids \subseteq recovers
    BY DEF Start, MayStart, Unauthorised
  <2> QED
    BY <2>1, <2>2
<1>3. CASE a \notin Inflight
  <2>1. q \in Processed
    BY <1>1, <1>3 DEF ProcessedQids, Processed
  <2> QED
    BY <2>1 DEF Start
<1> QED
  BY <1>2, <1>3

\* No step lets a question that was paid for be pending unless it is
\* authorised.
LEMMA ReplayStep ==
  LedgerInv /\ BatchInv /\ ReplayInv /\ [RunnerNext]_runnerVars => ReplayInv'
<1> SUFFICES ASSUME LedgerInv, BatchInv, ReplayInv, [RunnerNext]_runnerVars
             PROVE  ReplayInv'
  OBVIOUS
<1>1. ASSUME paid' = paid
      PROVE  \A q \in paid' : \E a \in DOMAIN ledger' : ledger'[a].qid = q
  BY <1>1, RunnerStepIsLedgerStep, RowsKept DEF ReplayInv
<1>2. ASSUME paid' = paid, queue' = queue, authorised' = authorised, pc' # "child"
      PROVE  ReplayInv'
  BY <1>1, <1>2 DEF ReplayInv
<1>3. ASSUME paid' = paid, Down PROVE ReplayInv'
  BY <1>1, <1>3 DEF ReplayInv, Down
<1>4. CASE StopNoHeadroom \/ StopOverCap \/ StopNoConfig \/ PersistMissing \/ PersistTorn \/ Complete \/ Crash
  BY <1>3, <1>4 DEF StopNoHeadroom, StopOverCap, StopNoConfig,
     PersistMissing, PersistTorn, Complete, Crash
<1>5. ASSUME NEW retries, NEW recovers, RefuseStart(recovers) PROVE ReplayInv'
  BY <1>5 DEF RefuseStart, ReplayInv, runVars, child, ledgerVars
<1>6. ASSUME NEW retries, NEW recovers, Start(retries, recovers) PROVE ReplayInv'
  <2>1. paid' = paid /\ pc' # "child"
    BY <1>6 DEF Start
  <2> QED
    BY <1>1, <1>6, <2>1, StartSkipsPaid DEF ReplayInv
<1>7. ASSUME NEW q \in Qid, Launch(q) PROVE ReplayInv'
  <2>1. /\ q \in queue /\ queue' = queue \ {q} /\ cur' = q
        /\ paid' = paid /\ authorised' = authorised
    BY <1>7 DEF Launch, IsFirst
  <2> QED
    BY <1>1, <2>1 DEF ReplayInv
<1>8. ASSUME NEW a \in AttemptId, CallBegin(a) PROVE ReplayInv'
  <2>1. /\ pc = "child" /\ paid' = paid \cup {cur} /\ calls' = calls + 1
        /\ UNCHANGED <<queue, authorised, cur, pc>>
        /\ BeginProviderAttempt(a, cur)
    BY <1>8 DEF CallBegin, others, runVars
  <2>2. a \in DOMAIN ledger' /\ ledger'[a].qid = cur
    BY <2>1 DEF BeginProviderAttempt, AppendRow
  <2>3. \A q \in paid : \E b \in DOMAIN ledger' : ledger'[b].qid = q
    BY RunnerStepIsLedgerStep, RowsKept DEF ReplayInv
  <2>4. calls' # 0
    BY <2>1 DEF BatchInv
  <2> QED
    BY <2>1, <2>2, <2>3, <2>4 DEF ReplayInv
<1>9. ASSUME NEW a \in AttemptId, RefusedCall(a) \/ RefusedPrompt(a) PROVE ReplayInv'
  BY <1>2, <1>9 DEF RefusedCall, RefusedPrompt, Block, others, runVars
<1>10. CASE CallEnd
  BY <1>1, <1>10 DEF CallEnd, ReplayInv, others, runVars
<1>11. CASE Solved \/ Uncaught
  <2>1. CASE Solved \/ ~FallbackEnabled
    BY <1>2, <1>11, <2>1 DEF Solved, Uncaught, Return, Block, ChildGone, others, runVars
  <2>2. CASE Uncaught /\ FallbackEnabled
    BY <1>1, <2>2 DEF Uncaught, ReplayInv, others, runVars
  <2> QED
    BY <1>11, <2>1, <2>2
<1>12. CASE OtherFailure \/ WriteDebug \/ ChildKilled
  BY <1>2, <1>12 DEF OtherFailure, WriteDebug, ChildKilled, ChildGone, others, runVars
<1>13. CASE SaveCheckpoint \/ TruncateDebug \/ PersistCheckpoint \/ PersistDebug
  BY <1>2, <1>13 DEF SaveCheckpoint, TruncateDebug, PersistCheckpoint, PersistDebug, runVars
<1>14. ASSUME NEW trip \in BOOLEAN, Judge(trip) PROVE ReplayInv'
  BY <1>2, <1>3, <1>14 DEF Judge, runVars
<1>15. CASE UNCHANGED runnerVars
  BY <1>15 DEF runnerVars, runVars, child, ledgerVars, ReplayInv
<1> QED
  BY <1>4, <1>5, <1>6, <1>7, <1>8, <1>9, <1>10, <1>11, <1>12, <1>13, <1>14, <1>15
  DEF RunnerNext, RunnerStep, ChildStep

(* Only the begin of a call counts a first call of the child.              *)
LEMMA FirstCallIsBegin ==
  ASSUME BatchInv, [RunnerNext]_runnerVars, calls = 0, calls' = 1
  PROVE  pc = "child"
<1>1. ASSUME NEW a \in AttemptId, CallBegin(a) PROVE pc = "child"
  BY <1>1 DEF CallBegin
<1>2. ASSUME NEW a \in AttemptId, RefusedCall(a) \/ RefusedPrompt(a) PROVE FALSE
  BY <1>2 DEF RefusedCall, RefusedPrompt, Block
<1>3. CASE CallEnd \/ Solved \/ Uncaught \/ OtherFailure
  BY <1>3 DEF CallEnd, Solved, Uncaught, OtherFailure
<1>4. CASE SaveCheckpoint \/ TruncateDebug \/ WriteDebug \/ ChildKilled
  BY <1>4 DEF SaveCheckpoint, TruncateDebug, WriteDebug, ChildKilled, ChildGone, child
<1>5. CASE RunnerStep \/ Crash
  BY <1>5 DEF RunnerStep, Crash, StopNoHeadroom, Launch, StopOverCap, StopNoConfig, PersistMissing,
     PersistTorn, PersistCheckpoint, PersistDebug, Judge, Complete, Down, child
<1>6. ASSUME NEW retries, NEW recovers, RefuseStart(recovers) \/ Start(retries, recovers)
      PROVE  FALSE
  BY <1>6 DEF RefuseStart, Start, child
<1>7. CASE UNCHANGED runnerVars
  BY <1>7 DEF runnerVars, child
<1> QED
  BY <1>1, <1>2, <1>3, <1>4, <1>5, <1>6, <1>7 DEF RunnerNext, ChildStep

(* No run, after any crashes and restarts, pays again for a question that  *)
(* was paid for, unless it was given a retry or a recovery of it.          *)
THEOREM ReplayProtection == RunnerSpec => NoReplay
<1>1. BatchInv /\ ReplayInv /\ [RunnerNext]_runnerVars =>
        [calls = 0 /\ calls' = 1 => cur \notin paid \/ cur \in authorised]_runnerVars
  BY FirstCallIsBegin DEF ReplayInv
<1> QED
  BY <1>1, BatchInit, BatchStep, ReplayInit, ReplayStep, RunnerUsesLedger, Invariance, PTL
  DEF RunnerSpec, NoReplay

-----------------------------------------------------------------------------
(* The strict policy: no continuing after a failed question, no fallback.  *)
Strict == (Canary \/ ~ContinueOnBlocking) /\ ~FallbackEnabled

(* The questions whose orphan attempts this run may leave behind it.       *)
Spared == IF Canary THEN {} ELSE authorised

(* While a run is up, an attempt without a known end is one this run may   *)
(* recover, or the one the child has in hand, or the child has ended with  *)
(* an error, which the strict policy turns into a stop.                    *)
Accounted(a) ==
  \/ ledger[a].qid \in Spared
  \/ pc = "child" /\ a = open
  \/ pc \notin {"child", "loop"} /\ exit = "error"

OrphanInv ==
  /\ pc # "down" => \A a \in Inflight : Accounted(a)
  /\ pc # "child" => open = NoAttempt

\* There is no attempt at first.
LEMMA OrphanInit == RunnerInit => OrphanInv
  BY DEF RunnerInit, LedgerInit, OrphanInv

(* The child's own steps.                                                  *)
LEMMA OrphanChildStep ==
  ASSUME Strict, LedgerInv, BatchInv, OrphanInv, ChildStep
  PROVE  OrphanInv'
<1>1. ASSUME NEW a \in AttemptId, CallBegin(a) PROVE OrphanInv'
  <2>1. /\ pc = "child" /\ open = NoAttempt /\ open' = a
        /\ UNCHANGED <<pc, authorised, cur, exit>>
        /\ DOMAIN ledger' = DOMAIN ledger \cup {a}
        /\ \A b \in DOMAIN ledger : ledger'[b] = ledger[b]
        /\ ledger'[a].qid = cur
    BY <1>1 DEF CallBegin, BeginProviderAttempt, AppendRow, others, runVars
  <2>2. Inflight' \subseteq Inflight \cup {a} /\ Inflight \subseteq DOMAIN ledger
    BY <2>1 DEF Inflight
  <2>3. \A b \in Inflight : ledger[b].qid \in Spared
    BY <2>1, <2>2 DEF OrphanInv, Accounted, Spared, LedgerInv, LedgerTypeOK
  <2> QED
    BY <2>1, <2>2, <2>3 DEF OrphanInv, Accounted, Spared
<1>2. ASSUME NEW a \in AttemptId, RefusedCall(a) \/ RefusedPrompt(a) PROVE OrphanInv'
  <2>1. /\ exit' = "error" /\ pc' = "save" /\ open' = NoAttempt
    BY <1>2 DEF RefusedCall, RefusedPrompt, Block, RefuseProviderAttempt,
       RecordPreCallBlocked
  <2> QED
    BY <2>1 DEF OrphanInv, Accounted, Spared
<1>3. CASE CallEnd
  <2>1. /\ pc = "child" /\ pc' = pc /\ authorised' = authorised /\ open' = NoAttempt
        /\ open # NoAttempt
        /\ \E s \in {"COMPLETED", "ERROR"}, t \in Nat : ReplaceAttempt(open, s, t)
    BY <1>3 DEF CallEnd, FinalizeCompleted, FinalizeFailed, others, runVars
  <2>2. PICK s \in {"COMPLETED", "ERROR"}, t \in Nat : ReplaceAttempt(open, s, t)
    BY <2>1
  <2>3. s \in Status /\ s \in Terminal /\ open \in AttemptId
    BY <2>1 DEF Status, Terminal, LedgerInv, LedgerTypeOK
  <2>4. /\ DOMAIN ledger' = DOMAIN ledger /\ ledger'[open].status = s
        /\ \A b \in DOMAIN ledger \ {open} : ledger'[b] = ledger[b]
    BY <2>2, <2>3, ReplaceType DEF LedgerInv
  <2>5. \A b \in Inflight' : b \in Inflight /\ b # open /\ ledger'[b].qid = ledger[b].qid
    BY <2>3, <2>4 DEF Inflight
  <2> QED
    BY <2>1, <2>5 DEF OrphanInv, Accounted, Spared
<1>4. CASE Uncaught
  <2>1. exit' = "error" /\ pc' = "save" /\ open' = NoAttempt
    BY <1>4 DEF Uncaught, Block, AbandonAttempt, Strict
  <2> QED
    BY <2>1 DEF OrphanInv, Accounted, Spared
<1>5. CASE Solved \/ OtherFailure
  <2>1. /\ pc = "child" /\ open = NoAttempt /\ ledger' = ledger /\ open' = open
        /\ authorised' = authorised /\ pc' \in {"save", "persist"}
    BY <1>5 DEF Solved, OtherFailure, Return, Block, ChildGone, ledgerVars, others, runVars
  <2>2. \A b \in Inflight : ledger[b].qid \in Spared
    BY <2>1 DEF OrphanInv, Accounted, Spared, LedgerInv, LedgerTypeOK, Inflight
  <2> QED
    BY <2>1, <2>2 DEF OrphanInv, Accounted, Spared, Inflight
<1>6. CASE SaveCheckpoint \/ TruncateDebug \/ WriteDebug
  <2>1. /\ pc \notin {"child", "loop", "down"} /\ pc' \notin {"child", "loop"}
        /\ UNCHANGED <<ledger, open, authorised, exit>>
    BY <1>6 DEF SaveCheckpoint, TruncateDebug, WriteDebug, ChildGone, ledgerVars,
       runVars, child
  <2> QED
    BY <2>1 DEF OrphanInv, Accounted, Spared, Inflight
<1> QED
  BY <1>1, <1>2, <1>3, <1>4, <1>5, <1>6 DEF ChildStep

\* Under the strict policy, no step leaves an attempt unaccounted for.
LEMMA OrphanStep ==
  ASSUME Strict, LedgerInv, BatchInv, OrphanInv, [RunnerNext]_runnerVars
  PROVE  OrphanInv'
<1>1. ASSUME pc' = "down", open' = NoAttempt PROVE OrphanInv'
  BY <1>1 DEF OrphanInv
<1>2. CASE StopNoHeadroom \/ StopOverCap \/ StopNoConfig \/ PersistMissing \/ PersistTorn \/ Complete \/ Crash
  BY <1>1, <1>2 DEF StopNoHeadroom, StopOverCap, StopNoConfig,
     PersistMissing, PersistTorn, Complete,
     Crash, Persisting, Down, ledgerVars, OrphanInv
<1>3. ASSUME NEW retries, NEW recovers, RefuseStart(recovers) PROVE OrphanInv'
  BY <1>3 DEF RefuseStart, OrphanInv, Accounted, Spared, Inflight, runVars, child, ledgerVars
<1>4. ASSUME NEW retries, NEW recovers, Start(retries, recovers) PROVE OrphanInv'
  <2>1. /\ pc = "down" /\ BlockedQids \subseteq Spared'
        /\ ledger' = ledger /\ open' = open /\ pc' = "loop"
    BY <1>4 DEF Start, MayStart, Unauthorised, Spared, ledgerVars
  <2> QED
    BY <2>1 DEF OrphanInv, Accounted, Spared, BlockedQids, Inflight
<1>5. ASSUME NEW q \in Qid, Launch(q) PROVE OrphanInv'
  <2>1. /\ pc = "loop" /\ ledger' = ledger /\ open' = open /\ authorised' = authorised
    BY <1>5 DEF Launch, ledgerVars
  <2> QED
    BY <2>1 DEF OrphanInv, Accounted, Spared, Inflight
<1>6. CASE PersistCheckpoint \/ PersistDebug
  <2>1. /\ pc \notin {"child", "loop", "down"} /\ pc' \notin {"child", "loop"}
        /\ UNCHANGED <<ledger, open, authorised, exit>>
    BY <1>6 DEF PersistCheckpoint, PersistDebug, Persisting, ledgerVars, runVars, child
  <2> QED
    BY <2>1 DEF OrphanInv, Accounted, Spared, Inflight
<1>7. ASSUME NEW trip \in BOOLEAN, Judge(trip) PROVE OrphanInv'
  <2>1. pc = "judge" /\ ledger' = ledger /\ open' = open
    BY <1>7 DEF Judge, ledgerVars
  <2>2. CASE Down
    BY <1>1, <2>1, <2>2 DEF Down, OrphanInv
  <2>3. CASE ~Down
    <3>1. exit # "error" /\ pc' = "loop" /\ authorised' = authorised
      BY <1>7, <2>3 DEF Judge, BusinessBlock, Strict, runVars
    <3> QED
      BY <2>1, <3>1 DEF OrphanInv, Accounted, Spared, Inflight
  <2> QED
    BY <2>2, <2>3
<1>8. CASE ChildKilled
  <2>1. open' = NoAttempt /\ pc' = "persist" /\ exit' = "error"
    BY <1>8 DEF ChildKilled, ChildGone
  <2> QED
    BY <2>1 DEF OrphanInv, Accounted, Spared
<1>9. CASE ChildStep
  BY <1>9, OrphanChildStep
<1>10. CASE UNCHANGED runnerVars
  BY <1>10 DEF runnerVars, runVars, child, ledgerVars, OrphanInv, Accounted, Spared, Inflight
<1> QED
  BY <1>2, <1>3, <1>4, <1>5, <1>6, <1>7, <1>8, <1>9, <1>10 DEF RunnerNext, RunnerStep

(* Under the strict policy no call is made while another question's        *)
(* attempt has no known end, unless the run may recover that question.     *)
THEOREM OrphansStopTheBatch == RunnerSpec => [](Strict => NoCallOverOrphan)
<1>1. RunnerInit => (Strict => OrphanInv)
  BY OrphanInit
<1>2. /\ LedgerInv /\ BatchInv /\ (Strict => OrphanInv) /\ [RunnerNext]_runnerVars
      => (Strict => OrphanInv)'
  BY OrphanStep DEF Strict
<1>3. (Strict => OrphanInv) => (Strict => NoCallOverOrphan)
  <2> SUFFICES ASSUME OrphanInv, open # NoAttempt, NEW a \in Inflight \ {open}
               PROVE  ledger[a].qid \in authorised /\ ~Canary
    BY DEF NoCallOverOrphan
  <2> QED
    BY DEF OrphanInv, Accounted, Spared
<1> QED
  BY <1>1, <1>2, <1>3, BatchInit, BatchStep, RunnerUsesLedger, Invariance, PTL
  DEF RunnerSpec

-----------------------------------------------------------------------------
(* The recovery notice names attempts on record, and is only out of force  *)
(* when none of them is STARTED.                                           *)
RecoveryInv ==
  /\ recovery \in [required : BOOLEAN, attempts : SUBSET AttemptId]
  /\ recovery.attempts \subseteq DOMAIN ledger
  /\ StaleRecoveryResolved

\* No notice is in force at first.
LEMMA RecoveryInit == RunnerInit => RecoveryInv
  BY DEF RunnerInit, LedgerInit, RecoveryInv, StaleRecoveryResolved, Inflight

(* Whatever the ledger does, an attempt on record that has ended has ended *)
(* for good: the steps that leave the notice alone leave it resolved.      *)
LEMMA NoticeKept ==
  ASSUME LedgerInv, RecoveryInv, [LedgerNext]_ledgerVars, recovery' = recovery
  PROVE  RecoveryInv'
<1>1. \A a \in recovery.attempts : a \in DOMAIN ledger' /\ (a \in Inflight' => a \in Inflight)
  BY RowsKept DEF RecoveryInv, Inflight
<1> QED
  BY <1>1 DEF RecoveryInv, StaleRecoveryResolved

\* No step drops a notice whose attempts are not all ended.
LEMMA RecoveryStep ==
  LedgerInv /\ BatchInv /\ RecoveryInv /\ [RunnerNext]_runnerVars => RecoveryInv'
<1> SUFFICES ASSUME LedgerInv, BatchInv, RecoveryInv, [RunnerNext]_runnerVars
             PROVE  RecoveryInv'
  OBVIOUS
<1>1. ASSUME recovery' = recovery PROVE RecoveryInv'
  BY <1>1, NoticeKept, RunnerStepIsLedgerStep
<1>2. ASSUME NEW retries, NEW recovers, RefuseStart(recovers) PROVE RecoveryInv'
  <2>1. recovery' = [required |-> TRUE, attempts |-> Inflight] /\ ledger' = ledger
    BY <1>2 DEF RefuseStart, ledgerVars
  <2>2. Inflight \subseteq DOMAIN ledger /\ DOMAIN ledger \subseteq AttemptId
    BY DEF Inflight, LedgerInv, LedgerTypeOK
  <2> QED
    BY <2>1, <2>2 DEF RecoveryInv, StaleRecoveryResolved, Inflight
<1>3. CASE Complete
  <2>1. ledger' = ledger
    BY <1>3 DEF Complete, ledgerVars
  <2>2. CASE recovery.attempts \cap Inflight = {}
    BY <1>3, <2>1, <2>2 DEF Complete, RecoveryInv, StaleRecoveryResolved, Inflight
  <2>3. CASE recovery.attempts \cap Inflight # {}
    BY <1>1, <1>3, <2>3 DEF Complete
  <2> QED
    BY <2>2, <2>3
<1>4. ASSUME NEW retries, NEW recovers, Start(retries, recovers) PROVE recovery' = recovery
  BY <1>4 DEF Start
<1>5. CASE RunnerStep /\ ~Complete
  BY <1>1, <1>5 DEF RunnerStep, StopNoHeadroom, Launch, StopOverCap, StopNoConfig,
     PersistMissing, PersistTorn, PersistCheckpoint, PersistDebug, Judge
<1>6. ASSUME NEW a \in AttemptId, CallBegin(a) \/ RefusedCall(a) \/ RefusedPrompt(a)
      PROVE  recovery' = recovery
  BY <1>6 DEF CallBegin, RefusedCall, RefusedPrompt, Block, others
<1>7. CASE CallEnd \/ Solved \/ Uncaught \/ OtherFailure
  BY <1>1, <1>7 DEF CallEnd, Solved, Uncaught, OtherFailure, Return, Block, others
<1>8. CASE SaveCheckpoint \/ TruncateDebug \/ WriteDebug \/ ChildKilled \/ Crash
  BY <1>1, <1>8 DEF SaveCheckpoint, TruncateDebug, WriteDebug, ChildKilled, Crash, others
<1>9. CASE UNCHANGED runnerVars
  BY <1>1, <1>9 DEF runnerVars
<1> QED
  BY <1>1, <1>2, <1>3, <1>4, <1>5, <1>6, <1>7, <1>8, <1>9 DEF RunnerNext, ChildStep

(* A recovery notice is only dropped when every attempt it names has an    *)
(* end, whatever is authorised, refused, recovered or killed meanwhile.    *)
THEOREM NoticesResolved == RunnerSpec => []StaleRecoveryResolved
<1>1. RecoveryInv => StaleRecoveryResolved
  BY DEF RecoveryInv
<1> QED
  BY <1>1, BatchInit, BatchStep, RecoveryInit, RecoveryStep, RunnerUsesLedger, Invariance, PTL
  DEF RunnerSpec

-----------------------------------------------------------------------------
(* The variables of runner and child, beside ledger and recovery notice:   *)
(* what is saved is a record, of a question.                               *)
RunnerData ==
  /\ pc \in {"down", "loop", "child", "save", "truncate", "write",
             "persist", "persistDebug", "judge"}
  /\ queue \subseteq ToSet(Allowed) /\ authorised \subseteq Qid /\ cur \in Qid \cup {NoQid}
  /\ calls \in 0..CallsPerQuestion /\ answered \in BOOLEAN /\ exit \in {"ok", "error"}
  /\ draft \in Record \cup {NoFile}
  /\ ckpt \in Record \cup {NoFile} /\ debug \in Qid \cup {NoFile, Torn}
  /\ cumC \in Seq([qid : Qid, local : BOOLEAN]) /\ cumD \in Seq(Qid)
  /\ pc \notin {"down", "loop"} => cur \in Qid
  /\ pc \in {"save", "truncate", "write"} => draft \in Record

\* The questions of the manifest are questions.
LEMMA AllowedAreQuestions == ToSet(Allowed) \subseteq Qid
  OBVIOUS

\* The files are absent or empty at first.
LEMMA RunnerDataInit == RunnerInit => RunnerData
<1> SUFFICES ASSUME RunnerInit PROVE RunnerData
  OBVIOUS
<1>1. 0 \in 0..CallsPerQuestion
  BY RunnerAssumption
<1>2. \A A : <<>> \in Seq(A)
  OBVIOUS
<1>3. cumC = <<>> /\ cumD = <<>>
  BY DEF RunnerInit
<1>4. cumC \in Seq([qid : Qid, local : BOOLEAN]) /\ cumD \in Seq(Qid)
  BY <1>2, <1>3
<1> QED BY <1>1, <1>4 DEF RunnerInit, RunnerData

(* The record that goes into the cumulative checkpoint, and its list.      *)
LEMMA PersistedRecord ==
  ASSUME RunnerData, PersistCheckpoint
  PROVE  /\ [qid |-> cur, local |-> PersistedLocal] \in [qid : Qid, local : BOOLEAN]
         /\ WithoutCur(cumC) \in Seq([qid : Qid, local : BOOLEAN])
         /\ ToSet(WithoutCur(cumC)) = {r \in ToSet(cumC) : r.qid # cur}
         /\ Unique(cumC) => Unique(WithoutCur(cumC))
<1>1. cur \in Qid /\ PersistedLocal \in BOOLEAN
  BY DEF PersistCheckpoint, Persisting, RunnerData, PersistedLocal
<1> DEFINE K == {r \in ToSet(cumC) : r.qid # cur}
<1>2. WithoutCur(cumC) = Keep(cumC, K) /\ ToSet(cumC) \cap K = K
  BY DEF WithoutCur
<1> HIDE DEF K
<1>3. /\ Keep(cumC, K) \in Seq([qid : Qid, local : BOOLEAN])
      /\ ToSet(Keep(cumC, K)) = ToSet(cumC) \cap K
      /\ Unique(cumC) => Unique(Keep(cumC, K))
  BY KeepUnique DEF RunnerData
<1> QED BY <1>1, <1>2, <1>3 DEF K

\* The question that goes into the cumulative debug file, and its list.
LEMMA PersistedDebug ==
  ASSUME RunnerData, PersistDebug
  PROVE  /\ cumD' \in Seq(Qid) /\ ToSet(cumD') = ToSet(cumD) \cup {cur}
         /\ IsInjective(cumD) => IsInjective(cumD')
<1>1. cumD' = Append(Keep(cumD, Qid \ {cur}), cur) /\ cur \in Qid
  BY DEF PersistDebug, RunnerData
<1> DEFINE t == Keep(cumD, Qid \ {cur})
<1>2. /\ t \in Seq(Qid) /\ ToSet(t) = ToSet(cumD) \cap (Qid \ {cur})
      /\ IsInjective(cumD) => IsInjective(t)
  BY KeepUnique DEF RunnerData
<1>3. ToSet(cumD) \subseteq Qid
  BY DEF RunnerData, ToSet
<1> HIDE DEF t
<1>4. cur \notin ToSet(t)
  BY <1>2
<1>5. /\ Append(t, cur) \in Seq(Qid) /\ ToSet(Append(t, cur)) = ToSet(t) \cup {cur}
      /\ IsInjective(t) => IsInjective(Append(t, cur))
  BY <1>1, <1>2, <1>4, AppendUnique
<1> QED BY <1>1, <1>2, <1>3, <1>5 DEF t

\* Every step keeps runner, child and files well formed.
LEMMA RunnerDataStep == RunnerData /\ [RunnerNext]_runnerVars => RunnerData'
<1> SUFFICES ASSUME RunnerData, [RunnerNext]_runnerVars PROVE RunnerData'
  OBVIOUS
<1> USE DEF RunnerData
<1>1. ASSUME Down, UNCHANGED <<childFiles, cumulative>> PROVE RunnerData'
  <2>1. 0 \in 0..CallsPerQuestion
    BY RunnerAssumption
  <2> QED BY <1>1, <2>1 DEF Down, childFiles, cumulative
<1>2. CASE StopNoHeadroom \/ StopOverCap \/ StopNoConfig \/ PersistMissing \/ PersistTorn
           \/ Complete \/ Crash
  BY <1>1, <1>2 DEF StopNoHeadroom, StopOverCap, StopNoConfig, PersistMissing, PersistTorn,
                    Complete, Crash
<1>3. ASSUME NEW recovers, RefuseStart(recovers) PROVE RunnerData'
  BY <1>3 DEF RefuseStart, runVars, child, childFiles, cumulative
<1>4. ASSUME NEW retries \in Retries, NEW recovers \in Recoveries, Start(retries, recovers)
      PROVE  RunnerData'
  <2>1. /\ queue' \subseteq ToSet(Allowed) /\ authorised' \subseteq Qid /\ pc' = "loop"
        /\ UNCHANGED <<cur, calls, answered, draft, exit, ckpt, debug, cumC, cumD>>
    BY <1>4 DEF Start, child, childFiles, cumulative
  <2> QED BY <2>1
<1>5. ASSUME NEW q \in Qid, Launch(q) PROVE RunnerData'
  <2>1. /\ queue' \subseteq ToSet(Allowed) /\ cur' = q /\ authorised' = authorised
        /\ calls' = 0 /\ answered' = FALSE /\ exit' = "ok"
        /\ UNCHANGED <<ckpt, debug, cumC, cumD>>
    BY <1>5 DEF Launch, childFiles, cumulative
  <2>2. draft' \in Record \cup {NoFile} /\ pc' \in {"save", "child"}
        /\ (pc' = "save" => draft' \in Record)
    BY <1>5 DEF Launch, CkptOf
  <2>3. 0 \in 0..CallsPerQuestion
    OBVIOUS
  <2> QED BY <2>1, <2>2, <2>3
<1>6. ASSUME NEW a \in AttemptId, CallBegin(a) PROVE RunnerData'
  <2>1. calls' \in 0..CallsPerQuestion
    BY <1>6 DEF CallBegin
  <2> QED BY <1>6, <2>1 DEF CallBegin, others, runVars, childFiles, cumulative
<1>7. ASSUME pc = "child", Block PROVE RunnerData'
  <2>1. draft' \in Record
    BY <1>7 DEF Block, Record
  <2> QED BY <1>7, <2>1 DEF Block, others, runVars, childFiles, cumulative
<1>8. ASSUME NEW a \in AttemptId, RefusedCall(a) \/ RefusedPrompt(a) PROVE RunnerData'
  BY <1>7, <1>8 DEF RefusedCall, RefusedPrompt
<1>9. CASE CallEnd
  BY <1>9 DEF CallEnd, others, runVars, childFiles, cumulative
<1>10. ASSUME ChildGone, pc \notin {"down", "loop"}, exit' \in {"ok", "error"}, cur' = cur,
              UNCHANGED <<runVars, ckpt, cumulative>>, debug' \in Qid \cup {NoFile, Torn}
       PROVE  RunnerData'
  <2>1. 0 \in 0..CallsPerQuestion
    OBVIOUS
  <2> QED BY <1>10, <2>1 DEF ChildGone, runVars, cumulative
<1>11. ASSUME pc = "child", NEW state \in {"accepted", "fallback"}, NEW isLocal \in BOOLEAN,
              Return(state, isLocal)
       PROVE  RunnerData'
  <2>1. CASE draft = NoFile
    <3>1. draft' \in Record
      BY <1>11, <2>1 DEF Return, Record
    <3> QED BY <1>11, <2>1, <3>1 DEF Return, others, runVars, childFiles, cumulative
  <2>2. CASE draft # NoFile
    BY <1>10, <1>11, <2>2 DEF Return, others, childFiles
  <2> QED BY <2>1, <2>2
<1>12. CASE Solved
  BY <1>7, <1>11, <1>12 DEF Solved
<1>13. CASE Uncaught
  <2>1. CASE FallbackEnabled
    BY <1>13, <2>1 DEF Uncaught, others, runVars, childFiles, cumulative
  <2> QED BY <1>7, <1>13, <2>1 DEF Uncaught
<1>14. CASE OtherFailure
  <2>1. CASE draft = NoFile
    BY <1>10, <1>14, <2>1 DEF OtherFailure, others, childFiles
  <2>2. CASE draft # NoFile
    BY <1>14, <2>2 DEF OtherFailure, others, runVars, childFiles, cumulative
  <2> QED BY <2>1, <2>2
<1>15. CASE SaveCheckpoint \/ TruncateDebug
  BY <1>15 DEF SaveCheckpoint, TruncateDebug, runVars, child, cumulative
<1>16. CASE WriteDebug
  <2>1. debug' \in Qid
    BY <1>16 DEF WriteDebug, Record
  <2> QED BY <1>10, <1>16, <2>1 DEF WriteDebug
<1>17. CASE ChildKilled
  BY <1>10, <1>17 DEF ChildKilled, others, childFiles
<1>18. CASE PersistCheckpoint
  <2>1. cumC' \in Seq([qid : Qid, local : BOOLEAN])
    <3>1. cumC' = Append(WithoutCur(cumC), [qid |-> cur, local |-> PersistedLocal])
      BY <1>18 DEF PersistCheckpoint
    <3> HIDE DEF RunnerData
    <3> QED BY <1>18, <3>1, PersistedRecord, AppendUnique
  <2> QED BY <1>18, <2>1 DEF PersistCheckpoint, Persisting, runVars, child, childFiles
<1>19. CASE PersistDebug
  <2>1. cumD' \in Seq(Qid)
    BY <1>19, PersistedDebug
  <2> QED BY <1>19, <2>1 DEF PersistDebug, runVars, child, childFiles
<1>20. ASSUME NEW trip \in BOOLEAN, Judge(trip) PROVE RunnerData'
  <2>1. CASE Down
    BY <1>1, <1>20, <2>1 DEF Judge
  <2>2. CASE ~Down
    BY <1>20, <2>2 DEF Judge, runVars, childFiles, cumulative
  <2> QED BY <2>1, <2>2
<1>21. CASE UNCHANGED runnerVars
  BY <1>21 DEF runnerVars, runVars, child, childFiles, cumulative
<1> QED
  BY <1>2, <1>3, <1>4, <1>5, <1>6, <1>8, <1>9, <1>12, <1>13, <1>14, <1>15, <1>16, <1>17,
     <1>18, <1>19, <1>20, <1>21
  DEF RunnerNext, RunnerStep, ChildStep

(* Every variable of the batch keeps its type: a child saves records only, *)
(* and of a question, and never makes more calls than it has attempts for. *)
THEOREM RunnerTypeCorrect == RunnerSpec => []RunnerTypeOK
<1>1. LedgerInv /\ RunnerData /\ RecoveryInv => RunnerTypeOK
  BY AllowedAreQuestions DEF LedgerInv, RunnerData, RecoveryInv, RunnerTypeOK
<1> QED
  BY <1>1, BatchInit, BatchStep, RunnerDataInit, RunnerDataStep, RecoveryInit, RecoveryStep,
     RunnerUsesLedger, Invariance, PTL
  DEF RunnerSpec
-----------------------------------------------------------------------------
(* The cumulative files have one record for each question, the debug file  *)
(* none the checkpoint lacks, and between the two writes the checkpoint    *)
(* has the question whose debug record comes next.                         *)
CumInv ==
  /\ Unique(cumC) /\ IsInjective(cumD)
  /\ ToSet(cumD) \subseteq Qids(cumC)
  /\ pc = "persistDebug" => cur \in Qids(cumC)

\* The cumulative files are empty at first.
LEMMA CumInit == RunnerInit => CumInv
  BY DEF RunnerInit, CumInv, Unique, IsInjective, ToSet

(* Only the two writes of the runner touch the cumulative files, and only  *)
(* the first is followed by the second.                                    *)
LEMMA CumulativeSteps ==
  ASSUME [RunnerNext]_runnerVars
  PROVE  \/ PersistCheckpoint \/ PersistDebug
         \/ /\ cumC' = cumC /\ cumD' = cumD
            /\ pc' \in {"persistDebug", "judge"} => UNCHANGED <<pc, cur, ckpt, ledger>>
<1>1. ASSUME NEW retries, NEW recovers, RefuseStart(recovers) \/ Start(retries, recovers)
      PROVE  /\ cumC' = cumC /\ cumD' = cumD
             /\ pc' \in {"persistDebug", "judge"} => UNCHANGED <<pc, cur, ckpt, ledger>>
  BY <1>1 DEF RefuseStart, Start, child, childFiles, cumulative, ledgerVars
<1>2. CASE RunnerStep
  BY <1>2 DEF RunnerStep, StopNoHeadroom, Launch, StopOverCap, StopNoConfig, PersistMissing,
     PersistTorn, Judge, Complete, Down, cumulative, ledgerVars
<1>3. CASE ChildStep
  BY <1>3 DEF ChildStep, CallBegin, RefusedCall, RefusedPrompt, CallEnd, Solved, Uncaught,
     OtherFailure, Return, Block, ChildGone, SaveCheckpoint, TruncateDebug, WriteDebug,
     others, cumulative
<1>4. CASE ChildKilled \/ Crash
  BY <1>4 DEF ChildKilled, Crash, ChildGone, Down, others, cumulative
<1>5. CASE UNCHANGED runnerVars
  BY <1>5 DEF runnerVars, child, childFiles, cumulative, ledgerVars
<1> QED BY <1>1, <1>2, <1>3, <1>4, <1>5 DEF RunnerNext

(* The first write: the record of the question replaces the one it had.    *)
LEMMA CheckpointWritten ==
  ASSUME RunnerData, CumInv, PersistCheckpoint
  PROVE  /\ Unique(cumC')
         /\ Qids(cumC') = Qids(cumC) \cup {cur}
         /\ ToSet(cumC') = {r \in ToSet(cumC) : r.qid # cur}
                           \cup {[qid |-> cur, local |-> PersistedLocal]}
<1> DEFINE t == WithoutCur(cumC)
           r == [qid |-> cur, local |-> PersistedLocal]
<1>1. /\ r \in [qid : Qid, local : BOOLEAN] /\ t \in Seq([qid : Qid, local : BOOLEAN])
      /\ ToSet(t) = {o \in ToSet(cumC) : o.qid # cur}
      /\ Unique(t)
  BY PersistedRecord DEF CumInv
<1>2. cumC' = Append(t, r) /\ r.qid = cur
  BY DEF PersistCheckpoint
<1>3. \A o \in ToSet(t) : o.qid # r.qid
  BY <1>1
<1> DEFINE A == [qid : Qid, local : BOOLEAN]
<1> HIDE DEF t, r
<1>4. /\ ToSet(cumC') = ToSet(t) \cup {r}
      /\ Unique(cumC')
  <2>1. r \in A /\ t \in Seq(A)
    BY <1>1
  <2> HIDE DEF A
  <2>2. /\ ToSet(Append(t, r)) = ToSet(t) \cup {r}
        /\ Unique(t) /\ (\A o \in ToSet(t) : o.qid # r.qid) => Unique(Append(t, r))
    BY <2>1, AppendUnique
  <2> QED BY <1>1, <1>2, <1>3, <2>2
<1>5. Qids(cumC') = Qids(cumC) \cup {cur}
  BY <1>1, <1>2, <1>4 DEF Qids
<1> QED BY <1>1, <1>4, <1>5 DEF r

\* Every step keeps the cumulative files consistent.
LEMMA CumStep == RunnerData /\ CumInv /\ [RunnerNext]_runnerVars => CumInv'
<1> SUFFICES ASSUME RunnerData, CumInv, [RunnerNext]_runnerVars PROVE CumInv'
  OBVIOUS
<1>1. CASE PersistCheckpoint
  <2>1. cumD' = cumD /\ cur' = cur
    BY <1>1 DEF PersistCheckpoint, child
  <2> QED BY <1>1, <2>1, CheckpointWritten DEF CumInv
<1>2. CASE PersistDebug
  <2>1. /\ pc = "persistDebug" /\ pc' = "judge" /\ cumC' = cumC
    BY <1>2 DEF PersistDebug
  <2>2. ToSet(cumD') = ToSet(cumD) \cup {cur} /\ IsInjective(cumD')
    BY <1>2, PersistedDebug DEF CumInv
  <2> QED BY <2>1, <2>2 DEF CumInv
<1>3. CASE /\ cumC' = cumC /\ cumD' = cumD
           /\ pc' \in {"persistDebug", "judge"} => UNCHANGED <<pc, cur, ckpt, ledger>>
  BY <1>3 DEF CumInv
<1> QED BY <1>1, <1>2, <1>3, CumulativeSteps

(* However often the batch dies and starts again, the cumulative files     *)
(* keep one record for each question, and the debug file none that the     *)
(* checkpoint lacks.                                                       *)
THEOREM CumulativeFiles == RunnerSpec => []CumulativeConsistent
<1>1. RunnerData /\ CumInv => CumulativeConsistent
  BY UniqueCount DEF RunnerData, CumInv, CumulativeConsistent, Qids
<1> QED
  BY <1>1, RunnerDataInit, RunnerDataStep, CumInit, CumStep, PTL DEF RunnerSpec
-----------------------------------------------------------------------------
(* While a record is being persisted and judged, the cumulative checkpoint *)
(* has it; and each question of the batch is pending, has an ended call or *)
(* a local answer, or is in the hands of the run.                          *)
DoneInv ==
  /\ pc \in {"persistDebug", "judge"} =>
       CkptOf(cur) /\ \E r \in ToSet(cumC) : r.qid = cur /\ r.local = PersistedLocal
  /\ pc # "down" => \A q \in ToSet(Allowed) :
       q \in queue \/ q \in Processed \/ (pc # "loop" /\ q = cur)

\* No run is on at first.
LEMMA DoneInit == RunnerInit => DoneInv
  BY DEF RunnerInit, DoneInv

(* What a question costs is read off the ledger, and its record with it.   *)
LEMMA PersistedLocalKept ==
  ASSUME UNCHANGED <<cur, ckpt, ledger>> PROVE PersistedLocal' = PersistedLocal
  BY DEF PersistedLocal, QidTokensUsed, RowsOf, TokensOf, MapThenSumSet, MapThenFoldSet

(* A question that cost something has an ended call.                       *)
LEMMA SpentIsProcessed ==
  ASSUME LedgerInv, RowsFree, NEW q, QidTokensUsed(q) > 0
  PROVE  q \in ProcessedQids
<1> DEFINE rows == RowsOf(q)
<1>1. rows \in SUBSET DOMAIN ledger /\ IsFiniteSet(rows)
  BY FS_Subset DEF RowsOf, LedgerInv, LedgerTypeOK
<1>2. TokensOf(rows) = Total(RowTokens, rows)
  BY <1>1, TokensOfIsTotal DEF LedgerInv
<1>3. \E a \in rows : RowTokens[a] # 0
  <2> SUFFICES ASSUME \A a \in rows : RowTokens[a] = 0 PROVE FALSE
    OBVIOUS
  <2> HIDE DEF rows
  <2>1. Total(RowTokens, rows) = 0
    BY <1>1, TotalZero
  <2> QED BY <1>2, <2>1 DEF QidTokensUsed, rows
<1>4. PICK a \in rows : RowTokens[a] # 0
  BY <1>3
<1>5. a \in DOMAIN ledger /\ ledger[a].qid = q /\ ledger[a].status = "COMPLETED"
  BY <1>4 DEF RowsOf, RowTokens, RowsFree
<1>6. a \notin Inflight
  BY <1>5 DEF Inflight, Terminal
<1> QED BY <1>5, <1>6 DEF ProcessedQids

(* A question that is done stays done, but for the local answer that a     *)
(* new record of the question replaces.                                    *)
LEMMA ProcessedKept ==
  ASSUME LedgerInv, BatchInv, RunnerData, CumInv, [RunnerNext]_runnerVars,
         NEW q \in Processed
  PROVE  q \in Processed' \/ (PersistCheckpoint /\ q = cur)
<1>1. CASE q \in ProcessedQids
  <2>1. PICK a \in DOMAIN ledger : ledger[a].status \in Terminal /\ ledger[a].qid = q
    BY <1>1 DEF ProcessedQids, Inflight
  <2>2. a \in DOMAIN ledger' /\ ledger'[a] = ledger[a]
    BY <2>1, RunnerStepIsLedgerStep, RowsKept
  <2> QED BY <2>1, <2>2 DEF Processed, ProcessedQids, Inflight
<1>2. CASE q \in LocalQids
  <2>1. PICK r \in ToSet(cumC) : r.qid = q /\ r.local
    BY <1>2 DEF LocalQids
  <2>2. CASE cumC' = cumC
    BY <2>1, <2>2 DEF Processed, LocalQids
  <2>3. CASE PersistCheckpoint /\ q # cur
    <3>1. r \in ToSet(cumC')
      BY <2>1, <2>3, CheckpointWritten
    <3> QED BY <2>1, <3>1 DEF Processed, LocalQids
  <2>4. CASE PersistDebug
    BY <2>2, <2>4 DEF PersistDebug
  <2> QED BY <2>2, <2>3, <2>4, CumulativeSteps
<1> QED BY <1>1, <1>2 DEF Processed

(* How a step moves the run along: it ends it, starts it, launches a child,*)
(* judges one, or leaves queue and question alone.                         *)
LEMMA ControlSteps ==
  ASSUME [RunnerNext]_runnerVars
  PROVE  \/ pc' = "down"
         \/ \E retries \in Retries, recovers \in Recoveries : Start(retries, recovers)
         \/ \E q \in Qid : Launch(q)
         \/ \E trip \in BOOLEAN : Judge(trip)
         \/ /\ queue' = queue /\ cur' = cur /\ pc # "down"
            /\ pc' = "loop" <=> pc = "loop"
<1>1. ASSUME NEW recovers, RefuseStart(recovers)
      PROVE  pc' = pc /\ queue' = queue /\ cur' = cur
  BY <1>1 DEF RefuseStart, runVars, child
<1>2. CASE RunnerStep
  BY <1>2 DEF RunnerStep, StopNoHeadroom, StopOverCap, StopNoConfig, PersistMissing,
     PersistTorn, PersistCheckpoint, PersistDebug, Persisting, Complete, Down, runVars, child
<1>3. CASE ChildStep
  BY <1>3 DEF ChildStep, CallBegin, RefusedCall, RefusedPrompt, CallEnd, Solved, Uncaught,
     OtherFailure, Return, Block, ChildGone, SaveCheckpoint, TruncateDebug, WriteDebug,
     others, runVars, child
<1>4. CASE ChildKilled \/ Crash
  BY <1>4 DEF ChildKilled, Crash, ChildGone, Down, others, runVars
<1>5. CASE UNCHANGED runnerVars
  BY <1>5 DEF runnerVars, runVars, child
<1> QED BY <1>1, <1>2, <1>3, <1>4, <1>5 DEF RunnerNext

(* The run only goes on after a question that has an ended call, or whose  *)
(* persisted record is a local answer.                                     *)
LEMMA JudgedIsProcessed ==
  ASSUME LedgerInv, RowsFree, DoneInv, NEW trip \in BOOLEAN, Judge(trip), pc' # "down"
  PROVE  cur \in Processed /\ pc' = "loop" /\ queue' = queue
<1>1. pc = "judge" /\ UsageOk /\ pc' = "loop" /\ queue' = queue
  BY DEF Judge, Down, runVars
<1>2. CASE PersistedLocal
  <2>1. PICK r \in ToSet(cumC) : r.qid = cur /\ r.local = PersistedLocal
    BY <1>1 DEF DoneInv
  <2> QED BY <1>1, <1>2, <2>1 DEF Processed, LocalQids
<1>3. CASE QidTokensUsed(cur) > 0
  BY <1>1, <1>3, SpentIsProcessed DEF Processed
<1> QED BY <1>1, <1>2, <1>3 DEF UsageOk

\* No step loses a question of the batch.
LEMMA DoneStep ==
  /\ LedgerInv /\ RowsFree /\ BatchInv /\ RunnerData /\ CumInv /\ DoneInv
  /\ [RunnerNext]_runnerVars
  => DoneInv'
<1> SUFFICES ASSUME LedgerInv, RowsFree, BatchInv, RunnerData, CumInv, DoneInv,
                    [RunnerNext]_runnerVars
             PROVE  DoneInv'
  OBVIOUS
<1> DEFINE Recorded == pc \in {"persistDebug", "judge"} =>
             CkptOf(cur) /\ \E r \in ToSet(cumC) : r.qid = cur /\ r.local = PersistedLocal
           Placed == pc # "down" => \A q \in ToSet(Allowed) :
             q \in queue \/ q \in Processed \/ (pc # "loop" /\ q = cur)
<1>1. Recorded'
  <2>1. CASE PersistCheckpoint
    <3>1. UNCHANGED <<cur, ckpt, ledger>> /\ CkptOf(cur)
      BY <2>1 DEF PersistCheckpoint, child, childFiles, ledgerVars
    <3>2. [qid |-> cur, local |-> PersistedLocal] \in ToSet(cumC')
      BY <2>1, CheckpointWritten
    <3> QED BY <3>1, <3>2, PersistedLocalKept DEF CkptOf
  <2>2. CASE PersistDebug
    <3>1. UNCHANGED <<cur, ckpt, ledger, cumC>> /\ pc = "persistDebug"
      BY <2>2 DEF PersistDebug, child, childFiles, ledgerVars
    <3> QED BY <3>1, PersistedLocalKept DEF CkptOf, DoneInv
  <2>3. CASE /\ cumC' = cumC /\ cumD' = cumD
             /\ pc' \in {"persistDebug", "judge"} => UNCHANGED <<pc, cur, ckpt, ledger>>
    BY <2>3, PersistedLocalKept DEF CkptOf, DoneInv
  <2> QED BY <2>1, <2>2, <2>3, CumulativeSteps
<1>2. Placed'
  <2> SUFFICES ASSUME pc' # "down", NEW q \in ToSet(Allowed)
               PROVE  q \in queue' \/ q \in Processed' \/ (pc' # "loop" /\ q = cur')
    OBVIOUS
  <2>1. q \in Processed => q \in Processed' \/ (PersistCheckpoint /\ q = cur)
    BY ProcessedKept
  <2>2. PersistCheckpoint => pc' = "persistDebug" /\ cur' = cur
    BY DEF PersistCheckpoint, child
  <2>3. q \in Processed => q \in Processed' \/ (pc' # "loop" /\ q = cur')
    BY <2>1, <2>2
  <2>4. ASSUME NEW retries \in Retries, NEW recovers \in Recoveries, Start(retries, recovers)
        PROVE  q \in queue' \/ q \in Processed
    BY <2>4 DEF Start
  <2>5. ASSUME NEW p \in Qid, Launch(p)
        PROVE  q \in queue' \/ q \in Processed \/ (pc' # "loop" /\ q = cur')
    BY <2>5 DEF Launch, DoneInv
  <2>6. ASSUME NEW trip \in BOOLEAN, Judge(trip) PROVE q \in queue' \/ q \in Processed
    <3>1. cur \in Processed /\ pc = "judge" /\ queue' = queue
      BY <2>6, JudgedIsProcessed DEF Judge
    <3> QED BY <3>1 DEF DoneInv
  <2>7. CASE queue' = queue /\ cur' = cur /\ pc # "down" /\ (pc' = "loop" <=> pc = "loop")
    BY <2>3, <2>7 DEF DoneInv
  <2> QED BY <2>3, <2>4, <2>5, <2>6, <2>7, ControlSteps
<1> QED BY <1>1, <1>2 DEF DoneInv

(* A batch that is left with no pending question has an ended call or a    *)
(* local answer for each, after whatever stops, deaths and restarts.       *)
THEOREM BatchComplete == RunnerSpec => []CompletedIsProcessed
<1>1. DoneInv => CompletedIsProcessed
  BY DEF DoneInv, CompletedIsProcessed
<1> QED
  BY <1>1, BatchInit, BatchStep, RunnerDataInit, RunnerDataStep, CumInit, CumStep,
     DoneInit, DoneStep, RunnerUsesLedger, Invariance, FreeInvariance, PTL DEF RunnerSpec
-----------------------------------------------------------------------------
(* Only a running child has a call in hand.                                *)
HandInv == pc # "child" => open = NoAttempt

\* A child that ends, however it ends, has no call in hand.
LEMMA HandStep == HandInv /\ [RunnerNext]_runnerVars => HandInv'
<1> SUFFICES ASSUME HandInv, [RunnerNext]_runnerVars PROVE HandInv'
  OBVIOUS
<1> USE DEF HandInv
<1>1. ASSUME NEW retries, NEW recovers, RefuseStart(recovers) \/ Start(retries, recovers)
      PROVE  HandInv'
  BY <1>1 DEF RefuseStart, Start, ledgerVars
<1>2. CASE RunnerStep
  BY <1>2 DEF RunnerStep, StopNoHeadroom, Launch, StopOverCap, StopNoConfig, PersistMissing,
     PersistTorn, PersistCheckpoint, PersistDebug, Persisting, Judge, Complete, Down, ledgerVars
<1>3. CASE ChildStep
  BY <1>3 DEF ChildStep, CallBegin, RefusedCall, RefusedPrompt, CallEnd, Solved, Uncaught,
     OtherFailure, SaveCheckpoint, TruncateDebug, WriteDebug, ledgerVars,
     RefuseProviderAttempt, RecordPreCallBlocked, AbandonAttempt
<1>4. CASE ChildKilled \/ Crash
  BY <1>4 DEF ChildKilled, Crash
<1>5. CASE UNCHANGED runnerVars
  BY <1>5 DEF runnerVars, ledgerVars
<1> QED BY <1>1, <1>2, <1>3, <1>4, <1>5 DEF RunnerNext

(* A step that is not the end of a call leaves what the ledger costs.      *)
LEMMA OnlyEndsCost ==
  ASSUME LedgerInv, RowsFree, BatchInv, [RunnerNext]_runnerVars
  PROVE  \/ Used' = Used
         \/ CallEnd /\ \E t \in Tokens : Used' = Used + t
<1>1. [LedgerNext]_ledgerVars /\ LedgerInv'
  BY RunnerStepIsLedgerStep, InvStep
<1>2. \/ Used' = Used
      \/ \E t \in Tokens : FinalizeCompleted(t) /\ Used' = Used + t
  BY <1>1, UsedStep
<1>3. ASSUME NEW t \in Tokens, FinalizeCompleted(t), ~CallEnd PROVE FALSE
  <2>1. /\ open # NoAttempt /\ ledger[open].status = "STARTED" /\ open \in DOMAIN ledger
        /\ ledger' = [ledger EXCEPT ![open] =
                        [qid |-> @.qid, status |-> "COMPLETED", tokens |-> t]]
    BY <1>3 DEF FinalizeCompleted, ReplaceAttempt, LedgerInv, OpenIsStarted
  <2>2. ledger' # ledger
    <3>1. ledger'[open].status = "COMPLETED"
      BY <2>1
    <3> QED BY <2>1, <3>1
  <2>3. CASE RunnerStep
    BY <2>2, <2>3 DEF RunnerStep, StopNoHeadroom, Launch, StopOverCap, StopNoConfig,
       PersistMissing, PersistTorn, PersistCheckpoint, PersistDebug, Judge, Complete, ledgerVars
  <2>4. CASE ChildStep
    BY <1>3, <2>1, <2>2, <2>4 DEF ChildStep, CallBegin, RefusedCall, RefusedPrompt, Solved,
       Uncaught, OtherFailure, SaveCheckpoint, TruncateDebug, WriteDebug, ledgerVars,
       BeginProviderAttempt, RefuseProviderAttempt, RecordPreCallBlocked, AbandonAttempt
  <2>5. CASE ChildKilled \/ Crash
    BY <2>2, <2>5 DEF ChildKilled, Crash
  <2>6. CASE UNCHANGED runnerVars
    BY <2>2, <2>6 DEF runnerVars, ledgerVars
  <2>7. ASSUME NEW retries, NEW recovers, RefuseStart(recovers) \/ Start(retries, recovers)
        PROVE  FALSE
    BY <2>2, <2>7 DEF RefuseStart, Start, ledgerVars
  <2> QED BY <2>3, <2>4, <2>5, <2>6, <2>7 DEF RunnerNext
<1> QED BY <1>2, <1>3

(* The calls a child has had the outcome of, or lost.                      *)
Ended == calls - (IF open = NoAttempt THEN 0 ELSE 1)

(* Where a step leaves the child: gone, launched with nothing spent, at    *)
(* the end of a call or with a call lost, or where it was.                 *)
LEMMA ChildSteps ==
  ASSUME HandInv, RunnerData, [RunnerNext]_runnerVars
  PROVE  /\ \/ pc' # "child"
            \/ pc # "child" /\ Headroom /\ Ended' = 0
            \/ pc = "child" /\ Ended' \in {Ended, Ended + 1}
         /\ CallEnd => pc = "child" /\ pc' = "child" /\ Ended' = Ended + 1
<1>0. calls \in Int
  BY DEF RunnerData
<1> USE DEF HandInv, Ended
<1>1. ASSUME NEW q \in Qid, Launch(q)
      PROVE  Headroom /\ Ended' = 0 /\ pc # "child"
  <2>1. pc = "loop" /\ Headroom /\ open' = open /\ calls' = 0
    BY <1>1 DEF Launch, ledgerVars
  <2>2. open' = NoAttempt
    BY <2>1
  <2>3. Ended' = 0 - 0
    BY <2>1, <2>2
  <2> QED BY <2>1, <2>3
<1>2. CallEnd => pc = "child" /\ pc' = "child" /\ Ended' = Ended + 1
  BY <1>0 DEF CallEnd, FinalizeCompleted, FinalizeFailed
<1>3. ASSUME NEW a \in AttemptId, CallBegin(a)
      PROVE  pc = "child" /\ Ended' = Ended
  <2>1. pc = "child" /\ open = NoAttempt /\ open' = a /\ calls' = calls + 1
    BY <1>3 DEF CallBegin, BeginProviderAttempt
  <2>2. a # NoAttempt
    OBVIOUS
  <2> QED BY <1>0, <2>1, <2>2
<1>4. CASE Uncaught
  <2>1. pc = "child" /\ open # NoAttempt /\ open' = NoAttempt
        /\ (pc' = "child" => calls' = calls)
    BY <1>4 DEF Uncaught, AbandonAttempt, Block
  <2> QED BY <1>0, <1>2, <2>1
<1>5. ASSUME NEW a \in AttemptId, RefusedCall(a) \/ RefusedPrompt(a)
      PROVE  pc' # "child"
  BY <1>5 DEF RefusedCall, RefusedPrompt, Block
<1>6. CASE \/ Solved \/ OtherFailure \/ SaveCheckpoint \/ TruncateDebug \/ WriteDebug
           \/ ChildKilled \/ Crash
  <2>1. pc' # "child"
    BY <1>6 DEF Solved, OtherFailure, SaveCheckpoint, TruncateDebug,
       WriteDebug, ChildKilled, Crash, Block, Return, ChildGone, Down
  <2> QED BY <1>2, <2>1
<1>7. CASE RunnerStep /\ ~ \E q \in Qid : Launch(q)
  <2>1. pc' # "child"
    BY <1>7 DEF RunnerStep, StopNoHeadroom, StopOverCap, StopNoConfig, PersistMissing,
       PersistTorn, PersistCheckpoint, PersistDebug, Judge, Complete, Down
  <2> QED BY <1>2, <2>1
<1>8. ASSUME NEW retries, NEW recovers, RefuseStart(recovers) \/ Start(retries, recovers)
      PROVE  pc' # "child" \/ UNCHANGED <<pc, open, calls>>
  BY <1>8 DEF RefuseStart, Start, child, ledgerVars
<1>9. CASE UNCHANGED runnerVars
  BY <1>2, <1>9 DEF runnerVars, child, ledgerVars
<1>10. ASSUME UNCHANGED <<pc, open, calls>> PROVE pc' # "child" \/ (pc = "child" /\ Ended' = Ended)
  BY <1>10
<1>11. CASE CallEnd
  BY <1>2, <1>11
<1> HIDE DEF Ended, HandInv
<1> QED
  BY <1>1, <1>2, <1>3, <1>4, <1>5, <1>6, <1>7, <1>8, <1>9, <1>10, <1>11
  DEF RunnerNext, RunnerStep, ChildStep

(* What has been spent beyond the reserve, when no call costs more than t: *)
(* the child was launched with the reserve whole, and each call it ended   *)
(* has cost t at most.                                                     *)
Within(t) ==
  /\ Used = 0 \/ Used + QidTokens <= BatchTokens + CallsPerQuestion * t
  /\ pc = "child" => Used + QidTokens <= BatchTokens + Ended * t

SpendInv == \A t \in Tokens : (\A u \in Tokens : u <= t) => Within(t)

\* Nothing is spent at first.
LEMMA SpendInit == RunnerInit => HandInv /\ SpendInv
<1> SUFFICES ASSUME RunnerInit PROVE HandInv /\ SpendInv
  OBVIOUS
<1>1. DOMAIN ledger = {} /\ open = NoAttempt /\ pc = "down"
  BY DEF RunnerInit, LedgerInit
<1>2. Used = 0
  BY <1>1, TotalEmpty DEF Used
<1> QED BY <1>1, <1>2 DEF HandInv, SpendInv, Within

\* No step spends more than a call of the child that has the reserve.
LEMMA SpendStep ==
  /\ LedgerInv /\ RowsFree /\ BatchInv /\ RunnerData /\ HandInv /\ SpendInv
  /\ [RunnerNext]_runnerVars
  => SpendInv'
<1> SUFFICES ASSUME LedgerInv, RowsFree, BatchInv, RunnerData, HandInv, SpendInv,
                    [RunnerNext]_runnerVars,
                    NEW t \in Tokens, \A u \in Tokens : u <= t
             PROVE  Within(t)'
  BY DEF SpendInv
<1>1. /\ Used \in Nat /\ t \in Nat /\ QidTokens \in Nat /\ BatchTokens \in Nat
      /\ CallsPerQuestion \in Nat /\ Within(t) /\ UsedTokens = Used
  BY UsedIsTotal DEF LedgerInv, SpendInv
<1>2. RunnerData'
  BY RunnerDataStep
<1>3. Ended \in Int /\ Ended <= CallsPerQuestion /\ Ended' \in Int /\ Ended' <= CallsPerQuestion
  <2>1. calls \in 0..CallsPerQuestion /\ calls' \in 0..CallsPerQuestion
    BY <1>2, Zenon DEF RunnerData
  <2>2. ASSUME NEW n \in 0..CallsPerQuestion, NEW k \in {0, 1}
        PROVE  n - k \in Int /\ n - k <= CallsPerQuestion
    BY <1>1
  <2>3. /\ (IF open = NoAttempt THEN 0 ELSE 1) \in {0, 1}
        /\ (IF open' = NoAttempt THEN 0 ELSE 1) \in {0, 1}
    OBVIOUS
  <2> QED BY <2>1, <2>2, <2>3, Zenon DEF Ended
<1>4. /\ Used' <= Used + t /\ Used' \in Nat
      /\ pc # "child" \/ pc' # "child" \/ Ended' = Ended => Used' = Used
  <2>1. Ended' # Ended \/ ~CallEnd
    BY <1>3, ChildSteps
  <2>2. Used' = Used \/ (CallEnd /\ \E u \in Tokens : Used' = Used + u)
    BY OnlyEndsCost
  <2>3. CallEnd => pc = "child" /\ pc' = "child"
    BY ChildSteps
  <2> QED BY <1>1, <2>1, <2>2, <2>3
<1> HIDE DEF Ended
<1>5. CASE pc' # "child"
  BY <1>1, <1>4, <1>5 DEF Within
<1>6. CASE pc # "child" /\ Headroom /\ Ended' = 0
  <2>1. Used' = Used /\ Used + QidTokens <= BatchTokens
    BY <1>1, <1>4, <1>6 DEF Headroom
  <2>2. Ended' * t = 0 /\ 0 <= CallsPerQuestion * t /\ CallsPerQuestion * t \in Int
    BY <1>1, <1>6, CallsCost
  <2> QED BY <1>1, <2>1, <2>2 DEF Within
<1>7. CASE pc = "child" /\ pc' = "child" /\ Ended' = Ended + 1
  <2>1. Ended' * t = Ended * t + t /\ Ended * t \in Int
    BY <1>1, <1>3, <1>7, CallsCost
  <2>2. Ended' * t <= CallsPerQuestion * t /\ Ended' * t \in Int /\ CallsPerQuestion * t \in Int
    BY <1>1, <1>3, CallsCost
  <2>3. Used + QidTokens <= BatchTokens + Ended * t
    BY <1>1, <1>7 DEF Within
  <2> DEFINE m == Ended * t
             n == Ended' * t
             k == CallsPerQuestion * t
  <2>4. /\ m \in Int /\ n \in Int /\ k \in Int /\ n = m + t /\ n <= k
        /\ Used + QidTokens <= BatchTokens + m
    BY <2>1, <2>2, <2>3
  <2> HIDE DEF m, n, k
  <2>5. Used' + QidTokens <= BatchTokens + n /\ Used' + QidTokens <= BatchTokens + k
    BY <1>1, <1>4, <2>4, SpendGrows
  <2> QED BY <2>5 DEF Within, m, n, k
<1>8. CASE pc = "child" /\ pc' = "child" /\ Ended' = Ended
  BY <1>1, <1>4, <1>8 DEF Within
<1> QED BY <1>5, <1>6, <1>7, <1>8, ChildSteps

(* However often the batch is stopped, dies and is started again, what it  *)
(* records as spent passes its budget by no more than the calls of one     *)
(* question cost beyond the reserve kept for it.                           *)
THEOREM BatchSpend == RunnerSpec => []SpendBounded
<1>1. LedgerInv /\ SpendInv => SpendBounded
  BY UsedIsTotal DEF LedgerInv, SpendInv, Within, SpendBounded
<1> QED
  BY <1>1, BatchInit, BatchStep, RunnerDataInit, RunnerDataStep, SpendInit, HandStep, SpendStep,
     RunnerUsesLedger, Invariance, FreeInvariance, PTL DEF RunnerSpec
-----------------------------------------------------------------------------
(* The safety half of BatchEnds: whatever runner or child do brings the    *)
(* end of the run nearer.                                                  *)

\* Beside a run only the recovery notice changes, by a start that is refused.
NoticeOnly ==
  UNCHANGED <<ledgerVars, pc, runVars, child, childFiles, cumulative, paid>>

\* A run that is on comes nearer to its end with every step of runner or child.
RunAdvances == [][pc # "down" => StepsLeft' < StepsLeft \/ NoticeOnly]_runnerVars

\* Every step of runner or child is one of these.
LEMMA RunStepsAdvance ==
  ASSUME RunnerData, StepsInv, StepsInv', RunnerNext, pc # "down"
  PROVE  StepsLeft' < StepsLeft \/ NoticeOnly
<1>1. ASSUME Down PROVE StepsLeft' < StepsLeft
  BY <1>1, RunStops DEF Down
<1>2. CASE StopNoHeadroom \/ StopOverCap \/ StopNoConfig \/ PersistMissing \/ PersistTorn
           \/ Complete \/ Crash
  BY <1>1, <1>2 DEF StopNoHeadroom, StopOverCap, StopNoConfig, PersistMissing, PersistTorn,
                    Complete, Crash
<1>3. ASSUME NEW retries \in Retries, NEW recovers \in Recoveries,
             RefuseStart(recovers) \/ Start(retries, recovers)
      PROVE  NoticeOnly
  BY <1>3 DEF RefuseStart, Start, NoticeOnly
<1>4. ASSUME NEW q \in Qid, Launch(q) PROVE StepsLeft' < StepsLeft
  <2>1. pc = "loop" /\ pc' \in {"child", "save"} /\ q \in queue /\ queue' = queue \ {q}
    BY <1>4 DEF Launch, IsFirst
  <2> QED BY <2>1, RunTakes, RunnerAssumption
<1>5. ASSUME pc = "child", pc' \in {"save", "persist"}, queue' = queue
      PROVE  StepsLeft' < StepsLeft
  <2>1. Place' < Place
    BY <1>5 DEF Place
  <2> QED BY <1>5, <2>1, RunMoves
<1>6. ASSUME NEW a \in AttemptId, CallBegin(a) PROVE StepsLeft' < StepsLeft
  <2>1. /\ pc = "child" /\ pc' = "child" /\ queue' = queue
        /\ calls' = calls + 1 /\ open = NoAttempt
    BY <1>6 DEF CallBegin, BeginProviderAttempt, others, runVars
  <2>2. calls \in Nat /\ CallsPerQuestion \in Nat
    BY RunnerAssumption DEF RunnerData
  <2>3. (IF open' = NoAttempt THEN 0 ELSE 1) \in {0, 1}
    OBVIOUS
  <2>4. /\ CallsLeft = 2 * (CallsPerQuestion - calls)
        /\ CallsLeft' = 2 * (CallsPerQuestion - (calls + 1)) + (IF open' = NoAttempt THEN 0 ELSE 1)
    BY <2>1, <2>2 DEF CallsLeft
  <2>5. CallsLeft' < CallsLeft
    BY <2>2, <2>3, <2>4
  <2> QED BY <2>1, <2>5, RunCalls
<1>7. ASSUME pc = "child", pc' = "child", queue' = queue, calls' = calls,
             open # NoAttempt, open' = NoAttempt
      PROVE  StepsLeft' < StepsLeft
  <2>1. calls \in Nat /\ CallsPerQuestion \in Nat
    BY RunnerAssumption DEF RunnerData
  <2>2. CallsLeft = 2 * (CallsPerQuestion - calls) + 1 /\ CallsLeft' = 2 * (CallsPerQuestion - calls)
    BY <1>7, <2>1 DEF CallsLeft
  <2>3. CallsLeft' < CallsLeft
    BY <2>1, <2>2
  <2> QED BY <1>7, <2>3, RunCalls
<1>8. CASE CallEnd
  BY <1>7, <1>8 DEF CallEnd, FinalizeCompleted, FinalizeFailed, ReplaceAttempt, others, runVars
<1>9. ASSUME pc = "child", Block PROVE StepsLeft' < StepsLeft
  BY <1>5, <1>9 DEF Block, others, runVars
<1>10. ASSUME NEW a \in AttemptId, RefusedCall(a) \/ RefusedPrompt(a) PROVE StepsLeft' < StepsLeft
  BY <1>9, <1>10 DEF RefusedCall, RefusedPrompt
<1>11. ASSUME NEW state, NEW isLocal, pc = "child", Return(state, isLocal)
       PROVE  StepsLeft' < StepsLeft
  BY <1>5, <1>11 DEF Return, ChildGone, others, runVars
<1>12. CASE Solved
  BY <1>9, <1>11, <1>12 DEF Solved
<1>13. CASE Uncaught
  BY <1>7, <1>9, <1>13 DEF Uncaught, AbandonAttempt, others, runVars
<1>14. CASE OtherFailure
  BY <1>5, <1>14 DEF OtherFailure, ChildGone, others, runVars
<1>15. CASE SaveCheckpoint \/ TruncateDebug \/ WriteDebug
  <2>1. queue' = queue /\ pc' \notin {"child", "down"} /\ Place' < Place
    BY <1>15 DEF SaveCheckpoint, TruncateDebug, WriteDebug, ChildGone, runVars, Place
  <2> QED BY <2>1, RunMoves
<1>16. CASE ChildKilled
  <2>1. queue' = queue /\ pc' \notin {"child", "down"} /\ Place' < Place
    BY <1>16 DEF ChildKilled, ChildGone, others, runVars, Place
  <2> QED BY <2>1, RunMoves
<1>17. CASE PersistCheckpoint \/ PersistDebug
  <2>1. queue' = queue /\ pc' \notin {"child", "down"} /\ Place' < Place
    BY <1>17 DEF PersistCheckpoint, Persisting, PersistDebug, runVars, Place
  <2> QED BY <2>1, RunMoves
<1>18. ASSUME NEW trip \in BOOLEAN, Judge(trip) PROVE StepsLeft' < StepsLeft
  <2>1. Down \/ (pc = "judge" /\ pc' = "loop" /\ queue' = queue)
    BY <1>18 DEF Judge, runVars
  <2>2. CASE pc = "judge" /\ pc' = "loop" /\ queue' = queue
    <3>1. Place' < Place
      BY <2>2 DEF Place
    <3> QED BY <2>2, <3>1, RunMoves
  <2>3. CASE Down
    BY <1>1, <2>3
  <2> QED BY <2>1, <2>2, <2>3
<1> QED
  BY <1>2, <1>3, <1>4, <1>6, <1>8, <1>10, <1>12, <1>13, <1>14, <1>15, <1>16, <1>17, <1>18
  DEF RunnerNext, RunnerStep, ChildStep

(* A run takes a bounded number of steps, however its children fail or are *)
(* killed. That it takes them is what the fairness is for.                 *)
THEOREM BatchIsBounded ==
  RunnerSpec => [](StepsLeft \in Nat /\ (StepsLeft = 0 <=> pc = "down")) /\ RunAdvances
<1>1. RunnerData => StepsInv
  BY StepsLeftNat, FiniteList, FS_Subset DEF RunnerData
<1>2. StepsInv => StepsLeft \in Nat /\ (StepsLeft = 0 <=> pc = "down")
  <2> SUFFICES ASSUME StepsInv PROVE StepsLeft \in Nat /\ (StepsLeft = 0 <=> pc = "down")
    OBVIOUS
  <2>1. CASE pc = "down"
    BY <2>1 DEF StepsLeft
  <2>2. CASE pc # "down"
    BY <2>2 DEF StepsInv
  <2> QED BY <2>1, <2>2
<1>3. ASSUME RunnerData, StepsInv, StepsInv', [RunnerNext]_runnerVars
      PROVE  [pc # "down" => StepsLeft' < StepsLeft \/ NoticeOnly]_runnerVars
  BY <1>3, RunStepsAdvance
<1> QED BY <1>1, <1>2, <1>3, RunnerDataInit, RunnerDataStep, PTL DEF RunnerSpec, RunAdvances
=============================================================================
