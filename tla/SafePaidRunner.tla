--------------------------- MODULE SafePaidRunner ---------------------------
(***************************************************************************)
(* scripts/safe_paid_runner.py: a batch of paid questions, one child       *)
(* process (run.py --qid) per question, over the files the runs share.     *)
(*                                                                         *)
(* A run reads the token ledger to decide what is left to do, launches a   *)
(* child per question, moves the child's record into the cumulative files, *)
(* and judges ledger and record before it goes on.  Runner and child can   *)
(* die anywhere; the operator starts runs on the same directory again,     *)
(* possibly authorising a retry or the recovery of an orphan attempt.      *)
(*                                                                         *)
(* The child is run.py with --save-every 1 and one question: see           *)
(* RunCheckpoint for its loop and LLMClient for its calls.                 *)
(***************************************************************************)
EXTENDS TokenLedger, Selection

CONSTANTS
  Allowed,             \* allowed_qids, in order
  BatchTokens,         \* --token-budget
  QidTokens,           \* --per-question-token-budget
  CandidateCap,        \* total_token_hard_cap less candidate_prior_total_tokens,
                       \* 0 for a manifest that is not bb_paid_run_manifest/v1
  MaxQuestions,        \* --max-questions
  CallsPerQuestion,    \* calls one child makes at most (solver and fallback chain)
  Canary,              \* approval_level starts with canary
  ContinueOnBlocking,  \* --continue-on-blocking, or the manifest's policy
  FallbackEnabled,     \* SAFE_RUN_FALLBACK_ENABLED
  Retries, Recoveries, \* values of --retry-authorized-qid, --recover-started-qid
  NoQid, NoFile, Torn

ASSUME RunnerAssumption ==
  /\ Allowed \in Seq(Qid) /\ IsInjective(Allowed)
  /\ BatchTokens \in Nat /\ QidTokens \in Nat /\ CandidateCap \in Nat
  /\ MaxQuestions \in Nat /\ CallsPerQuestion \in Nat /\ 0 \in Tokens
  /\ ToSet(Allowed) \subseteq DOMAIN QidBudget
  /\ CandidateCap > 0 => BatchTokens < CandidateCap /\ ~FallbackEnabled
  /\ {Canary, ContinueOnBlocking, FallbackEnabled} \subseteq BOOLEAN
  /\ Retries \subseteq SUBSET Qid /\ Recoveries \subseteq SUBSET Qid
  /\ NoQid \notin Qid

Record == [qid : Qid, state : {"accepted", "fallback", "failed"}, local : BOOLEAN]

VARIABLES
  pc, queue,       \* where the runner is, and its pending questions
  authorised,      \* the questions this run may run again (retry or recover)
  cur,             \* the question of the child
  calls, answered, \* the child's calls, and whether the last one completed
  draft, exit,     \* what the child saves, and its exit status
  ckpt, debug,     \* run_checkpoint.json; the question in debug_results.json
  cumC, cumD,      \* cumulative_run_checkpoint.json; the questions in
                   \* cumulative_debug_results.json
  recovery,        \* recovery_required.json
  paid             \* history: questions a child has begun a call for

child  == <<cur, calls, answered, draft, exit>>
childFiles == <<ckpt, debug>>
cumulative == <<cumC, cumD>>
runVars == <<queue, authorised>>
runnerVars == <<ledgerVars, pc, runVars, child, childFiles, cumulative, recovery, paid>>

RunnerTypeOK ==
  /\ LedgerTypeOK
  /\ pc \in {"down", "loop", "child", "save", "truncate", "write",
             "persist", "persistDebug", "judge"}
  /\ queue \subseteq Qid /\ authorised \subseteq Qid /\ cur \in Qid \cup {NoQid}
  /\ calls \in 0..CallsPerQuestion /\ answered \in BOOLEAN /\ exit \in {"ok", "error"}
  /\ draft \in Record \cup {NoFile}
  /\ ckpt \in Record \cup {NoFile} /\ debug \in Qid \cup {NoFile, Torn}
  /\ cumC \in Seq([qid : Qid, local : BOOLEAN]) /\ cumD \in Seq(Qid)
  /\ recovery \in [required : BOOLEAN, attempts : SUBSET AttemptId]

-----------------------------------------------------------------------------
RowsOf(q)     == {a \in DOMAIN ledger : ledger[a].qid = q}
QidTokensUsed(q) == TokensOf(RowsOf(q))
Qids(records) == {r.qid : r \in ToSet(records)}
WithoutCur(records) == Keep(records, {r \in ToSet(records) : r.qid # cur})

(* _is_complete_local_deterministic_record of a persisted record.          *)
LocalQids == {r.qid : r \in {s \in ToSet(cumC) : s.local}}

Processed == ProcessedQids \cup LocalQids

(* The candidate's hard cap blocks at or above, the batch budget above.    *)
AtCap(n) == CandidateCap > 0 /\ n >= CandidateCap

BugSpendsToTheLimit == UsedTokens <= BatchTokens
Headroom == UsedTokens + QidTokens <= BatchTokens /\ ~AtCap(UsedTokens + QidTokens)

(* The runner process ends, in whichever way, and forgets what it held.    *)
(* What a stop or a completion also writes is read by no later run:        *)
(* circuit_breaker.json, the integrity summary and safe_run_report.json.   *)
Down ==
  /\ pc' = "down" /\ queue' = {} /\ authorised' = {} /\ cur' = NoQid
  /\ calls' = 0 /\ answered' = FALSE /\ draft' = NoFile /\ exit' = "ok"

(* The child process ends.                                                 *)
ChildGone == pc' = "persist" /\ calls' = 0 /\ answered' = FALSE /\ draft' = NoFile

-----------------------------------------------------------------------------
(* Orphan STARTED rows refuse a run unless their recovery is authorised,   *)
(* which a canary run cannot be.  A start without --execute is refused in  *)
(* the same way, so this can also happen while another run has a call out. *)
Unauthorised(recovers) == BlockedQids \ (IF Canary THEN {} ELSE recovers)

RefuseStart(recovers) ==
  /\ Unauthorised(recovers) # {}
  /\ recovery' = [required |-> TRUE, attempts |-> Inflight]
  /\ UNCHANGED <<ledgerVars, pc, runVars, child, childFiles, cumulative, paid>>

BugNoOrphanGate(retries, recovers) == TRUE
MayStart(retries, recovers) == Unauthorised(recovers) = {}

Start(retries, recovers) ==
  LET pending == {q \in ToSet(Allowed) :
                    q \notin Processed \/ q \in retries \cup recovers}
  IN /\ pc = "down" /\ MayStart(retries, recovers)
     /\ Cardinality(pending) <= MaxQuestions /\ Headroom
     /\ pc' = "loop" /\ queue' = pending /\ authorised' = retries \cup recovers
     /\ UNCHANGED <<ledgerVars, child, childFiles, cumulative, recovery, paid>>

StopNoHeadroom ==
  /\ pc = "loop" /\ queue # {} /\ ~Headroom
  /\ Down
  /\ UNCHANGED <<ledgerVars, childFiles, cumulative, recovery, paid>>

(* The pending questions are run in the order of allowed_qids.             *)
IsFirst(q) == q \in queue /\ \E i \in DOMAIN Allowed :
                Allowed[i] = q /\ \A j \in 1..(i - 1) : Allowed[j] \notin queue

CkptOf(q) == ckpt # NoFile /\ ckpt.qid = q

(* The child loads the records of its question only; one that is accepted  *)
(* leaves it nothing to do but save again.                                 *)
Launch(q) ==
  /\ pc = "loop" /\ IsFirst(q) /\ Headroom
  /\ queue' = queue \ {q} /\ cur' = q
  /\ calls' = 0 /\ answered' = FALSE /\ exit' = "ok"
  /\ draft' = IF CkptOf(q) THEN ckpt ELSE NoFile
  /\ pc' = IF CkptOf(q) /\ ckpt.state = "accepted" THEN "save" ELSE "child"
  /\ UNCHANGED <<ledgerVars, authorised, childFiles, cumulative, recovery, paid>>

-----------------------------------------------------------------------------
(* The child.  It holds the loaded record, if any, in draft.               *)

others == <<runVars, childFiles, cumulative, recovery>>

CallBegin(a) ==
  /\ pc = "child" /\ calls < CallsPerQuestion
  /\ BeginProviderAttempt(a, cur)
  /\ calls' = calls + 1 /\ answered' = FALSE
  /\ paid' = paid \cup {cur}
  /\ UNCHANGED <<pc, cur, draft, exit, others>>

CallEnd ==
  /\ pc = "child"
  /\ \/ answered' = TRUE  /\ \E t \in Tokens : FinalizeCompleted(t)
     \/ answered' = FALSE /\ FinalizeFailed("ERROR")   \* TIMEOUT counts alike
  /\ UNCHANGED <<pc, cur, calls, draft, exit, paid, others>>

(* A blocking error: the failed record replaces the loaded one, exit 1.    *)
Block ==
  /\ draft' = [qid |-> cur, state |-> "failed", local |-> FALSE]
  /\ exit' = "error" /\ pc' = "save"
  /\ UNCHANGED <<cur, calls, answered, paid, others>>

(* A result is appended to the loaded record if there is one, and then the *)
(* validation of the save refuses both: exit 1 and nothing is written.     *)
Return(state, isLocal) ==
  /\ IF draft = NoFile
       THEN /\ draft' = [qid |-> cur, state |-> state, local |-> isLocal]
            /\ exit' = "ok" /\ pc' = "save" /\ UNCHANGED <<calls, answered>>
       ELSE exit' = "error" /\ ChildGone
  /\ UNCHANGED <<cur, paid, others>>

RefusedCall(a) ==
  /\ pc = "child" /\ calls < CallsPerQuestion
  /\ RefuseProviderAttempt(a, cur) /\ Block

RefusedPrompt(a) == pc = "child" /\ RecordPreCallBlocked(a, cur) /\ Block

Solved ==
  /\ pc = "child" /\ open = NoAttempt
  /\ \/ answered /\ Return("accepted", FALSE)
     \/ calls = 0 /\ \E isLocal \in BOOLEAN : Return("accepted", isLocal)
     \/ FallbackEnabled /\ Return("fallback", FALSE)
     \/ Block
  /\ UNCHANGED ledgerVars

(* An exception the client does not turn into a row: process_one blocks, or*)
(* goes on to the fallback solver, which may call again, where enabled.    *)
Uncaught ==
  /\ pc = "child" /\ AbandonAttempt
  /\ IF FallbackEnabled
       THEN answered' = FALSE /\ UNCHANGED <<pc, cur, calls, draft, exit, paid, others>>
       ELSE Block

(* Any other exception (the provider's token budget): run.py saves what it *)
(* has, if anything, and exits 1.                                          *)
OtherFailure ==
  /\ pc = "child" /\ open = NoAttempt
  /\ exit' = "error"
  /\ IF draft = NoFile THEN ChildGone
                       ELSE pc' = "save" /\ UNCHANGED <<calls, answered, draft>>
  /\ UNCHANGED <<ledgerVars, cur, paid, others>>

SaveCheckpoint ==
  /\ pc = "save" /\ pc' = "truncate" /\ ckpt' = draft
  /\ UNCHANGED <<ledgerVars, runVars, child, debug, cumulative, recovery, paid>>

TruncateDebug ==
  /\ pc = "truncate" /\ pc' = "write" /\ debug' = Torn
  /\ UNCHANGED <<ledgerVars, runVars, child, ckpt, cumulative, recovery, paid>>

WriteDebug ==
  /\ pc = "write" /\ ChildGone /\ debug' = draft.qid
  /\ UNCHANGED <<ledgerVars, runVars, cur, exit, ckpt, cumulative, recovery, paid>>

(* The child alone is killed: the runner sees exit status # 0.             *)
ChildKilled ==
  /\ pc \in {"child", "save", "truncate", "write"}
  /\ ChildGone /\ exit' = "error" /\ open' = NoAttempt
  /\ UNCHANGED <<ledger, cur, paid, others>>

-----------------------------------------------------------------------------
(* Back in the runner: the record of the question moves into the           *)
(* cumulative files, which are replaced one after the other.               *)

StopOverCap ==
  /\ pc = "persist" /\ AtCap(UsedTokens) /\ Down
  /\ UNCHANGED <<ledgerVars, childFiles, cumulative, recovery, paid>>

Persisting == pc = "persist" /\ ~AtCap(UsedTokens)

(* A child that built no client left no resolved_runtime_config.json.      *)
StopNoConfig ==
  /\ Persisting /\ exit = "ok" /\ paid = {} /\ Down
  /\ UNCHANGED <<ledgerVars, childFiles, cumulative, recovery, paid>>

BugMissingIsRetried ==
  /\ Persisting /\ debug # Torn
  /\ ~(CkptOf(cur) /\ debug = cur)
  /\ pc' = "loop" /\ queue' = queue \cup {cur}
  /\ UNCHANGED <<ledgerVars, authorised, child, childFiles, cumulative, recovery, paid>>
PersistMissing ==
  /\ Persisting /\ debug # Torn
  /\ ~(CkptOf(cur) /\ debug = cur)
  /\ Down
  /\ UNCHANGED <<ledgerVars, childFiles, cumulative, recovery, paid>>

(* A torn debug file is a JSONDecodeError that nothing catches.            *)
PersistTorn ==
  /\ Persisting /\ debug = Torn /\ Down
  /\ UNCHANGED <<ledgerVars, childFiles, cumulative, recovery, paid>>

(* The ledger is authoritative for the tokens of the persisted record.     *)
PersistedLocal == ckpt.local /\ QidTokensUsed(cur) = 0

BugDebugBeforeCheckpoint ==
  /\ Persisting /\ CkptOf(cur) /\ debug = cur
  /\ cumD' = Append(Keep(cumD, Qid \ {cur}), cur) /\ pc' = "persistDebug"
  /\ UNCHANGED <<ledgerVars, runVars, child, childFiles, cumC, recovery, paid>>
PersistCheckpoint ==
  /\ Persisting /\ CkptOf(cur) /\ debug = cur
  /\ cumC' = Append(WithoutCur(cumC), [qid |-> cur, local |-> PersistedLocal])
  /\ pc' = "persistDebug"
  /\ UNCHANGED <<ledgerVars, runVars, child, childFiles, cumD, recovery, paid>>

PersistDebug ==
  /\ pc = "persistDebug"
  /\ cumD' = Append(Keep(cumD, Qid \ {cur}), cur) /\ pc' = "judge"
  /\ UNCHANGED <<ledgerVars, runVars, child, childFiles, cumC, recovery, paid>>

(* _check_provider_call_budget: any refused call that nobody acknowledged, *)
(* or more ended calls than budgeted, stops the run.                       *)
EndedOf(q) == {a \in RowsOf(q) : ledger[a].status \in {"COMPLETED", "ERROR", "TIMEOUT"}}
CallBudgetOk ==
  /\ \A a \in DOMAIN ledger : ledger[a].status # "PRE_CALL_BLOCKED"
  /\ \A q \in DOMAIN QidBudget : Cardinality(EndedOf(q)) <= QidBudget[q]
  /\ MaxTotal > 0 => Cardinality(UNION {EndedOf(q) : q \in Qid}) <= MaxTotal

BugUnknownUsageOk == QidTokensUsed(cur) <= QidTokens
UsageOk ==
  /\ \/ PersistedLocal
     \/ RowsOf(cur) # {} /\ QidTokensUsed(cur) > 0
  /\ QidTokensUsed(cur) <= QidTokens

BugAlwaysContinues == ckpt.state = "failed"
BusinessBlock == ckpt.state = "failed" /\ ContinueOnBlocking /\ ~Canary

(* trip stands for the breaker's stable thresholds (4 of 5, 10, 70%) and   *)
(* the prompt estimate checks, which a small batch does not reach.         *)
Judge(trip) ==
  LET stop == \/ ~CallBudgetOk \/ ~UsageOk \/ trip
              \/ Canary /\ ckpt.state = "failed"
  IN /\ pc = "judge"
     /\ IF stop \/ (exit = "error" /\ ~BusinessBlock)
          THEN Down
          ELSE /\ pc' = "loop" /\ cur' = NoQid /\ exit' = "ok"
               /\ UNCHANGED <<runVars, calls, answered, draft>>
     /\ UNCHANGED <<ledgerVars, childFiles, cumulative, recovery, paid>>

(* The recovery file is marked stale once all its attempts have ended and  *)
(* the summary is healthy.                                                 *)
BugAlwaysStale ==
  /\ pc = "loop" /\ queue = {} /\ Down
  /\ recovery' = [recovery EXCEPT !.required = FALSE]
  /\ UNCHANGED <<ledgerVars, childFiles, cumulative, paid>>
Complete ==
  /\ pc = "loop" /\ queue = {} /\ Down
  /\ recovery' = IF /\ recovery.attempts # {}
                    /\ recovery.attempts \cap Inflight = {} /\ CallBudgetOk
                   THEN [recovery EXCEPT !.required = FALSE] ELSE recovery
  /\ UNCHANGED <<ledgerVars, childFiles, cumulative, paid>>

(* Runner and child die together.                                          *)
Crash ==
  /\ pc # "down" /\ Down /\ open' = NoAttempt
  /\ UNCHANGED <<ledger, childFiles, cumulative, recovery, paid>>

-----------------------------------------------------------------------------
RunnerInit ==
  /\ LedgerInit
  /\ pc = "down" /\ queue = {} /\ authorised = {}
  /\ cur = NoQid /\ calls = 0 /\ answered = FALSE /\ draft = NoFile /\ exit = "ok"
  /\ ckpt = NoFile /\ debug = NoFile /\ cumC = <<>> /\ cumD = <<>>
  /\ recovery = [required |-> FALSE, attempts |-> {}]
  /\ paid = {}

ChildStep ==
  \/ \E a \in AttemptId : CallBegin(a) \/ RefusedCall(a) \/ RefusedPrompt(a)
  \/ CallEnd \/ Solved \/ Uncaught \/ OtherFailure
  \/ SaveCheckpoint \/ TruncateDebug \/ WriteDebug

RunnerStep ==
  \/ StopNoHeadroom \/ \E q \in Qid : Launch(q)
  \/ StopOverCap \/ StopNoConfig \/ PersistMissing \/ PersistTorn \/ PersistCheckpoint \/ PersistDebug
  \/ \E trip \in BOOLEAN : Judge(trip)
  \/ Complete

RunnerNext ==
  \/ \E retries \in Retries, recovers \in Recoveries :
       RefuseStart(recovers) \/ Start(retries, recovers)
  \/ RunnerStep \/ ChildStep \/ ChildKilled \/ Crash

(* subprocess.run waits for the child, which ends (see RunCheckpoint).     *)
RunnerSpec == /\ RunnerInit /\ [][RunnerNext]_runnerVars
              /\ WF_runnerVars(ChildStep \/ RunnerStep)

-----------------------------------------------------------------------------
(* Replay protection: no child calls the provider for a question an        *)
(* earlier child already called for, in whichever way that one ended or    *)
(* died, unless this run was given a retry or a recovery for it.           *)
NoReplay ==
  [][calls = 0 /\ calls' = 1 => cur \notin paid \/ cur \in authorised]_runnerVars

(* However often the batch is stopped and started again, its recorded      *)
(* spend passes the budget by no more than what the calls of one question  *)
(* cost beyond the reserve kept for it.                                    *)
SpendBounded ==
  UsedTokens = 0 \/ \A t \in Tokens : (\A u \in Tokens : u <= t) =>
    UsedTokens + QidTokens <= BatchTokens + CallsPerQuestion * t

(* The cumulative files hold one record per question, and the debug file   *)
(* no question that the checkpoint lacks, wherever a run dies.             *)
CumulativeConsistent ==
  /\ Cardinality(Qids(cumC)) = Len(cumC) /\ IsInjective(cumD)
  /\ ToSet(cumD) \subseteq Qids(cumC)

(* A batch that goes on to be reported complete has an ended call or a     *)
(* local answer for each of its questions: none was passed over by a stop, *)
(* a crash, a continued failure or a restart that takes them as done.      *)
CompletedIsProcessed ==
  pc = "loop" /\ queue = {} => ToSet(Allowed) \subseteq Processed

(* A recovery file that is no longer in force names only attempts that     *)
(* have ended, so it was never dropped while an orphan was left.           *)
StaleRecoveryResolved ==
  ~recovery.required => recovery.attempts \cap Inflight = {}

(* "Orphan STARTED attempt blocks paid run" (safe_paid_runner.py:594): no  *)
(* call is made while another attempt has no known end, unless this run    *)
(* may recover its question, which is "forbidden for canary approvals".    *)
NoCallOverOrphan ==
  open # NoAttempt =>
    \A a \in Inflight \ {open} : ledger[a].qid \in authorised /\ ~Canary

(* Every run ends.                                                         *)
BatchEnds == pc # "down" ~> pc = "down"
=============================================================================
