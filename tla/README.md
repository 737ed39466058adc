# FinDocQA: a formal model

FinDocQA answers multiple-choice questions over long financial documents. A
question passes through a pipeline - question parsing, strategy, candidate
documents, retrieval, evidence, claims, calculation, verification, a bounded
recovery - and ends in an output contract. Every stage may ask a language model,
and in a *paid run* each of those requests costs money. What must not go wrong
there is not the text of an answer but the bookkeeping around it: which request
was allowed, what it cost, which question is done, what a crash leaves behind, and
what a restart does with it. That bookkeeping lives in files that outlive the
processes writing them, and it is what this project models first. Around it come
the control flow of one question - the order of solving, checking, correcting,
blocking and falling back - with the evidence controller inside it, the recovery
planned for a claim that could not be verified, and the lock file of a run.

All paths below are relative to the repository, which is rooted at `src/`
(so its package is `src/src/`).

## 1. Inventory

### How the parts interact

```
 safe_paid_runner.py  --subprocess per question-->  run.py  --process_one-->  AgentWorkflow
   |  reads ledger,                                   |  run_checkpoint.json       |
   |  merges cumulative_*.json                        |  debug_results.json        v
   v                                                  v                     solvers, verification
 recovery_required.json                           ResultWriter                     |
 circuit_breaker.json ...                                                          v
                                                                           OpenAICompatibleClient
                   token_ledger.jsonl  <---guard, begin, finalize---   |  usage files
                                                                             v
                                                                        provider (HTTP)
```

The calls are synchronous: the runner waits for its child (`subprocess.run`), the
child solves one question after the other, a chat tries one endpoint after the
other. Concurrency comes from outside: processes die anywhere, the provider answers
late or never, the operator starts runs on the same directory again, also twice at a
time, with other options.

### Components, their state, operations and correctness

| Component | Source | State | Operations | What makes it correct |
|---|---|---|---|---|
| Paid-run ledger and guard | `src/runtime_safety.py` | `token_ledger.jsonl`, one row per attempt | guard, append STARTED / PRE_CALL_BLOCKED, rewrite with the outcome, and the readers (used tokens, inflight, processed) | calls never exceed the budgets per question and in all; no outcome is rewritten; no row is lost |
| LLM client | `src/utils/llm_client.py` | usage per endpoint in memory and on file, current question | chat over the endpoint chain, one request per endpoint, usage, outcome row | no request leaves unpaid for; restarts do not forget spend; a chat ends |
| Run loop and checkpoint | `run.py` | `run_checkpoint.json`, results, pending, used tokens | load and filter, answer, fail, block, save, stop, finish | one record per question; accepted answers survive; a crash loses little; a run ends |
| Safe paid runner | `scripts/safe_paid_runner.py` | ledger, child files, cumulative files, recovery notice | gate, start, launch, persist, judge, stop, complete | nothing is paid for twice unauthorised; nothing is called over an orphan; a complete batch is complete |
| Writer, submission contract | `src/evaluation/writer.py`, `src/submission_contract.py`, `src/evaluation/formal_submission.py` | debug file, final files | `write_checkpoint`, `write_final`, slots | a file is whole or absent; the submission has one valid answer per question |
| Runtime / production integrity, lineage | `src/verification/runtime_integrity.py`, `production_integrity.py`, `dual_lineage.py` | none (checks on records) | one authoritative record, failed record, blocking errors | ambiguity is refused, a failure is recorded |
| Agent workflow | `src/agent/workflow.py` | per question only: bundle, solver result, checks, final answer | `process_one`: assemble, orchestrate, solve, check, correct, override, assess, emit, block, fall back | every question ends once; what is emitted is what the deciding evidence says; a budget stop pays no more; errors never become answers |
| Gap-driven evidence completion | `src/evidence_completion/gap_driven_controller.py`, `domain_bridge.py` | hits, facts, assessments of two rounds | search, bind, assess, search again, merge, recompute, decide | verdicts rest on the latest evidence; a second round overturns nothing the first one closed |
| Failure arbitration, recovery policy | `src/verification/atom_evidence_verifier.py`, `claim_verifier.py`, `verifier_failure_adapter.py`, `failure_taxonomy.py`, `composite_failure_arbitrator.py`, `recovery_policy.py`, `recovery_orchestrator.py` | one claim's verdicts, signals, plan | verify atoms, aggregate, adapt, observe, arbitrate, plan | a conclusive claim is uncontested; a safety failure stops; retrieval is not the answer to evidence that was found |
| Single-run guard | `src/utils/single_run_guard.py` | lock file with pid, host, identity | acquire, inspect, release | one holder at a time; what is reported stale is dead, as far as the verdict can tell; nobody removes another's lock |
| Token accounting | `src/evaluation/token_accounting.py` | none (sums over runs) | lineage, aggregation, cumulative cap | no attempt is counted twice; the cap holds over runs |
| Documents, retrieval, evidence, questions, calculation, solvers, answer checks, evaluation, output adapters | the rest of `src/`, `scripts/` | none over time | pure transformations of data | quality measured on data; arithmetic |

`PROJECT.json` lists the same components with their files and what of each is
modelled.

### What is hard here

* **Crash between two writes.** Row STARTED but no outcome; usage file written but not
  the ledger; checkpoint replaced but the debug file truncated; one cumulative file
  replaced but not the other; child ended but its record not collected.
* **Late answers.** A request that timed out is closed with 0 tokens while the provider
  still answers and charges.
* **Resume and restart.** What is done is read back from files written by a run with
  other options: other questions, other policy, an authorised retry or recovery.
* **Failures that are continued over**, whose traces (a STARTED row, a failed record)
  later steps read.
* **Two processes on one file**: the guard reads and then appends; an outcome is written
  by reading and replacing everything.
* **Limits** that are checked before the cost is known: call budgets, token budgets,
  headroom, save intervals.
* **Exceptions with different ends.** Of what may be raised while a question is solved,
  some must end in a recorded failure, some in the fallback, some must leave
  `process_one`; the order of the handlers decides.
* **An answer that changes after it was given** (correction gate, typed override), and
  is judged later, on one of several sources of evidence.
* **Two searches for the same thing**, whose results are merged and computed again.
* **Several failures at once**, of which one is made the cause that decides.
* **A lock that outlives its owner**, whose pid another process may have by now.

The hazards, each at its line and with the properties that watch it, are in
`PROJECT.json`; those no property covers carry the reason.

## 2. Modules

| Module | What it is | Builds on |
|---|---|---|
| `CallPermits` | the promise of the pre-call guard and nothing else: permits granted within budgets, never given back | |
| `TokenLedger` | the ledger file and everything that writes and reads it, one step per call | implements `CallPermits` |
| `LedgerFile` | the same file at the granularity of reads, appends, rewrites and moves, with any number of processes | with one process implements `TokenLedger` |
| `LLMClient` | `chat()` over its endpoints, with usage files and the provider | extends `TokenLedger` and implements its specification |
| `RunCheckpoint` | the question loop of `run.py` | |
| `SafePaidRunner` | a batch: runner, children, shared files | extends `TokenLedger` and implements its specification |
| `GapDrivenController` | one call of the evidence controller: two rounds of search, binding, tools, decision | |
| `ProductionIntegrity` | self-check, correction gate, typed evidence and final assessment, as operators on a solver result and its evidence | |
| `Workflow` | `process_one`, with every handler and the fallback | extends `GapDrivenController`, whose steps it takes, and instantiates `ProductionIntegrity` |
| `ClaimRecovery` | from the candidates' assessments to the recovery plan of one claim | |
| `SingleRunGuard` | the lock file and the processes that use it | |
| `MC*` | the finite instances | |
| `Selection` | `Keep`, the list comprehensions that filter records; used by `RunCheckpoint` and `SafePaidRunner` | |
| `FoldTheorems` | what sums over finite sets and filtered lists come to, for every size | `Selection` |
| `*Proofs` | the theorems (`SharedFileProofs`: those of `LedgerFile` and of `SingleRunGuard`) | the module they are about, and `FoldTheorems` |

`LLMClient` and `SafePaidRunner` share the variables `ledger` and `open` of
`TokenLedger` and use its actions inside their own, so what a ledger step does is
stated once. Their runs check `LedgerSpec` as a property and their proof modules prove
it: every theorem about the ledger then holds of the client and of the batch.

### How the models correspond to the code

**TokenLedger.** `ledger` maps attempt ids to rows (question, `final_status`, tokens);
`open` is the attempt the running process has begun and not ended.
`begin_provider_attempt` with its guard is `BeginProviderAttempt` or, when the guard
raises, `RefuseProviderAttempt`; `record_pre_call_blocked` is `RecordPreCallBlocked`;
`finalize_provider_attempt` is `FinalizeCompleted` or `FinalizeFailed`; a process that
dies, or an exception no handler turns into a row, is `AbandonAttempt`. `Counted`,
`Inflight`, `ProcessedQids`, `UsedTokens` are the readers.

**LedgerFile.** `assert_provider_call_allowed` reads the rows (`ReadForGuard`); what it
then does depends on the rows as read: `AppendStarted`, or `AppendBlocked`.
`_replace_attempt` is three steps: read and change one row (`ReadForRewrite`), write
the temporary file (`WriteTmp`), move it over the ledger (`MoveTmp`). `Abandon` may
follow any of them. The temporary file has one name for all processes, as in the code.

**LLMClient.** `pc` is the place in `_chat_endpoint`; `usage` is `_endpoint_usage` and
`file` its copy on disk; `sent` and `charged` are history and environment: what left,
and what the provider charged for it, which it may do at any time after the request
left, or never. Every `except` clause is an action, with the ones that go on to the
next endpoint kept apart from the ones that leave `chat()`.

**RunCheckpoint.** `ckpt` and `debug` are the two files; the rest is the memory of the
run and lost in a crash. `Start` loads, filters and computes what is pending; `Answer`,
`Block` and `Fail` are the three ways a question ends; `SaveCheckpoint` validates and
replaces the checkpoint, `OpenDebug` and `WriteDebug` are the two halves of
`write_checkpoint`. The options a run is started with (`run`) are chosen at each start.

**SafePaidRunner.** One `pc` for runner and child, since the runner waits. `Start` is
the code from the read of the ledger to the loop; `RefuseStart` is the orphan gate;
`Launch` begins a child; the child's steps call the provider through the ledger and
save its record; `PersistCheckpoint` and `PersistDebug` are
`_persist_qid_artifacts`; `Judge` is everything between that and the next question;
`Complete` is the code after the loop. `paid` is history. `Down` forgets what a runner
process held. A child is `run.py --qid q --save-every 1`, abstracted from
`RunCheckpoint` to the one question and from `LLMClient` to the sequence of its calls;
`CallsPerQuestion` stands for the chain and the fallback solver.

**GapDrivenController.** `state` is the controller's own state. A search of a round is
one step that draws what the bridge finds (`FirstSearch`, `SecondSearch` say what the
three bridges may return); the facts are those of the CORRECT hits; `Newest` and
`IsDeduped` are `_dedupe_latest_facts`, whose choice among the facts of one round goes by
a hash and is left open; `Assess` is the tool run and the assessment of an option, with
the tool itself a constant `Rule` that may also refuse.

**ProductionIntegrity.** A verdict per option stands for what the evidence comes to.
`TypedEvidence` and `SolverResult` say which combinations the code can produce, `Blocked`
is `assess_final_state`. Three objections of the calculation and the document scope are
left to choice, so a property that holds does not depend on them.

**Workflow.** `pc` follows `process_one` from the slot contract to the outcome. Each step
that calls out may raise; `budget_stop` is the handler of the two budget exceptions,
`failed` the generic one, `fallback` its `_fallback`. `LLMProviderBudgetExhausted` leaves
`process_one` from the main path. `enforce`, `check` and `typed` are drawn where the code
reads them. `solves` counts calls of a solver's `solve`, and `stopped` is history.

**ClaimRecovery.** `seen` holds what each candidate is worth to each atom; the steps are
`verify_claim`, `adapt_claim_verdict`, any number of observations of the surrounding
stages, and the plan. `MayReturn` is `verify_atom`, loose only in which of two equally
ranked candidates is taken.

**SingleRunGuard.** A run is one process; `who` gives it a pid, a host, a host name and an identity,
and pids are used again. `Create`, `WritePayload`, `ReadLock`, `Inspect`, `CheckOwned` and
`Unlink` are the separate file operations of `acquire`, `inspect_existing` and `release`.
The truth and what the code sees of it are kept apart. `host` is where a process is;
`owner`, drawn for each process, is what `platform.node() or "unknown-host"` told it, so
hosts may share a name and a host may be renamed; the payload holds the owner only.
`PidAnswers` is what the lookup of `_pid_alive` may come to: its own pid is not looked up, a
pid no run has may be another program's, and any other lookup may fail (no handle from
`OpenProcess`, another `OSError`), which the code takes for a dead process. `lookup` is a
history of those answers; the code drops them.
`Cleanup` is the operator the error message sends for. What the operator may remove
(`Trusted`) is an assumption, and more than the message says: the lock is of the host that
reported it, not only of its name, and the lookup did answer that nobody has the pid.
`OneHolder` and `LocksOutliveOthers` rest on the exclusive open and on `release`, and for
`Cleanup` on this rule.

## 3. Runs

| Run | What it asks | States | Result |
|---|---|---|---|
| `ledger_file` | one process that dies anywhere: does the file behave as the ledger; is every request counted and on record | 6.3 thousand | holds |
| `ledger_race` | two processes: are requests still counted | | **violated** |
| `client` | two endpoints, late and lost answers, crashes: are requests paid for, do the rows implement the ledger and the permits, does spend survive, does a chat end | 108 thousand | holds |
| `checkpoint` | runs over three or two questions, all options mixed: resumable, bounded, complete, ends | 338 thousand | holds |
| `rerun` | resume without `--skip-recorded-on-resume`: can what was paid for be saved | | **violated** |
| `runner_strict` | the default policy with an optional recovery: replay, orphans, completion, recovery notice | 2.2 million | holds |
| `runner_lenient` | continue, fallback and retry: spend, cumulative files, every run ends | 963 thousand | holds |
| `runner_orphan` | the continue policy: is a call made over an orphan | | **violated** |
| `workflow` | one question with the two-round controller, any exception anywhere, fallback: evidence, budget stops, termination | 544 thousand | holds |
| `fallback` | can an accepted, grounded answer be the placeholder of a missing client | | **violated** |
| `claim_recovery` | two atoms, two candidates, any observations around: verdicts, arbitration, plan | 1.8 million | holds |
| `guard` | four runs on one lock file that die, are replaced under their pid, share host names, and are cleaned up after: one holder, nobody's lock removed, and what a stale verdict is worth | 464 thousand | holds |

Deadlock is not checked: with no process running and no attempt left to make, or no
start that the gate lets through, the system rests; a planned recovery and a released
lock are ends as well. Only `workflow` and `fallback` check deadlock: `process_one` always
goes on until it has ended.

### What the violated runs show

1. **`rerun`.** Without `--skip-recorded-on-resume` a failed or fallback record does not
   complete its question, so the question is run again on resume; its result is appended
   *next to* the loaded record (`run.py:286`; only `Block` removes the old one), the
   validation in `save_checkpoint` refuses the two, and the run dies with the new, paid
   answer unsaved. When neither `save_every` nor the number of questions triggers a save,
   the run even ends normally, with the answer lost. With the option the save always
   succeeds (`SkippingRunsCanSave` in `checkpoint`).
2. **`runner_orphan`.** With `--continue-on-blocking`, a child that failed over an
   uncaught exception leaves a STARTED row, and the loop goes on and calls for the next
   question - the state in which the same script refuses to start. A restart is refused.
3. **`ledger_race`.** Nothing serialises the guard's read and the append: two runners on
   one directory, started before either has a call out, both pass at the last permit.
   `single_run_guard.py` is meant for this; no caller uses it.
4. **`fallback`.** After an exception on the main path, `_fallback` checks the answer
   contract and nothing else. Where the fallback solver has no client, or its call fails,
   it returns a fixed placeholder, which comes out `final_state: accepted`,
   `grounded: True`, although production integrity is on and the main path would have
   refused it.

Read off the models, without a run of their own:

* A resume over fewer questions filters the loaded checkpoint by its selection and saves the
  rest over it: accepted answers of the others go, although nobody asked for a restart.
  `ResumeKeepsAccepted` says what is left: those of the questions a run selects stay.
* With two processes on one ledger, the outcome of one call, written by reading and replacing
  the whole file, takes away the row the other appended in between. `RequestsOnRecord` is
  about one process.
* A pid lookup that fails (the process may not be opened, say) counts as a process that is
  gone, and the lock of a live run is reported as stale, against the comment at
  `single_run_guard.py:42`; so is a lock of another host of the same name, and one that is
  still being written. `StaleMeansDead` says what is left: the verdict is right where
  the lock's own host answered that nobody has the pid. Since the run is refused all the
  same, and the lock left alone, `OneHolder` does not depend on it.
* An orphan row counts as a call, so under a budget of one call the recovery authorised for it
  is refused by the guard.
* `_fallback` turns an exhausted provider budget into a blocked question where the main path
  lets it out; an exception after a paid solve leads to a second paid call.
* Two contradicting facts of one round are told apart by a hash.

Each finding in `PROJECT.json` quotes the line of the repository it disagrees with.

### Bounds, and why they are enough

* **Attempts** (2 to 4 ids) are the bound on calls over all runs together; in
  `LLMClient`, `ChatStart` asks for as many fresh ids as there are endpoints, so that no
  chat is cut short by the bound. Budgets are chosen so that the guard refuses before
  the ids are used up: 1 and 2 per question and 2 or 3 in all, so that both limits, and a
  question without limit, are met.
* **Questions**: two, and three where an order or a subset matters (`RunCheckpoint`: a
  narrower selection and `SaveEvery = 2`, which does not divide three).
* **Tokens** {0, 1, 2} or {0, 2}: 0 is an answer without usage, the largest is more than
  the reserve leaves. The budgets (2, 3, 4) are reached in one or two calls.
* **Restarts and crashes** are not bounded: they add no state of their own.
* `runner_*`: one or two calls per question, so that a question can fail after a call
  and call again. The circuit breaker's thresholds need more questions than this; they
  are the nondeterministic `trip` of `Judge`.
* `workflow`: two options over two and one atoms with two values: the smallest question in
  which one option is closed and the other is not, an atom is ambiguous, two rounds
  disagree, a tool refuses, and an answer has an option too many or too few.
* `claim_recovery`: two atoms with two candidates each, of any assessment: candidates that
  contradict each other, and an atom verified next to one that is not. The observations are
  one with a safety failure, one with both missing evidence and a failed binding, and one
  that outranks the adapter's.
* `guard`: four runs (one dies holding, one reports it, one takes over, one comes late), two
  pids, hosts and host names each, and one identity: another one only adds a lock that is
  stale without a lookup, as another name does.
* Attempt ids are interchangeable, which the symmetry of the runs uses; no run with a
  liveness property has symmetry.

### Fairness

* `LLMClient`: weak fairness of trying an endpoint, sending, ending a request and
  recording. The process runs on, and `urlopen` has `timeout=self.timeout_s`. Nothing is
  assumed of the provider, nor that a dead process is started again.
* `RunCheckpoint`: weak fairness of the loop's steps: a question is answered, fails or
  blocks, because each provider call has a timeout, and file writes return. Crashes and
  starts are not fair.
* `SafePaidRunner`: weak fairness of "the child or the runner takes a step", as one of
  them always has something to do while a run is on; `subprocess.run` waits for the
  child, and the child ends by the two points above.
* `Workflow`: weak fairness of the next step. `process_one` is one thread, and what it
  calls returns or raises, provider calls by the timeout of the client.
* `ClaimRecovery` and `SingleRunGuard` state no fairness; nothing in them has to happen.

## 4. Proofs

The proofs hold for every set of questions, attempts and tokens, and every budget; the
assumptions are `LedgerAssumption`, `ClientAssumption`, `RunnerAssumption`,
`FileAssumption`, `CheckpointAssumption`, `QuestionAssumption`, `DryRunAssumption`,
`ObservationsAssumption` and `GuardAssumption`, which only give the constants their types
(and, for the run loop, that the loader returns each question once; for the runner, what
its manifest checks: distinct allowed questions, each with a call budget; for a question,
that the atoms of its options are not empty and not shared).
Every safety invariant and action property of the passing runs is the statement of a
theorem.

| Theorem | Statement |
|---|---|
| `TypeCorrect`, `OpenStarted`, `BudgetHolds`, `OutcomesFinal` | of `LedgerSpec`: `LedgerTypeOK`, `OpenIsStarted`, `CallsWithinBudget`, `OutcomesAreFinal` |
| `ImplementsPermits` | `LedgerSpec => PermitsSpec` |
| `FileTypeCorrect`, `RequestsKeepRows`, `RequestsBudgeted`, `OneProcessImplements` | of `FileSpec` with one process: `FileTypeOK`, `RequestsOnRecord`, `RequestsCounted`, `ImplementsLedger` |
| `ClientUsesLedger`, `RequestsArePaidFor`, `ClientTypeCorrect` | of `ClientSpec`: `LedgerSpec`, `RequestsWithinBudget`, `ClientTypeOK` |
| `UsageCovers`, `ChargeBounded` | of `ClientSpec`: `UsageCoversLedger`, `ChargeWithinEndpointBudget` |
| `TypeCorrect` (of `RunCheckpointProofs`), `SkippingRunsSave`, `CrashLossBounded`, `CheckpointSpend`, `FilesMatch`, `AcceptedKept` | of `Spec`: `TypeOK`, `SkippingRunsCanSave`, `CrashLosesFewResults`, `CheckpointSpendBounded`, `DebugMatchesCheckpoint`, `ResumeKeepsAccepted` |
| `RunnerUsesLedger`, `BatchWithinBudget` | of `RunnerSpec`: `LedgerSpec`, `CallsWithinBudget` |
| `ReplayProtection` | of `RunnerSpec`: `NoReplay` |
| `NoticesResolved` | of `RunnerSpec`: `StaleRecoveryResolved` |
| `RunnerTypeCorrect`, `CumulativeFiles`, `BatchComplete`, `BatchSpend` | of `RunnerSpec`: `RunnerTypeOK`, `CumulativeConsistent`, `CompletedIsProcessed`, `SpendBounded` |
| `OrphansStopTheBatch` | of `RunnerSpec`: `NoCallOverOrphan`, where failures are not continued over (or the run is a canary) and fallback results are off |
| `Invariance`, `WorkflowTypeCorrect`, `LatestEvidence`, `ClosedStays`, `EmittedFollows`, `BudgetFinal` | of `WorkflowSpec`: the inductive invariant and `WorkflowTypeOK`, `VerdictsRestOnLatestEvidence`, `ClosedVerdictsStand`, `EmittedAnswerFollowsEvidence`, `BudgetStopsAreFinal` |
| `ClaimTypeCorrect`, `ConclusiveClaims`, `SafetyStops`, `RetrievalEarned` | of `ClaimSpec`: `ClaimTypeOK`, `ConclusiveIsUncontested`, `SafetyFailureStops`, `RetrievalIsEarned` |
| `ChatIsBounded`, `RunIsBounded`, `BatchIsBounded`, `QuestionIsBounded` | of `ClientSpec`, `Spec`, `RunnerSpec`, `WorkflowSpec`: a chat, a run, a batch and a question come nearer to their end with every step |
| `GuardTypeCorrect`, `MutualExclusion`, `StaleIsDead`, `LocksSafe` | of `GuardSpec`: `GuardTypeOK`, `OneHolder`, `StaleMeansDead` (where the lookup answered on the lock's host), `LocksOutliveOthers` |

**The ledger.** `CallsWithinBudget` is not inductive alone: a step that ends an attempt
could turn a row that does not count into one that does. `LedgerInv` adds that the open
attempt is a STARTED row (`OpenIsStarted`), so ending it changes no count; a refusal adds
a row that does not count; only `BeginProviderAttempt` adds to a count, and its guard has
just compared it. The same split, "one step counts, the others keep the counts", gives
the refinement of `CallPermits`.

**The file.** `FileInv(w)` says for the only process that what it has read is what the
file still holds (`ReadIsCurrent`), and that its attempt is on file as STARTED
(`HandOnFile`). Then the append decides on current rows and is the begin or the refusal
of `TokenLedger`, and the move changes one row and is the end. Requests map one to one
into rows that count, which bounds them. The hypothesis `Proc = {w}` is where
`ledger_race` shows it must be.

**The client.** `ChatInv` gives each step the question and the token count that the
ledger step needs; then each step is a ledger step or a stutter, and `SentInv` (what was
sent is among the rows that count) carries the budget over to requests. For the tokens,
`HandInv` keeps the response in hand apart, `RowsInv` says that a row carries what was
charged for it or nothing, `UsageInv` that a usage file covers the rows of its endpoint
and the response in hand, and `LimitInv` that it passes the budget by one call at most.
The charge is then bounded row by row: a row with tokens by the file, a row without by the
largest call.

**The run loop.** `IInv` joins the types to what is true between the steps: what is on
disk is unambiguous and the pending questions are different ones (`ListsInv`), a run that
skips has every selected question either recorded or pending (`SkipInv`), the files are the
memory while a save is between them (`SavedInv`), only what was answered since the last
save is in memory only (`LossInv`), `used` covers the records, and neither passes the
budget by more than one result (`SpendInv`), no question with an accepted record is
pending and none of those on disk has been lost from memory (`AcceptedInv`). `LossInv` is the
one that surprises: the save counts answers modulo `save_every`, a blocked question saves
without counting, and the bound holds all the same, since a save only makes the difference
smaller.

**The batch.** `BatchInv` relates `pc`, `cur` and `open`. `ReplayInv` says that a question
that was called for has a row: it is processed or an orphan, so `Start` leaves it out
unless it was authorised, and `Launch` takes a question out of the queue for good.
`OrphanInv` says that while a strict run is on, the inflight attempts other than the open
one belong to authorised questions: the gate establishes it, and a run whose last call
was abandoned stops in `Judge` before it can call again. `RecoveryInv` says that a
recovery notice names attempts on record; since an attempt that has ended has ended for
good, a notice dropped once stays settled. `CumInv` follows the record of one question
through the two cumulative files: filtering it out and appending it keeps one record each.
`DoneInv` says that a question of the batch that is neither pending nor in the hands of the
run is processed: a judged question that goes on has tokens on the ledger, hence an ended
call, or is local in the cumulative checkpoint. `SpendInv` bounds the spend while a child is
on by its ended calls, each of which costs the largest count at most; the headroom was
checked when it was launched, and nothing but the end of a call adds to the sum.

**The question.** `GapInv` says, for each state of the controller, what its variables are
as functions of the hits: the facts of round one while it assesses, a deduplicated subset
of the newest of both rounds afterwards, the statuses what the tools say of them. From
this, `VerdictsRestOnLatestEvidence` follows since each operand of a decided verdict is the
one fact kept for its atom. `ClosedVerdictsStand` needs more: an option closed in round one
had exactly one fact per atom; what is searched again for it is either nothing, or - because
a ledger search only keeps candidates it had, and an anchored line with one hit that was
ambiguous could not have closed it - the same value. `FlowInv` relates the place in
`process_one` to what has been computed by then, and what passed the final assessment
(`Cleared`) to the evidence it was judged on.

**The claim.** `VerdictsFollow`, `SignalsFollow` and `PlanFollows` say that what each stage
left is what the operators of the stage give for the stage before. `FirstExists` is the
lemma about the precedence: some class of every set comes first.

**The guard.** Nothing is assumed of host names, of other programs' pids, or of lookups that
fail: `GuardAssumption` only says that there are pids, hosts, names and identities. A run
whose pid its own host found free is dead because a live one would have the pid;
`ReadHasCreator` carries this over the time between reading the lock and looking the pid up.
The theorem is about that case and no other: for the whole verdict it is false.
The operator's `Trusted` is the one rule that comes from outside the code;
`MutualExclusion` and `LocksSafe` hold under it. `LockHasCreator` and `HeldIsComplete` say who may be behind a lock.

**Sums and lists.** Several properties are about sums of tokens over a finite set
(`MapThenSumSet`) and lists filtered by a fold (`Keep`). Their induction is stated in
`FoldTheorems` as a least counterexample: were some fact false of a finite set, there would
be a smallest set of which it is false, by the well-foundedness of the numbers and of the
strict subsets of a finite set, two library facts without an operator parameter. From this:
the sum exists and does not depend on the order, adding an element adds its value, a subset
sums to no more, terms bounded by others give a bounded sum; a filtered list has the elements
it should, in order and without a repetition that was not there.

**Ends.** `StepsLeft` counts, for a chat, a run, a batch and a question, the steps that can
still come, and every step of the process makes it smaller. So a run cannot go round for
ever: no retry, fallback, continued failure or second round brings it back to where it was.
What is left of `ChatEnds`, `RunEnds`, `BatchEnds` and `EveryQuestionEnds` is that the next
step is possible and taken, which is a matter of `ENABLED` and fairness.

**Only model-checked.** That rest: the liveness properties `ChatEnds`, `RunEnds`, `BatchEnds`
and `EveryQuestionEnds` themselves, which the provers do not reach. The runs that expect a
violation are not theorems either.

## 5. Not modelled, and why

* Pure transformations (documents, retrieval, evidence, prompts, parsing, calculation,
  the reading of texts in the answer checks, evaluation): no state over time, and what they
  should return is a matter of data. They are most of the lines of the repository; where a
  modelled part depends on one, its result is drawn from what it can return.
* What no later step reads: report files of a stop or a completion, logs, wording, metadata.
* Manifest checks before the first read of the ledger: they refuse a start and change
  nothing; what they establish is `RunnerAssumption`.
* `--no-write`, `--self-test`, and chains of several clients.
* The thresholds of the circuit breaker, which need more questions than a run can hold; a
  nondeterministic trip stands for them.
* The lineage annotation and aggregation of tokens after the runs; `write_final`, which
  writes once from what is in memory.
* The older completion of financial reports (`evidence_completion/adapters`).
* `append_api_ledger` in `single_run_guard.py`: one append to a file, which has no caller.
* Damage no code path makes: an unreadable usage file, a hand-edited ledger, a row cut off
  by a crash inside its append.

## 6. Plan

Done: ledger, client, run loop, batch, the file under the ledger, the question with its
evidence controller and its assessment, claim recovery, the lock file, and the theorems
above. What would come next:

1. The thresholds of the circuit breaker in place of `trip`, against a reference definition
   ("five consecutive" counts only questions that recorded a reason).
2. The aggregation of tokens over runs against the ledger: no attempt counted twice.
3. `SingleRunGuard` composed with `LedgerFile`, to show what the guard would give if the
   runner used it: with one holder at a time, the theorems for one process apply.
