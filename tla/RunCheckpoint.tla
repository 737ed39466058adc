--------------------------- MODULE RunCheckpoint ---------------------------
(***************************************************************************)
(* The question loop of src/run.py with its checkpoint: load and filter,   *)
(* solve the pending questions in order, save, stop, crash and resume.     *)
(*                                                                         *)
(* A question ends in one of four ways, which is all the loop tells apart: *)
(* an accepted result; a fallback result, which carries an error and so is *)
(* not complete on resume; a blocking error, which is kept as a failed     *)
(* record; or any other exception, which ends the run.                     *)
(***************************************************************************)
EXTENDS Selection, FiniteSetsExt

CONSTANTS
  Qid,          \* question ids
  Order,        \* the questions in the order the loader returns them
  Selections,   \* the selections (--qid, --limit) a run may be started with
  Restart,      \* values of --restart in use
  SkipRecorded, \* values of --skip-recorded-on-resume in use
  Continue,     \* values of --continue-on-failure in use
  SaveEvery,    \* --save-every
  TokenBudget,  \* LLM_TOKEN_BUDGET, 0 = none
  Tokens,       \* token counts of a result
  Torn          \* content of a debug file opened for writing, not written

ASSUME CheckpointAssumption ==
  /\ Order \in Seq(Qid) /\ ToSet(Order) = Qid /\ IsInjective(Order)
  /\ Selections \subseteq (SUBSET Qid) \ {{}}
  /\ Restart \subseteq BOOLEAN
  /\ SkipRecorded \subseteq BOOLEAN /\ Continue \subseteq BOOLEAN
  /\ SaveEvery \in Nat \ {0} /\ TokenBudget \in Nat /\ Tokens \subseteq Nat

Record == [qid : Qid, state : {"accepted", "fallback", "failed"}, tokens : Nat]

VARIABLES
  ckpt,      \* run_checkpoint.json
  debug,     \* debug_results.json
  pc,        \* "down", "loop", or a step of persist_runtime_checkpoint
  after,     \* where the run goes once it has persisted
  run,       \* the options this run was started with
  results,   \* results, in memory
  pending,   \* the questions left
  used,      \* used_tokens
  answered   \* completed_this_run

files == <<ckpt, debug>>
memory == <<after, run, results, pending, used, answered>>
vars == <<files, pc, memory>>

TypeOK ==
  /\ ckpt \in Seq(Record)
  /\ debug \in Seq(Record) \cup {Torn}
  /\ pc \in {"down", "loop", "save", "debugOpen", "debugWrite"}
  /\ after \in {"loop", "down"}
  /\ run \in [selected : SUBSET Qid, restart : BOOLEAN, skip : BOOLEAN, continue : BOOLEAN]
  /\ results \in Seq(Record) /\ pending \in Seq(Qid)
  /\ used \in Nat /\ answered \in Nat

Qids(records)     == {r.qid : r \in ToSet(records)}
Without(records, q) == Keep(records, {r \in ToSet(records) : r.qid # q})
TokenSum(records) == MapThenSumSet(LAMBDA i : records[i].tokens, DOMAIN records)

(* authoritative_records: one record per question, or ValueError.          *)
Ambiguous(records) == Cardinality(Qids(records)) # Len(records)

-----------------------------------------------------------------------------
(* A failed or fallback record does not complete its question, unless the  *)
(* run skips every recorded one.                                           *)
BugNothingCompletes(records, skip) == IF skip THEN Qids(records) ELSE {}
BugSkipIgnored(records, skip) ==
  {r.qid : r \in {s \in ToSet(records) : s.state = "accepted"}}
Completed(records, skip) ==
  {r.qid : r \in {s \in ToSet(records) : skip \/ s.state = "accepted"}}

Start(selected, restart, skip, cont) ==
  LET loaded == IF restart THEN <<>>
                ELSE Keep(ckpt, {r \in ToSet(ckpt) : r.qid \in selected})
      todo   == Keep(Order, selected \ Completed(loaded, skip))
  IN /\ pc = "down"
     /\ run' = [selected |-> selected, restart |-> restart, skip |-> skip,
                continue |-> cont]
     /\ results' = loaded /\ pending' = todo
     /\ used' = TokenSum(loaded) /\ answered' = 0
     /\ after' = IF todo = <<>> THEN "down" ELSE "loop"
     /\ pc' = IF todo = <<>> THEN "save" ELSE "loop"
     /\ UNCHANGED files

(* The run ends and forgets what it held.                                  *)
NoRun   == [selected |-> {}, restart |-> FALSE, skip |-> FALSE, continue |-> FALSE]
Stopped == /\ pc' = "down" /\ after' = "down" /\ run' = NoRun
           /\ results' = <<>> /\ pending' = <<>> /\ used' = 0 /\ answered' = 0

(* The run ends after it has persisted what it has, if anything.           *)
StopWithResults ==
  IF results = <<>> THEN Stopped
  ELSE pc' = "save" /\ after' = "down" /\ UNCHANGED <<run, results, pending, used, answered>>

BugStopsTooLate == TokenBudget > 0 /\ used > TokenBudget
BudgetReached   == TokenBudget > 0 /\ used >= TokenBudget

StopAtBudget ==
  /\ pc = "loop" /\ pending # <<>> /\ BudgetReached
  /\ StopWithResults /\ UNCHANGED files

Solving == pc = "loop" /\ pending # <<>> /\ ~BudgetReached

(* process_one returns: the result is appended, and saved every SaveEvery  *)
(* results or when there are as many results as questions.                 *)
BugFallbackNotCounted(state, t) ==
  LET n == IF state = "accepted" THEN answered + 1 ELSE answered IN
  /\ Solving
  /\ results' = Append(results, [qid |-> Head(pending), state |-> state, tokens |-> t])
  /\ pending' = Tail(pending) /\ used' = used + t /\ answered' = n /\ after' = "loop"
  /\ pc' = IF n % SaveEvery = 0 \/ Len(results') = Cardinality(run.selected)
             THEN "save" ELSE "loop"
  /\ UNCHANGED <<files, run>>
BugSavesEveryNOnly(state, t) ==
  /\ Solving
  /\ results' = Append(results, [qid |-> Head(pending), state |-> state, tokens |-> t])
  /\ pending' = Tail(pending) /\ used' = used + t /\ answered' = answered + 1
  /\ after' = "loop" /\ pc' = IF answered' % SaveEvery = 0 THEN "save" ELSE "loop"
  /\ UNCHANGED <<files, run>>
Answer(state, t) ==
  /\ Solving
  /\ results' = Append(results, [qid |-> Head(pending), state |-> state, tokens |-> t])
  /\ pending' = Tail(pending)
  /\ used' = used + t
  /\ answered' = answered + 1
  /\ after' = "loop"
  /\ pc' = IF \/ answered' % SaveEvery = 0
              \/ Len(results') = Cardinality(run.selected) THEN "save" ELSE "loop"
  /\ UNCHANGED <<files, run>>

(* A blocking error: the failed record, which carries no tokens, replaces  *)
(* any earlier one of the question, and is saved at once.                  *)
BugBlockedStaysPending ==
  /\ Solving
  /\ results' = Append(Without(results, Head(pending)),
                       [qid |-> Head(pending), state |-> "failed", tokens |-> 0])
  /\ after' = (IF run.continue THEN "loop" ELSE "down") /\ pc' = "save"
  /\ UNCHANGED <<files, run, pending, used, answered>>
BugBlockedIsAState ==
  /\ Solving
  /\ results' = Append(Without(results, Head(pending)),
                       [qid |-> Head(pending), state |-> "blocked", tokens |-> 0])
  /\ pending' = Tail(pending) /\ after' = "down" /\ pc' = "save"
  /\ UNCHANGED <<files, run, used, answered>>
Block ==
  /\ Solving
  /\ results' = Append(Without(results, Head(pending)),
                       [qid |-> Head(pending), state |-> "failed", tokens |-> 0])
  /\ pending' = Tail(pending)
  /\ after' = IF run.continue THEN "loop" ELSE "down"
  /\ pc' = "save"
  /\ UNCHANGED <<files, run, used, answered>>

(* Any other exception: what there is is saved and the run ends.           *)
Fail ==
  /\ Solving
  /\ StopWithResults /\ UNCHANGED files

(* save_checkpoint validates, then replaces the file atomically; the       *)
(* ValueError of the validation ends the run.                              *)
SaveCheckpoint ==
  /\ pc = "save"
  /\ IF Ambiguous(results)
       THEN Stopped /\ UNCHANGED ckpt
       ELSE pc' = "debugOpen" /\ ckpt' = results /\ UNCHANGED memory
  /\ UNCHANGED debug

(* write_checkpoint truncates the debug file, then writes it.              *)
OpenDebug ==
  /\ pc = "debugOpen" /\ pc' = "debugWrite"
  /\ debug' = Torn
  /\ UNCHANGED <<ckpt, memory>>

WriteDebug ==
  /\ pc = "debugWrite" /\ debug' = results
  /\ IF after = "down" THEN Stopped ELSE pc' = after /\ UNCHANGED memory
  /\ UNCHANGED ckpt

Finish ==
  /\ pc = "loop" /\ pending = <<>> /\ Stopped
  /\ UNCHANGED files

Crash == pc # "down" /\ Stopped /\ UNCHANGED files

-----------------------------------------------------------------------------
Init ==
  /\ ckpt = <<>> /\ debug = <<>>
  /\ pc = "down" /\ after = "down" /\ run = NoRun
  /\ results = <<>> /\ pending = <<>> /\ used = 0 /\ answered = 0

Solve == Block \/ Fail \/ \E s \in {"accepted", "fallback"}, t \in Tokens : Answer(s, t)
Step  == Solve \/ StopAtBudget \/ SaveCheckpoint \/ OpenDebug \/ WriteDebug \/ Finish

Next ==
  \/ \E sel \in Selections, restart \in Restart, skip \in SkipRecorded,
        cont \in Continue : Start(sel, restart, skip, cont)
  \/ Step
  \/ Crash

(* A run keeps going: a question is answered or fails (every provider call *)
(* has a timeout) and file writes return.                                  *)
Spec == Init /\ [][Next]_vars /\ WF_vars(Step)

-----------------------------------------------------------------------------
(* What the loop hands to save_checkpoint holds one record per question    *)
(* (src/verification/runtime_integrity.py: exactly one authoritative       *)
(* record per qid), so that a question that was paid for can be saved.     *)
SavesAreUnambiguous == pc = "save" => ~Ambiguous(results)

(* No save of a run with --skip-recorded-on-resume is refused, whichever   *)
(* runs, over whichever questions, were stopped or killed before it.       *)
SkippingRunsCanSave == run.skip => SavesAreUnambiguous

(* A run that does not restart keeps the accepted answers of all questions *)
(* it selects, whatever it does with the failed ones among them.           *)
ResumeKeepsAccepted ==
  [][\A r \in ToSet(ckpt) :
       r.state = "accepted" /\ r.qid \in run.selected /\ ~run.restart
         => r \in ToSet(ckpt')]_vars

(* A crash costs less than save_every answered questions: between two      *)
(* steps of the loop all but that many results are in the checkpoint.      *)
CrashLosesFewResults ==
  pc = "loop" => Cardinality(ToSet(results) \ ToSet(ckpt)) < SaveEvery

(* What the recorded results cost stays below the budget plus one result,  *)
(* over all the runs that resume from the checkpoint.                      *)
CheckpointSpendBounded ==
  TokenBudget > 0 =>
    \A t \in Tokens : (\A u \in Tokens : u <= t) => TokenSum(ckpt) < TokenBudget + t

(* When a run that skips recorded questions has none left, nothing is in   *)
(* memory only, although save_every need not divide what it answered, and  *)
(* both files are alike, also over a debug file a crash had left torn.     *)
DebugMatchesCheckpoint ==
  run.skip /\ pc = "loop" /\ pending = <<>> => ckpt = results /\ debug = ckpt

(* Every run ends: it answers, records or gives up each question once.     *)
RunEnds == pc # "down" ~> pc = "down"
=============================================================================
