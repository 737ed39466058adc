---------------------------- MODULE TokenLedger ----------------------------
(***************************************************************************)
(* The token ledger of a safe paid run (src/src/runtime_safety.py).        *)
(*                                                                         *)
(* The ledger is a JSONL file with one row per provider attempt.  A row is *)
(* appended STARTED before the HTTP request leaves, and rewritten in place *)
(* when the attempt ends; the pre-call guard counts rows to decide whether *)
(* another request may start, and appends a PRE_CALL_BLOCKED row when not. *)
(* The file outlives the process that writes it, so a process that dies    *)
(* between the two writes leaves a STARTED row behind for good.            *)
(*                                                                         *)
(* Here the process is the most general one that uses the file the way     *)
(* utils/llm_client.py does: one attempt open at a time, finalized at most *)
(* once.  LLMClient and SafePaidRunner constrain it further.               *)
(***************************************************************************)
EXTENDS Integers, FiniteSets, FiniteSetsExt

CONSTANTS Qid,        \* question ids
          AttemptId,  \* attempt ids (uuid4: never reused)
          QidBudget,  \* SAFE_RUN_PROVIDER_CALL_BUDGETS_JSON: qid -> budget
          MaxTotal,   \* SAFE_RUN_MAX_PROVIDER_CALL_BUDGET; 0 = not set
          Tokens,     \* the token counts a completed call can report
          NoAttempt   \* no attempt is open

ASSUME LedgerAssumption ==
  /\ DOMAIN QidBudget \subseteq Qid
  /\ QidBudget \in [DOMAIN QidBudget -> Nat]
  /\ MaxTotal \in Nat
  /\ Tokens \subseteq Nat
  /\ NoAttempt \notin AttemptId

VARIABLES ledger,  \* attempt id -> row, for the rows in the file
          open     \* the attempt the running process has begun and not ended

ledgerVars == <<ledger, open>>

BugBlockedCounts == {"PRE_CALL_BLOCKED_ACKNOWLEDGED"}
Ignored  == {"PRE_CALL_BLOCKED", "PRE_CALL_BLOCKED_ACKNOWLEDGED"}
Terminal == {"COMPLETED", "ERROR", "TIMEOUT"} \cup Ignored
Status   == {"STARTED"} \cup Terminal
Row      == [qid : Qid, status : Status, tokens : Nat]

LedgerTypeOK ==
  /\ DOMAIN ledger \subseteq AttemptId
  /\ ledger \in [DOMAIN ledger -> Row]
  /\ IsFiniteSet(DOMAIN ledger)
  /\ open \in DOMAIN ledger \cup {NoAttempt}

-----------------------------------------------------------------------------
(* What the readers of the file compute from its rows.                     *)

Counted     == {a \in DOMAIN ledger : ledger[a].status \notin Ignored}
CountedOf(q) == {a \in Counted : ledger[a].qid = q}

Inflight      == {a \in DOMAIN ledger : ledger[a].status \notin Terminal}
BlockedQids   == {ledger[a].qid : a \in Inflight}
ProcessedQids == {ledger[a].qid : a \in DOMAIN ledger \ Inflight}

TokensOf(rows) == MapThenSumSet(LAMBDA a : ledger[a].tokens, rows)
UsedTokens     == TokensOf(DOMAIN ledger)

BugLimitOffByOne(q) == /\ q \in DOMAIN QidBudget
                       /\ Cardinality(CountedOf(q)) > QidBudget[q]
QidBudgetReached(q) == /\ q \in DOMAIN QidBudget
                       /\ Cardinality(CountedOf(q)) >= QidBudget[q]
TotalBudgetReached  == MaxTotal > 0 /\ Cardinality(Counted) >= MaxTotal
CallAllowed(q)      == ~QidBudgetReached(q) /\ ~TotalBudgetReached

-----------------------------------------------------------------------------
(* What writes the file.                                                   *)

AppendRow(a, q, s) ==
  /\ a \notin DOMAIN ledger
  /\ ledger' = [b \in DOMAIN ledger \cup {a} |->
                  IF b = a THEN [qid |-> q, status |-> s, tokens |-> 0]
                           ELSE ledger[b]]

ReplaceAttempt(a, s, t) ==
  /\ a \in DOMAIN ledger
  /\ ledger' = [ledger EXCEPT ![a] = [qid |-> @.qid, status |-> s, tokens |-> t]]

(* The guard lets the call through and a STARTED row is appended.          *)
BeginProviderAttempt(a, q) ==
  /\ open = NoAttempt
  /\ CallAllowed(q)
  /\ AppendRow(a, q, "STARTED")
  /\ open' = a

(* The guard appends a PRE_CALL_BLOCKED row and raises.                     *)
RefuseProviderAttempt(a, q) ==
  /\ open = NoAttempt
  /\ ~CallAllowed(q)
  /\ AppendRow(a, q, "PRE_CALL_BLOCKED")
  /\ UNCHANGED open

(* The prompt budget gate refuses a prompt before any client is involved.  *)
RecordPreCallBlocked(a, q) ==
  /\ open = NoAttempt
  /\ AppendRow(a, q, "PRE_CALL_BLOCKED")
  /\ UNCHANGED open

FinalizeCompleted(t) ==
  /\ open # NoAttempt
  /\ ReplaceAttempt(open, "COMPLETED", t)
  /\ open' = NoAttempt

FinalizeFailed(s) ==
  /\ open # NoAttempt
  /\ s \in {"ERROR", "TIMEOUT"}
  /\ ReplaceAttempt(open, s, 0)
  /\ open' = NoAttempt

BugAbandonRollsBack ==
  /\ open # NoAttempt
  /\ ledger' = [a \in DOMAIN ledger \ {open} |-> ledger[a]]
  /\ open' = NoAttempt

(* A crash, or an exception no handler of the client turns into a row.     *)
AbandonAttempt ==
  /\ open # NoAttempt
  /\ open' = NoAttempt
  /\ UNCHANGED ledger

-----------------------------------------------------------------------------
LedgerInit == ledger = [a \in {} |-> a] /\ open = NoAttempt

LedgerNext ==
  \/ \E a \in AttemptId, q \in Qid : \/ BeginProviderAttempt(a, q)
                                     \/ RefuseProviderAttempt(a, q)
                                     \/ RecordPreCallBlocked(a, q)
  \/ \E t \in Tokens : FinalizeCompleted(t)
  \/ \E s \in {"ERROR", "TIMEOUT"} : FinalizeFailed(s)
  \/ AbandonAttempt

LedgerSpec == LedgerInit /\ [][LedgerNext]_ledgerVars

-----------------------------------------------------------------------------
(* The rows of one question that stand for a provider call never exceed    *)
(* its budget, nor all of them the total, whatever mix of failures, aborts *)
(* and refusals led there: the check of assert_provider_call_allowed reads *)
(* rows whose status changes later, and must count the same call the same  *)
(* way before and after it ends.                                           *)
CallsWithinBudget ==
  /\ \A q \in DOMAIN QidBudget : Cardinality(CountedOf(q)) <= QidBudget[q]
  /\ MaxTotal > 0 => Cardinality(Counted) <= MaxTotal

(* The attempt a process has in hand is always one whose row says STARTED: *)
(* it is never left in hand after its outcome is written, which is what    *)
(* keeps finalize_attempt, which does not look at the row's status, from   *)
(* turning a refused or a finished call into another one.                  *)
OpenIsStarted == open # NoAttempt => ledger[open].status = "STARTED"

(* finalize_attempt never rewrites the outcome or the tokens of a call     *)
(* that has ended, and no row ever leaves the file or changes question.    *)
OutcomesAreFinal ==
  [][\A a \in DOMAIN ledger :
       /\ a \in DOMAIN ledger'
       /\ ledger'[a].qid = ledger[a].qid
       /\ ledger[a].status \in Terminal => ledger'[a] = ledger[a]]_ledgerVars

(* The ledger grants calls as CallPermits does: a row that counts is a     *)
(* permit.                                                                 *)
Permits == INSTANCE CallPermits WITH
             granted <- [a \in Counted |-> ledger[a].qid]
PermitsSpec == Permits!Spec
=============================================================================
