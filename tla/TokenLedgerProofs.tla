------------------------- MODULE TokenLedgerProofs -------------------------
(***************************************************************************)
(* Proofs about TokenLedger, for every set of questions, every budget and  *)
(* every number of attempts.                                               *)
(***************************************************************************)
EXTENDS TokenLedger, FoldTheorems

USE LedgerAssumption

(* Appending a row to a well-typed ledger keeps it well typed.             *)
LEMMA AppendType ==
  ASSUME LedgerTypeOK, NEW a \in AttemptId, NEW q \in Qid, NEW s \in Status,
         AppendRow(a, q, s)
  PROVE  /\ DOMAIN ledger' \subseteq AttemptId
         /\ DOMAIN ledger' = DOMAIN ledger \cup {a}
         /\ ledger' \in [DOMAIN ledger' -> Row]
         /\ IsFiniteSet(DOMAIN ledger')
<1>1. DOMAIN ledger' = DOMAIN ledger \cup {a}
  BY DEF AppendRow
<1>2. IsFiniteSet(DOMAIN ledger')
  BY <1>1, FS_AddElement DEF LedgerTypeOK
<1>3. ledger' \in [DOMAIN ledger' -> Row]
  BY <1>1 DEF AppendRow, LedgerTypeOK, Row
<1> QED
  BY <1>1, <1>2, <1>3 DEF LedgerTypeOK

(* Rewriting a row in place changes neither the rows there are nor the     *)
(* question of any of them.                                                *)
LEMMA ReplaceType ==
  ASSUME LedgerTypeOK, NEW a \in AttemptId, NEW s \in Status, NEW t \in Nat,
         ReplaceAttempt(a, s, t)
  PROVE  /\ DOMAIN ledger' = DOMAIN ledger
         /\ ledger' \in [DOMAIN ledger' -> Row]
         /\ \A b \in DOMAIN ledger : ledger'[b].qid = ledger[b].qid
         /\ \A b \in DOMAIN ledger \ {a} : ledger'[b] = ledger[b]
         /\ ledger'[a].status = s
<1>1. \A b \in DOMAIN ledger : ledger[b] \in Row
  BY DEF LedgerTypeOK
<1>2. ledger' = [b \in DOMAIN ledger |->
                   IF b = a THEN [qid |-> ledger[a].qid, status |-> s, tokens |-> t]
                            ELSE ledger[b]]
  BY DEF ReplaceAttempt
<1>3. a \in DOMAIN ledger
  BY DEF ReplaceAttempt
<1>4. [qid |-> ledger[a].qid, status |-> s, tokens |-> t] \in Row
  BY <1>1, <1>3 DEF Row
<1>5. DOMAIN ledger' = DOMAIN ledger
  BY <1>2
<1>6. ledger' \in [DOMAIN ledger' -> Row]
  BY <1>1, <1>2, <1>4, <1>5
<1>7. \A b \in DOMAIN ledger : ledger'[b] = IF b = a
          THEN [qid |-> ledger[a].qid, status |-> s, tokens |-> t] ELSE ledger[b]
  BY <1>2
<1> QED
  BY <1>3, <1>5, <1>6, <1>7

(* Every step keeps the ledger well typed.                                 *)
LEMMA TypeStep ==
  ASSUME LedgerTypeOK, [LedgerNext]_ledgerVars
  PROVE  LedgerTypeOK'
<1>1. ASSUME NEW a \in AttemptId, NEW q \in Qid, BeginProviderAttempt(a, q)
      PROVE  LedgerTypeOK'
  <2>1. "STARTED" \in Status
    BY DEF Status
  <2> QED
    BY <1>1, <2>1, AppendType DEF BeginProviderAttempt, LedgerTypeOK
<1>2. ASSUME NEW a \in AttemptId, NEW q \in Qid,
             RefuseProviderAttempt(a, q) \/ RecordPreCallBlocked(a, q)
      PROVE  LedgerTypeOK'
  <2>1. "PRE_CALL_BLOCKED" \in Status
    BY DEF Status, Terminal, Ignored
  <2> QED
    BY <1>2, <2>1, AppendType
    DEF RefuseProviderAttempt, RecordPreCallBlocked, LedgerTypeOK
<1>3. ASSUME NEW t \in Tokens, FinalizeCompleted(t)
      PROVE  LedgerTypeOK'
  <2>1. "COMPLETED" \in Status /\ t \in Nat /\ open \in AttemptId
    BY <1>3 DEF Status, Terminal, FinalizeCompleted, LedgerTypeOK
  <2> QED
    BY <1>3, <2>1, ReplaceType DEF FinalizeCompleted, LedgerTypeOK
<1>4. ASSUME NEW s \in {"ERROR", "TIMEOUT"}, FinalizeFailed(s)
      PROVE  LedgerTypeOK'
  <2>1. s \in Status /\ open \in AttemptId
    BY <1>4 DEF Status, Terminal, FinalizeFailed, LedgerTypeOK
  <2> QED
    BY <1>4, <2>1, ReplaceType DEF FinalizeFailed, LedgerTypeOK
<1>5. CASE AbandonAttempt
  BY <1>5 DEF AbandonAttempt, LedgerTypeOK
<1>6. CASE UNCHANGED ledgerVars
  BY <1>6 DEF ledgerVars, LedgerTypeOK
<1> QED
  BY <1>1, <1>2, <1>3, <1>4, <1>5, <1>6 DEF LedgerNext

-----------------------------------------------------------------------------
(* The rows that count are finitely many, so their number is a natural.    *)
LEMMA CountedFinite ==
  ASSUME LedgerTypeOK
  PROVE  /\ IsFiniteSet(Counted) /\ Cardinality(Counted) \in Nat
         /\ \A q \in Qid : /\ IsFiniteSet(CountedOf(q))
                           /\ Cardinality(CountedOf(q)) \in Nat
<1>1. IsFiniteSet(Counted)
  BY FS_Subset DEF Counted, LedgerTypeOK
<1>2. ASSUME NEW q \in Qid PROVE IsFiniteSet(CountedOf(q))
  BY <1>1, FS_Subset DEF CountedOf
<1> QED
  BY <1>1, <1>2, FS_CardinalityType

(* A call the guard lets through adds one to its question and to the       *)
(* total, and to nothing else.                                             *)
LEMMA BeginCounts ==
  ASSUME LedgerTypeOK, NEW a \in AttemptId, NEW q \in Qid,
         BeginProviderAttempt(a, q)
  PROVE  /\ Cardinality(Counted') = Cardinality(Counted) + 1
         /\ Cardinality(CountedOf(q)') = Cardinality(CountedOf(q)) + 1
         /\ \A p \in Qid \ {q} : CountedOf(p)' = CountedOf(p)
<1>1. /\ a \notin DOMAIN ledger
      /\ DOMAIN ledger' = DOMAIN ledger \cup {a}
      /\ \A b \in DOMAIN ledger : ledger'[b] = ledger[b]
      /\ ledger'[a] = [qid |-> q, status |-> "STARTED", tokens |-> 0]
  BY DEF BeginProviderAttempt, AppendRow
<1>2. Counted' = Counted \cup {a}
  BY <1>1 DEF Counted, Ignored
<1>3. CountedOf(q)' = CountedOf(q) \cup {a}
  BY <1>1, <1>2 DEF CountedOf, Counted
<1>4. \A p \in Qid \ {q} : CountedOf(p)' = CountedOf(p)
  BY <1>1, <1>2 DEF CountedOf, Counted
<1>5. a \notin Counted /\ a \notin CountedOf(q)
  BY <1>1 DEF Counted, CountedOf
<1> QED
  BY <1>2, <1>3, <1>4, <1>5, CountedFinite, FS_AddElement

(* The steps that let no call through.                                     *)
NoCallStep ==
  \/ \E a \in AttemptId, q \in Qid : \/ RefuseProviderAttempt(a, q)
                                     \/ RecordPreCallBlocked(a, q)
  \/ \E t \in Tokens : FinalizeCompleted(t)
  \/ \E s \in {"ERROR", "TIMEOUT"} : FinalizeFailed(s)
  \/ AbandonAttempt
  \/ UNCHANGED ledgerVars

(* They leave the rows that count as they were, under the same questions:  *)
(* a refusal adds a row that does not count, and a call that ends counted  *)
(* before (it was STARTED) and counts still.                               *)
LEMMA NoCallKeepsCount ==
  ASSUME LedgerTypeOK, OpenIsStarted, NoCallStep
  PROVE  /\ Counted' = Counted
         /\ \A b \in Counted : ledger'[b].qid = ledger[b].qid
         /\ \A q \in Qid : CountedOf(q)' = CountedOf(q)
<1>1. ASSUME Counted' = Counted, \A b \in Counted : ledger'[b].qid = ledger[b].qid
      PROVE  \A q \in Qid : CountedOf(q)' = CountedOf(q)
  BY <1>1 DEF CountedOf
<1>2. ASSUME NEW a \in AttemptId, NEW q \in Qid,
             RefuseProviderAttempt(a, q) \/ RecordPreCallBlocked(a, q)
      PROVE  Counted' = Counted /\ \A b \in Counted : ledger'[b].qid = ledger[b].qid
  <2>1. /\ DOMAIN ledger' = DOMAIN ledger \cup {a}
        /\ \A b \in DOMAIN ledger : ledger'[b] = ledger[b]
        /\ ledger'[a].status = "PRE_CALL_BLOCKED"
        /\ a \notin DOMAIN ledger
    BY <1>2 DEF RefuseProviderAttempt, RecordPreCallBlocked, AppendRow
  <2> QED
    BY <2>1 DEF Counted, Ignored
<1>3. ASSUME NEW s \in Status \ Ignored, NEW t \in Nat, open # NoAttempt,
             ReplaceAttempt(open, s, t)
      PROVE  Counted' = Counted /\ \A b \in Counted : ledger'[b].qid = ledger[b].qid
  <2>1. open \in AttemptId /\ open \in DOMAIN ledger
    BY <1>3 DEF LedgerTypeOK
  <2>2. open \in Counted
    BY <1>3, <2>1 DEF OpenIsStarted, Counted, Ignored
  <2> QED
    BY <1>3, <2>1, <2>2, ReplaceType DEF Counted
<1>4. ASSUME NEW t \in Tokens, FinalizeCompleted(t)
      PROVE  Counted' = Counted /\ \A b \in Counted : ledger'[b].qid = ledger[b].qid
  <2>1. "COMPLETED" \in Status \ Ignored /\ t \in Nat
    BY DEF Status, Terminal, Ignored
  <2> QED
    BY <1>3, <1>4, <2>1 DEF FinalizeCompleted
<1>5. ASSUME NEW s \in {"ERROR", "TIMEOUT"}, FinalizeFailed(s)
      PROVE  Counted' = Counted /\ \A b \in Counted : ledger'[b].qid = ledger[b].qid
  <2>1. s \in Status \ Ignored
    BY DEF Status, Terminal, Ignored
  <2> QED
    BY <1>3, <1>5, <2>1 DEF FinalizeFailed
<1>6. ASSUME UNCHANGED ledger
      PROVE  Counted' = Counted /\ \A b \in Counted : ledger'[b].qid = ledger[b].qid
  BY <1>6 DEF Counted
<1> QED
  BY <1>1, <1>2, <1>4, <1>5, <1>6 DEF NoCallStep, AbandonAttempt, ledgerVars

-----------------------------------------------------------------------------
(* The inductive invariant: the budget holds because a call that ends was  *)
(* already counted, which needs the open attempt to be a STARTED row.      *)
LedgerInv == LedgerTypeOK /\ OpenIsStarted /\ CallsWithinBudget

\* An empty ledger.
LEMMA InvInit == LedgerInit => LedgerInv
<1> SUFFICES ASSUME LedgerInit PROVE LedgerInv
  OBVIOUS
<1>1. LedgerTypeOK /\ OpenIsStarted
  BY FS_EmptySet DEF LedgerInit, LedgerTypeOK, OpenIsStarted
<1>2. Counted = {} /\ \A q \in Qid : CountedOf(q) = {}
  BY DEF LedgerInit, Counted, CountedOf
<1>3. CallsWithinBudget
  BY <1>2, FS_EmptySet DEF CallsWithinBudget
<1> QED
  BY <1>1, <1>3 DEF LedgerInv

\* The open attempt is STARTED after every step.
LEMMA StartedStep ==
  ASSUME LedgerTypeOK, OpenIsStarted, [LedgerNext]_ledgerVars
  PROVE  OpenIsStarted'
<1>1. ASSUME NEW a \in AttemptId, NEW q \in Qid, BeginProviderAttempt(a, q)
      PROVE  OpenIsStarted'
  BY <1>1 DEF BeginProviderAttempt, AppendRow, OpenIsStarted
<1>2. ASSUME open' = NoAttempt
      PROVE  OpenIsStarted'
  BY <1>2 DEF OpenIsStarted
<1>3. ASSUME UNCHANGED ledgerVars
      PROVE  OpenIsStarted'
  BY <1>3 DEF OpenIsStarted, ledgerVars
<1> QED
  BY <1>1, <1>2, <1>3 DEF LedgerNext, RefuseProviderAttempt, RecordPreCallBlocked,
     FinalizeCompleted, FinalizeFailed, AbandonAttempt

\* The counts stay within the budgets: only a begin adds to them.
LEMMA BudgetStep ==
  ASSUME LedgerInv, [LedgerNext]_ledgerVars
  PROVE  CallsWithinBudget'
<1>1. ASSUME NEW a \in AttemptId, NEW q \in Qid, BeginProviderAttempt(a, q)
      PROVE  CallsWithinBudget'
  <2>1. /\ q \in DOMAIN QidBudget => Cardinality(CountedOf(q)) < QidBudget[q]
        /\ MaxTotal > 0 => Cardinality(Counted) < MaxTotal
    BY <1>1, CountedFinite
    DEF LedgerInv, BeginProviderAttempt, CallAllowed, QidBudgetReached, TotalBudgetReached
  <2>2. /\ Cardinality(Counted') = Cardinality(Counted) + 1
        /\ Cardinality(CountedOf(q)') = Cardinality(CountedOf(q)) + 1
        /\ \A p \in Qid \ {q} : CountedOf(p)' = CountedOf(p)
    BY <1>1, BeginCounts DEF LedgerInv
  <2> QED
    BY <2>1, <2>2, CountedFinite DEF LedgerInv, CallsWithinBudget
<1>2. CASE NoCallStep
  BY <1>2, NoCallKeepsCount DEF LedgerInv, CallsWithinBudget
<1> QED
  BY <1>1, <1>2 DEF LedgerNext, NoCallStep

\* The invariant survives every step.
LEMMA InvStep == LedgerInv /\ [LedgerNext]_ledgerVars => LedgerInv'
  BY TypeStep, StartedStep, BudgetStep DEF LedgerInv

\* The invariant holds of every ledger.
LEMMA Invariance == LedgerSpec => []LedgerInv
  BY InvInit, InvStep, PTL DEF LedgerSpec

(* The ledger only ever holds rows of the shape the code writes, over a    *)
(* finite set of attempts, and the open attempt has a row.                 *)
THEOREM TypeCorrect == LedgerSpec => []LedgerTypeOK
<1>1. LedgerInv => LedgerTypeOK
  BY DEF LedgerInv
<1> QED
  BY <1>1, Invariance, PTL

(* No mix of completions, failures, refusals, crashes and restarts lets    *)
(* more provider calls through than the budgets allow.                     *)
THEOREM BudgetHolds == LedgerSpec => []CallsWithinBudget
<1>1. LedgerInv => CallsWithinBudget
  BY DEF LedgerInv
<1> QED
  BY <1>1, Invariance, PTL

(* A step keeps every row under its question, and every outcome as it is.  *)
LEMMA RowsKept ==
  ASSUME LedgerInv, [LedgerNext]_ledgerVars, NEW a \in DOMAIN ledger
  PROVE  /\ a \in DOMAIN ledger'
         /\ ledger'[a].qid = ledger[a].qid
         /\ ledger[a].status \in Terminal => ledger'[a] = ledger[a]
<1>1. ASSUME NEW b \in AttemptId, NEW q \in Qid, NEW s \in Status, AppendRow(b, q, s)
      PROVE  a \in DOMAIN ledger' /\ ledger'[a] = ledger[a]
  BY <1>1 DEF AppendRow
<1>2. ASSUME NEW s \in Status, NEW t \in Nat, open # NoAttempt,
             ReplaceAttempt(open, s, t)
      PROVE  /\ a \in DOMAIN ledger'
             /\ ledger'[a].qid = ledger[a].qid
             /\ ledger[a].status \in Terminal => ledger'[a] = ledger[a]
  <2>1. open \in AttemptId /\ open \in DOMAIN ledger
    BY <1>2 DEF LedgerInv, LedgerTypeOK
  <2>2. ledger[open].status \notin Terminal
    BY <1>2 DEF LedgerInv, OpenIsStarted, Terminal, Ignored
  <2> QED
    BY <1>2, <2>1, <2>2, ReplaceType DEF LedgerInv
<1>3. {"STARTED", "COMPLETED", "ERROR", "TIMEOUT", "PRE_CALL_BLOCKED"} \subseteq Status
  BY DEF Status, Terminal, Ignored
<1>4. CASE UNCHANGED ledger
  BY <1>4
<1>5. Tokens \subseteq Nat /\ 0 \in Nat
  OBVIOUS
<1> QED
  BY <1>1, <1>2, <1>3, <1>4, <1>5 DEF LedgerNext, BeginProviderAttempt,
     RefuseProviderAttempt, RecordPreCallBlocked, FinalizeCompleted,
     FinalizeFailed, AbandonAttempt, ledgerVars

(* The outcome of a call that has ended is never rewritten.                *)
THEOREM OutcomesFinal == LedgerSpec => OutcomesAreFinal
<1>1. LedgerInv /\ [LedgerNext]_ledgerVars =>
        [\A a \in DOMAIN ledger :
           /\ a \in DOMAIN ledger'
           /\ ledger'[a].qid = ledger[a].qid
           /\ ledger[a].status \in Terminal => ledger'[a] = ledger[a]]_ledgerVars
  BY RowsKept
<1> QED
  BY <1>1, Invariance, PTL DEF LedgerSpec, OutcomesAreFinal

(* The attempt in hand is always a STARTED one.                            *)
THEOREM OpenStarted == LedgerSpec => []OpenIsStarted
<1>1. LedgerInv => OpenIsStarted
  BY DEF LedgerInv
<1> QED
  BY <1>1, Invariance, PTL

-----------------------------------------------------------------------------
(* The ledger implements the abstract permits: only a call the guard lets  *)
(* through is a step of CallPermits, every other step is a stutter.        *)
THEOREM ImplementsPermits == LedgerSpec => PermitsSpec
<1> DEFINE granted == [a \in Counted |-> ledger[a].qid]
<1>1. LedgerInit => Permits!Init
  BY DEF LedgerInit, Permits!Init, Counted
<1>2. LedgerInv /\ [LedgerNext]_ledgerVars => [Permits!Next]_granted
  <2> SUFFICES ASSUME LedgerInv, [LedgerNext]_ledgerVars
               PROVE  Permits!Next \/ granted' = granted
    OBVIOUS
  <2>1. ASSUME NEW a \in AttemptId, NEW q \in Qid, BeginProviderAttempt(a, q)
        PROVE  Permits!Grant(a, q)
    <3>1. /\ a \notin DOMAIN ledger
          /\ DOMAIN ledger' = DOMAIN ledger \cup {a}
          /\ \A b \in DOMAIN ledger : ledger'[b] = ledger[b]
          /\ ledger'[a] = [qid |-> q, status |-> "STARTED", tokens |-> 0]
      BY <2>1 DEF BeginProviderAttempt, AppendRow
    <3>2. a \notin Counted /\ Counted' = Counted \cup {a}
      BY <3>1 DEF Counted, Ignored
    <3>3. Permits!PermitsOf(q) = CountedOf(q)
      BY DEF Permits!PermitsOf, CountedOf
    <3>4. /\ q \in DOMAIN QidBudget => Cardinality(CountedOf(q)) < QidBudget[q]
          /\ MaxTotal > 0 => Cardinality(Counted) < MaxTotal
      BY <2>1, CountedFinite
      DEF LedgerInv, BeginProviderAttempt, CallAllowed, QidBudgetReached, TotalBudgetReached
    <3>5. granted' = [b \in Counted \cup {a} |-> IF b = a THEN q ELSE granted[b]]
      BY <3>1, <3>2 DEF Counted
    <3>6. \A S : Permits!Cardinality(S) = Cardinality(S)
      BY DEF Permits!Cardinality, Cardinality
    <3> QED
      BY <3>2, <3>3, <3>4, <3>5, <3>6 DEF Permits!Grant
  <2>2. CASE NoCallStep
    BY <2>2, NoCallKeepsCount DEF LedgerInv
  <2> QED
    BY <2>1, <2>2 DEF LedgerNext, NoCallStep, Permits!Next
<1> QED
  BY <1>1, <1>2, Invariance, PTL DEF LedgerSpec, PermitsSpec, Permits!Spec

-----------------------------------------------------------------------------
(* What the rows cost, by row.                                             *)
RowTokens == [a \in DOMAIN ledger |-> ledger[a].tokens]

(* used_tokens adds the tokens of the rows up, each once.                  *)
LEMMA TokensOfIsTotal ==
  ASSUME LedgerTypeOK, NEW rows \in SUBSET DOMAIN ledger
  PROVE  TokensOf(rows) = Total(RowTokens, rows) /\ TokensOf(rows) \in Nat
<1> DEFINE f == RowTokens
           D == rows
           c(d) == CHOOSE a \in d : TRUE
           Body(it) == [d \in SUBSET D |-> IF d = {} THEN 0
                                           ELSE ledger[c(d)].tokens + it[d \ {c(d)}]]
           it == CHOOSE kt : kt = Body(kt)
<1>1. IsFiniteSet(D) /\ \A a \in D : f[a] = ledger[a].tokens /\ f[a] \in Nat
  <2>1. \A a \in DOMAIN ledger : ledger[a] \in Row
    BY DEF LedgerTypeOK
  <2>2. \A r \in Row : r.tokens \in Nat
    BY DEF Row
  <2> QED BY <2>1, <2>2, FS_Subset DEF LedgerTypeOK, RowTokens
<1>2. TokensOf(rows) = it[D]
  BY DEF TokensOf, MapThenSumSet, MapThenFoldSet
<1>3. PICK jt : Adds(jt, f, D)
  BY <1>1, AddsExists
<1>4. \A d \in SUBSET D : d # {} => c(d) \in d /\ f[c(d)] = ledger[c(d)].tokens
  <2>1. \A d \in SUBSET D : d # {} => c(d) \in d
    OBVIOUS
  <2> HIDE DEF c
  <2> QED BY <2>1, <1>1
<1>5. jt = Body(jt)
  <2>1. jt = [d \in SUBSET D |-> jt[d]] /\ jt[{}] = 0
    BY <1>3 DEF Adds
  <2>2. \A d \in SUBSET D : d # {} => jt[d] = f[c(d)] + jt[d \ {c(d)}]
    BY <1>3, <1>4 DEF Adds
  <2> HIDE DEF c, D, f
  <2> QED BY <2>1, <2>2, <1>4
<1>6. it = Body(it)
  <2> HIDE DEF Body
  <2> QED BY <1>5, Zenon
<1>7. Recurs(it, f, D)
  <2> HIDE DEF it, f, D, c
  <2>1. it[{}] = 0
    BY <1>6
  <2>2. \A d \in SUBSET D : d # {} => it[d] = f[c(d)] + it[d \ {c(d)}]
    BY <1>6, <1>4
  <2> QED BY <2>1, <2>2, <1>4 DEF Recurs
<1> HIDE DEF it, Body
<1>8. it[D] = Total(f, D) /\ Total(f, D) \in Nat
  BY <1>1, <1>7, TotalOf
<1> QED BY <1>2, <1>8

(* Only a completed call carries tokens.                                   *)
RowsFree == \A a \in DOMAIN ledger : ledger[a].status # "COMPLETED" => ledger[a].tokens = 0

(* Every step keeps it so.                                                 *)
LEMMA FreeStep == LedgerInv /\ RowsFree /\ [LedgerNext]_ledgerVars => RowsFree'
<1> SUFFICES ASSUME LedgerInv, RowsFree, [LedgerNext]_ledgerVars PROVE RowsFree'
  OBVIOUS
<1>1. ASSUME NEW a \in AttemptId, NEW q \in Qid, NEW s \in Status, AppendRow(a, q, s)
      PROVE  RowsFree'
  BY <1>1 DEF AppendRow, RowsFree
<1>2. ASSUME NEW t \in Tokens, FinalizeCompleted(t) PROVE RowsFree'
  <2>1. "COMPLETED" \in Status /\ t \in Nat /\ open \in AttemptId
    BY <1>2 DEF Status, Terminal, FinalizeCompleted, LedgerInv, LedgerTypeOK
  <2> QED BY <1>2, <2>1, ReplaceType DEF FinalizeCompleted, LedgerInv, RowsFree
<1>3. ASSUME NEW s \in {"ERROR", "TIMEOUT"}, FinalizeFailed(s) PROVE RowsFree'
  <2>1. ledger' = [ledger EXCEPT ![open] = [qid |-> @.qid, status |-> s, tokens |-> 0]]
    BY <1>3 DEF FinalizeFailed, ReplaceAttempt
  <2> QED BY <2>1 DEF RowsFree
<1>4. {"STARTED", "PRE_CALL_BLOCKED"} \subseteq Status
  BY DEF Status, Terminal, Ignored
<1>5. CASE UNCHANGED ledger
  BY <1>5 DEF RowsFree
<1> QED BY <1>1, <1>2, <1>3, <1>4, <1>5 DEF LedgerNext, BeginProviderAttempt,
           RefuseProviderAttempt, RecordPreCallBlocked, AbandonAttempt, ledgerVars

(* It holds of every ledger.                                               *)
LEMMA FreeInvariance == LedgerSpec => []RowsFree
<1>1. LedgerInit => RowsFree
  BY DEF LedgerInit, RowsFree
<1> QED BY <1>1, FreeStep, Invariance, PTL DEF LedgerSpec

(* What the whole ledger costs.                                            *)
Used == Total(RowTokens, DOMAIN ledger)

(* It is what _used_tokens reads.                                         *)
LEMMA UsedIsTotal == ASSUME LedgerTypeOK PROVE UsedTokens = Used /\ Used \in Nat
  BY TokensOfIsTotal DEF UsedTokens, Used

(* It changes only by the tokens of a call that completes.                 *)
LEMMA UsedStep ==
  ASSUME LedgerInv, LedgerInv', RowsFree, [LedgerNext]_ledgerVars
  PROVE  \/ Used' = Used
         \/ \E t \in Tokens : FinalizeCompleted(t) /\ Used' = Used + t
<1> DEFINE D == DOMAIN ledger
           f == RowTokens
           g == RowTokens'
<1>1. /\ Used = Total(f, D) /\ Used' = Total(g, DOMAIN ledger')
      /\ IsFiniteSet(D) /\ IsFiniteSet(DOMAIN ledger')
  BY DEF Used, LedgerInv, LedgerTypeOK
<1>2. \A a \in D : f[a] = ledger[a].tokens /\ f[a] \in Nat
  BY DEF RowTokens, LedgerInv, LedgerTypeOK, Row
<1>3. \A a \in DOMAIN ledger' : g[a] = ledger'[a].tokens /\ g[a] \in Nat
  <2>1. ledger' \in [DOMAIN ledger' -> Row]
    BY DEF LedgerInv, LedgerTypeOK
  <2> QED BY <2>1 DEF RowTokens, Row
<1>4. ASSUME NEW a \in AttemptId, NEW q \in Qid, NEW s, AppendRow(a, q, s)
      PROVE  Used' = Used
  <2> DEFINE E == D \cup {a}
  <2>1. DOMAIN ledger' = E /\ a \in E /\ E \ {a} = D
    BY <1>4 DEF AppendRow
  <2>2. g[a] = 0 /\ \A b \in D : g[b] = f[b]
    BY <1>2, <1>3, <1>4 DEF AppendRow
  <2>3. IsFiniteSet(E) /\ Used' = Total(g, E) /\ \A b \in E : g[b] \in Nat
    BY <1>1, <1>3, <2>1
  <2> HIDE DEF D, E, f, g
  <2>4. Total(g, E) = g[a] + Total(g, E \ {a})
    BY <2>1, <2>3, TotalElement
  <2>5. Total(g, D) = Total(f, D) /\ Total(f, D) \in Nat
    BY <1>1, <1>2, <2>2, TotalSame, TotalOf
  <2> QED BY <1>1, <2>1, <2>2, <2>3, <2>4, <2>5
<1>5. ASSUME NEW s, NEW t \in Nat, open # NoAttempt, ReplaceAttempt(open, s, t)
      PROVE  Used' = Used + t
  <2>1. /\ open \in D /\ DOMAIN ledger' = D /\ ledger[open].tokens = 0
        /\ ledger'[open].tokens = t /\ \A b \in D \ {open} : ledger'[b] = ledger[b]
    BY <1>5 DEF ReplaceAttempt, LedgerInv, OpenIsStarted, RowsFree
  <2>2. \A b \in D : f[b] \in Nat /\ g[b] \in Nat
    BY <1>2, <1>3, <2>1
  <2>3. (\A b \in D \ {open} : g[b] = f[b]) /\ f[open] = 0 /\ g[open] = t
    BY <1>2, <1>3, <2>1
  <2>4. Used' = Total(g, D)
    BY <1>1, <2>1
  <2> HIDE DEF D, f, g
  <2>5. Total(g, D) + f[open] = Total(f, D) + g[open]
    BY <1>1, <2>1, <2>2, <2>3, TotalChange
  <2>6. Total(g, D) \in Nat /\ Total(f, D) \in Nat
    BY <1>1, <2>2, TotalOf
  <2> QED BY <1>1, <2>3, <2>4, <2>5, <2>6
<1>6. ASSUME NEW t \in Tokens, FinalizeCompleted(t) PROVE Used' = Used + t
  <2>1. t \in Nat
    OBVIOUS
  <2> QED BY <1>5, <1>6, <2>1 DEF FinalizeCompleted
<1>7. ASSUME NEW s, FinalizeFailed(s) PROVE Used' = Used
  <2>1. Used' = Used + 0
    BY <1>5, <1>7 DEF FinalizeFailed
  <2>2. Used \in Nat
    BY UsedIsTotal DEF LedgerInv
  <2> QED BY <2>1, <2>2
<1>8. CASE UNCHANGED ledger
  BY <1>8 DEF Used, RowTokens
<1> QED BY <1>4, <1>6, <1>7, <1>8 DEF LedgerNext, BeginProviderAttempt,
           RefuseProviderAttempt, RecordPreCallBlocked, AbandonAttempt, ledgerVars
=============================================================================
