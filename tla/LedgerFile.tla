----------------------------- MODULE LedgerFile -----------------------------
(***************************************************************************)
(* The token ledger at the granularity of its file operations, used by any *)
(* number of processes (src/src/runtime_safety.py).  TokenLedger takes     *)
(* "check and append" and "rewrite the row" for one step each; here the    *)
(* guard reads the file in one step and the row is appended in another,    *)
(* and an outcome is written by reading all rows, writing them to a        *)
(* temporary file, and moving that over the ledger.  No lock is taken.     *)
(*                                                                         *)
(* With one process the two descriptions agree, wherever the process dies. *)
(***************************************************************************)
EXTENDS Integers, FiniteSets

CONSTANTS Proc,   \* the processes on one ledger
          Qid, AttemptId, QidBudget, MaxTotal, Tokens, NoAttempt  \* TokenLedger

ASSUME FileAssumption ==
  /\ DOMAIN QidBudget \subseteq Qid
  /\ QidBudget \in [DOMAIN QidBudget -> Nat]
  /\ MaxTotal \in Nat /\ Tokens \subseteq Nat
  /\ NoAttempt \notin AttemptId

VARIABLES
  file,  \* token_ledger.jsonl: attempt -> row
  tmp,   \* token_ledger.jsonl.tmp, one name for all processes: empty, or its content
  at,    \* where each process is
  mine,  \* its attempt
  rows,  \* the rows it has read, with its own change where it has made one
  sent   \* history: the attempts whose request left

fileVars == <<file, tmp, at, mine, rows, sent>>

Status  == {"STARTED", "COMPLETED", "ERROR", "TIMEOUT", "PRE_CALL_BLOCKED"}
Row     == [qid : Qid, status : Status, tokens : Nat]
NoRows  == [a \in {} |-> a]
Attempt == [id : AttemptId, qid : Qid]
Nothing == [id |-> NoAttempt, qid |-> NoAttempt]

IsRows(f) == DOMAIN f \subseteq AttemptId /\ f \in [DOMAIN f -> Row]

FileTypeOK ==
  /\ IsRows(file) /\ \A f \in tmp : IsRows(f)
  /\ at \in [Proc -> {"idle", "checked", "appended", "open", "rewritten", "saved"}]
  /\ mine \in [Proc -> Attempt \cup {Nothing}]
  /\ DOMAIN rows = Proc /\ \A p \in Proc : IsRows(rows[p])
  /\ sent \subseteq Attempt

Counted(f)      == {a \in DOMAIN f : f[a].status # "PRE_CALL_BLOCKED"}
CountedOf(f, q) == {a \in Counted(f) : f[a].qid = q}

CallAllowed(f, q) ==
  /\ q \in DOMAIN QidBudget => Cardinality(CountedOf(f, q)) < QidBudget[q]
  /\ MaxTotal > 0 => Cardinality(Counted(f)) < MaxTotal

With(f, a, row) == [b \in DOMAIN f \cup {a} |-> IF b = a THEN row ELSE f[b]]

(* uuid4: an id that no process and no row has used.                       *)
IsFresh(a) == /\ a \notin DOMAIN file /\ \A m \in sent : m.id # a
              /\ \A p \in Proc : mine[p].id # a

(* The process leaves the call, by its end or by an exception.             *)
Leave(p) ==
  /\ at' = [at EXCEPT ![p] = "idle"] /\ mine' = [mine EXCEPT ![p] = Nothing]
  /\ rows' = [rows EXCEPT ![p] = NoRows]

-----------------------------------------------------------------------------
(* assert_provider_call_allowed reads the rows.                            *)
ReadForGuard(p, a, q) ==
  /\ at[p] = "idle" /\ IsFresh(a)
  /\ at' = [at EXCEPT ![p] = "checked"]
  /\ mine' = [mine EXCEPT ![p] = [id |-> a, qid |-> q]]
  /\ rows' = [rows EXCEPT ![p] = file]
  /\ UNCHANGED <<file, tmp, sent>>

Append(p, status) ==
  file' = With(file, mine[p].id, [qid |-> mine[p].qid, status |-> status, tokens |-> 0])

(* The row is appended to whatever the file is by now.                     *)
BugAppendUnchecked(p) ==
  /\ at[p] = "checked" /\ Append(p, "STARTED")
  /\ at' = [at EXCEPT ![p] = "appended"] /\ rows' = [rows EXCEPT ![p] = NoRows]
  /\ UNCHANGED <<tmp, mine, sent>>
AppendStarted(p) ==
  /\ at[p] = "checked" /\ CallAllowed(rows[p], mine[p].qid)
  /\ Append(p, "STARTED")
  /\ at' = [at EXCEPT ![p] = "appended"] /\ rows' = [rows EXCEPT ![p] = NoRows]
  /\ UNCHANGED <<tmp, mine, sent>>

BugBlockedIsLabelled(p) ==
  /\ at[p] = "checked" /\ ~CallAllowed(rows[p], mine[p].qid)
  /\ Append(p, "BLOCKED") /\ Leave(p)
  /\ UNCHANGED <<tmp, sent>>
AppendBlocked(p) ==
  /\ at[p] = "checked" /\ ~CallAllowed(rows[p], mine[p].qid)
  /\ Append(p, "PRE_CALL_BLOCKED") /\ Leave(p)
  /\ UNCHANGED <<tmp, sent>>

(* record_pre_call_blocked appends without reading.                        *)
BlockPrompt(p, a, q) ==
  /\ at[p] = "idle" /\ IsFresh(a)
  /\ file' = With(file, a, [qid |-> q, status |-> "PRE_CALL_BLOCKED", tokens |-> 0])
  /\ UNCHANGED <<tmp, at, mine, rows, sent>>

Send(p) ==
  /\ at[p] = "appended" /\ at' = [at EXCEPT ![p] = "open"]
  /\ sent' = sent \cup {mine[p]}
  /\ UNCHANGED <<file, tmp, mine, rows>>

(* _replace_attempt: read all rows and change one.  The KeyError, when     *)
(* another process has dropped the row, leaves the call.                   *)
BugRewritesOwnRowOnly(p, status, t) ==
  /\ at[p] = "open"
  /\ rows' = [rows EXCEPT ![p] = With(NoRows, mine[p].id,
                [qid |-> mine[p].qid, status |-> status, tokens |-> t])]
  /\ at' = [at EXCEPT ![p] = "rewritten"]
  /\ UNCHANGED <<file, tmp, mine, sent>>
ReadForRewrite(p, status, t) ==
  /\ at[p] = "open"
  /\ IF mine[p].id \in DOMAIN file
       THEN /\ rows' = [rows EXCEPT ![p] = With(file, mine[p].id,
                 [qid |-> file[mine[p].id].qid, status |-> status, tokens |-> t])]
            /\ at' = [at EXCEPT ![p] = "rewritten"] /\ UNCHANGED mine
       ELSE Leave(p)
  /\ UNCHANGED <<file, tmp, sent>>

WriteTmp(p) ==
  /\ at[p] = "rewritten" /\ tmp' = {rows[p]}
  /\ at' = [at EXCEPT ![p] = "saved"]
  /\ UNCHANGED <<file, mine, rows, sent>>

(* tmp.replace moves the temporary file, which another process may have    *)
(* written over, or moved already: then the call ends in an error.         *)
MoveTmp(p) ==
  /\ at[p] = "saved"
  /\ IF tmp = {} THEN UNCHANGED file ELSE file' \in tmp
  /\ tmp' = {} /\ Leave(p)
  /\ UNCHANGED sent

(* The process dies, or an exception leaves the call, anywhere.            *)
Abandon(p) == at[p] # "idle" /\ Leave(p) /\ UNCHANGED <<file, tmp, sent>>

-----------------------------------------------------------------------------
FileInit ==
  /\ file = NoRows /\ tmp = {} /\ sent = {}
  /\ at = [p \in Proc |-> "idle"] /\ mine = [p \in Proc |-> Nothing]
  /\ rows = [p \in Proc |-> NoRows]

Rewrite(p) == \/ \E t \in Tokens : ReadForRewrite(p, "COMPLETED", t)
              \/ \E s \in {"ERROR", "TIMEOUT"} : ReadForRewrite(p, s, 0)

Step(p) ==
  \/ \E a \in AttemptId, q \in Qid : ReadForGuard(p, a, q) \/ BlockPrompt(p, a, q)
  \/ AppendStarted(p) \/ AppendBlocked(p) \/ Send(p)
  \/ Rewrite(p) \/ WriteTmp(p) \/ MoveTmp(p) \/ Abandon(p)

FileNext == \E p \in Proc : Step(p)

FileSpec == FileInit /\ [][FileNext]_fileVars

-----------------------------------------------------------------------------
(* No question is paid for more often than its budget allows, whichever    *)
(* processes share the ledger: docs/reference/对比计划.md:452 asks that    *)
(* recovery or parallel errors never call a question repeatedly.           *)
RequestsCounted ==
  /\ \A q \in DOMAIN QidBudget : Cardinality({m \in sent : m.qid = q}) <= QidBudget[q]
  /\ MaxTotal > 0 => Cardinality(sent) <= MaxTotal

(* Every request that left keeps a row, so that a later start sees it: no  *)
(* rewrite of the file drops the row of another call.  So it is with one   *)
(* process; with two, a row appended during a rewrite is lost.             *)
RequestsOnRecord == \A m \in sent : m.id \in DOMAIN file /\ file[m.id].qid = m.qid

(* With one process, the file operations implement the ledger of           *)
(* TokenLedger, whose steps are whole calls of begin_attempt and           *)
(* finalize_attempt, also when the process dies between any two of them.   *)
InHand(p)   == at[p] \in {"appended", "open", "rewritten", "saved"}
OpenAttempt == IF \E p \in Proc : InHand(p)
                 THEN mine[CHOOSE p \in Proc : InHand(p)].id ELSE NoAttempt

Ledger == INSTANCE TokenLedger WITH ledger <- file, open <- OpenAttempt
ImplementsLedger == Ledger!LedgerSpec
=============================================================================
