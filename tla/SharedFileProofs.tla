-------------------------- MODULE SharedFileProofs --------------------------
(***************************************************************************)
(* Proofs about the two files that processes share.                        *)
(*                                                                         *)
(* The lock file of SingleRunGuard.tla, for any number of runs, pids,      *)
(* hosts and identities: OneHolder is inductive together with what the     *)
(* creator of the lock may be doing; the cleanup is safe because a         *)
(* run whose pid was found to be free on its own host is dead and stays    *)
(* dead.  Nothing is assumed of host names or of lookups.                  *)
(*                                                                         *)
(* The ledger file of LedgerFile.tla, which no lock protects, with one     *)
(* process, for every set of questions and attempts and every budget: the  *)
(* file operations implement the ledger of TokenLedger, every request      *)
(* keeps its row, and the budgets hold of the requests themselves.         *)
(***************************************************************************)
EXTENDS SingleRunGuard, LedgerFile, FiniteSetTheorems, TLAPS

(* The lock file: the inductive invariant.                                 *)

\* A lock has a creator that once started, and is complete while it works.
LockHasCreator == lock # NoLock => pc[lock.by] \notin {"unborn", "started"}
HeldIsComplete == \A r \in Run : pc[r] \in {"holding", "releasing"} => lock.complete

\* What an inspecting run has read was created by a run that is not yet to
\* start, though it may be gone by now.
ReadHasCreator ==
  \A r \in Run : pc[r] = "inspecting" =>
    read[r] \in Run /\ pc[read[r]] \notin {"unborn", "started"}

GuardInv ==
  /\ GuardTypeOK /\ OneHolder /\ StaleMeansDead
  /\ LockHasCreator /\ HeldIsComplete /\ ReadHasCreator

-----------------------------------------------------------------------------
\* A lock with a creator among the runs is there.
LEMMA LockOf ==
  ASSUME GuardTypeOK
  PROVE  /\ lock.by \in Run => lock # NoLock /\ lock \in Lock
         /\ lock # NoLock => lock.by \in Run /\ lock \in Lock
BY GuardAssumption DEF GuardTypeOK, NoLock, Lock

\* No lock, and no run has started.
LEMMA GuardInvInit == GuardInit => GuardInv
BY GuardAssumption DEF GuardInit, GuardInv, GuardTypeOK, OneHolder, StaleMeansDead,
  LockHasCreator, HeldIsComplete, ReadHasCreator, Inside, Trusted, State, Answer, NoLock

\* Steps that change one run's pc only.
Moves(r, s) == Becomes(r, s) /\ UNCHANGED <<who, lock, read, report, lookup>>

\* A run that moves on without touching the lock keeps the invariant.
LEMMA MovesOutside ==
  ASSUME GuardInv, NEW r \in Run, NEW s \in State, Moves(r, s), pc[r] # "dead",
         s \in {"unborn", "started"} => pc[r] = "unborn", s # "inspecting",
         s \in {"created", "holding", "releasing"} => Inside(r),
         s \in {"holding", "releasing"} => pc[r] \in {"holding", "releasing"}
  PROVE  GuardInv'
<1>1. GuardTypeOK'
  BY DEF Moves, Becomes, GuardInv, GuardTypeOK
<1>2. OneHolder'
  BY DEF Moves, Becomes, GuardInv, GuardTypeOK, OneHolder, Inside
<1>3. StaleMeansDead'
  BY DEF Moves, Becomes, GuardInv, GuardTypeOK, StaleMeansDead, Trusted
<1>4. LockHasCreator'
  BY LockOf DEF Moves, Becomes, GuardInv, GuardTypeOK, LockHasCreator
<1>5. HeldIsComplete'
  BY DEF Moves, Becomes, GuardInv, GuardTypeOK, HeldIsComplete
<1>6. ReadHasCreator'
  BY DEF Moves, Becomes, GuardInv, GuardTypeOK, ReadHasCreator
<1> QED BY <1>1, <1>2, <1>3, <1>4, <1>5, <1>6 DEF GuardInv

-----------------------------------------------------------------------------
\* Creating the lock: nobody else is inside.
LEMMA CreateInv ==
  ASSUME GuardInv, NEW r \in Run, Create(r)
  PROVE  GuardInv'
<1> USE DEF GuardInv, GuardTypeOK
<1>1. CASE lock # NoLock
  <2>1. Moves(r, "exists") /\ pc[r] = "started"
    BY <1>1 DEF Create, Moves
  <2> QED BY <2>1, MovesOutside DEF State
<1>2. CASE lock = NoLock
  <2>1. /\ pc' = [pc EXCEPT ![r] = "created"] /\ pc[r] = "started"
        /\ lock' = [by |-> r, complete |-> FALSE]
        /\ who' = who /\ read' = read /\ report' = report /\ lookup' = lookup
    BY <1>2 DEF Create, Becomes
  <2>2. \A q \in Run : ~Inside(q)
    BY <1>2, GuardAssumption DEF OneHolder, NoLock
  <2>3. GuardTypeOK'
    BY <2>1 DEF State, Lock
  <2>4. OneHolder' /\ HeldIsComplete'
    BY <2>1, <2>2 DEF OneHolder, HeldIsComplete, Inside
  <2>5. StaleMeansDead'
    BY <2>1 DEF StaleMeansDead, Trusted
  <2>6. LockHasCreator' /\ ReadHasCreator'
    BY <2>1 DEF LockHasCreator, ReadHasCreator
  <2> QED BY <2>3, <2>4, <2>5, <2>6
<1> QED BY <1>1, <1>2

\* Reading the lock: its creator has started.
LEMMA ReadInv ==
  ASSUME GuardInv, NEW r \in Run, ReadLock(r)
  PROVE  GuardInv'
<1> USE DEF GuardInv, GuardTypeOK
<1>1. CASE ~lock.complete
  <2>1. Moves(r, "refused") /\ pc[r] = "exists"
    BY <1>1 DEF ReadLock, Moves
  <2> QED BY <2>1, MovesOutside DEF State
<1>2. CASE lock.complete
  <2>1. /\ pc' = [pc EXCEPT ![r] = "inspecting"] /\ pc[r] = "exists"
        /\ read' = [read EXCEPT ![r] = lock.by]
        /\ lock' = lock /\ who' = who /\ report' = report /\ lookup' = lookup
    BY <1>2 DEF ReadLock, Becomes
  <2>2. lock.by \in Run /\ pc[lock.by] \notin {"unborn", "started"}
    BY <1>2, LockOf DEF LockHasCreator, NoLock
  <2>3. GuardTypeOK'
    BY <2>1, <2>2 DEF State
  <2>4. OneHolder' /\ HeldIsComplete' /\ LockHasCreator'
    BY <2>1, <2>2 DEF OneHolder, HeldIsComplete, LockHasCreator, Inside
  <2>5. ReadHasCreator'
    BY <2>1, <2>2 DEF ReadHasCreator
  <2>6. StaleMeansDead'
    BY <2>1 DEF StaleMeansDead, Trusted
  <2> QED BY <2>3, <2>4, <2>5, <2>6
<1> QED BY <1>1, <1>2

\* A pid that is found to be free on the host of its lock names a dead
\* process, however long ago it was read: were its creator alive, the pid
\* would be taken.
LEMMA InspectInv ==
  ASSUME GuardInv, NEW r \in Run, Inspect(r)
  PROVE  GuardInv'
<1> USE DEF GuardInv, GuardTypeOK
<1>1. PICK answer \in (IF Asked(r) THEN PidAnswers(r) ELSE {"none"}) :
        /\ lookup' = [lookup EXCEPT ![r] = answer]
        /\ report' = IF answer = "alive" THEN report ELSE [report EXCEPT ![r] = read[r]]
  BY DEF Inspect
<1>2. /\ pc' = [pc EXCEPT ![r] = "refused"] /\ pc[r] = "inspecting"
      /\ lock' = lock /\ read' = read /\ who' = who
  BY DEF Inspect, Becomes
<1>3. read[r] \in Run /\ pc[read[r]] \notin {"unborn", "started"}
  BY <1>2 DEF ReadHasCreator
<1>4. answer \in Answer /\ (answer = "gone" => ~Taken(r))
  BY <1>1 DEF PidAnswers, Answer
<1>5. GuardTypeOK'
  BY <1>1, <1>2, <1>3, <1>4 DEF State
<1>6. answer = "gone" /\ who[read[r]].host = who[r].host => pc[read[r]] = "dead"
  BY <1>3, <1>4 DEF Taken, Alive
<1>7. StaleMeansDead'
  BY <1>1, <1>2, <1>3, <1>6 DEF StaleMeansDead, Trusted
<1>8. OneHolder' /\ HeldIsComplete' /\ ReadHasCreator'
  BY <1>2 DEF OneHolder, HeldIsComplete, ReadHasCreator, Inside
<1>9. LockHasCreator'
  BY <1>2, LockOf DEF LockHasCreator
<1> QED BY <1>5, <1>7, <1>8, <1>9

\* Writing the payload makes the lock complete.
LEMMA WriteInv ==
  ASSUME GuardInv, NEW r \in Run, WritePayload(r)
  PROVE  GuardInv'
<1> USE DEF GuardInv, GuardTypeOK
<1>1. lock.by = r /\ lock \in Lock /\ pc[r] = "created"
  BY LockOf DEF WritePayload, OneHolder, Inside
<1>2. \A q \in Run \ {r} : ~Inside(q)
  BY <1>1 DEF OneHolder
<1>3. who' = who /\ read' = read /\ report' = report /\ lookup' = lookup
  BY DEF WritePayload
<1>4. CASE Becomes(r, "holding") /\ lock' = [lock EXCEPT !.complete = TRUE]
  <2>1. lock' = [by |-> r, complete |-> TRUE] /\ lock' \in Lock
    BY <1>1, <1>4 DEF Lock
  <2>2. GuardTypeOK'
    BY <1>1, <1>3, <1>4, <2>1 DEF State, Becomes
  <2>3. OneHolder' /\ HeldIsComplete' /\ LockHasCreator'
    BY <1>2, <1>4, <2>1 DEF OneHolder, HeldIsComplete, LockHasCreator, Inside, Becomes
  <2>4. StaleMeansDead' /\ ReadHasCreator'
    BY <1>1, <1>3, <1>4 DEF StaleMeansDead, ReadHasCreator, Trusted, Becomes
  <2> QED BY <2>2, <2>3, <2>4
<1>5. CASE Becomes(r, "failed") /\ lock' = NoLock
  <2>1. GuardTypeOK'
    BY <1>3, <1>5 DEF State, Becomes
  <2>2. OneHolder' /\ HeldIsComplete' /\ LockHasCreator'
    BY <1>2, <1>5 DEF OneHolder, HeldIsComplete, LockHasCreator, Inside, Becomes
  <2>3. StaleMeansDead' /\ ReadHasCreator'
    BY <1>1, <1>3, <1>5 DEF StaleMeansDead, ReadHasCreator, Trusted, Becomes
  <2> QED BY <2>1, <2>2, <2>3
<1> QED BY <1>4, <1>5 DEF WritePayload

\* The release removes the run's own lock.
LEMMA UnlinkInv ==
  ASSUME GuardInv, NEW r \in Run, Unlink(r)
  PROVE  GuardInv'
<1> USE DEF GuardInv, GuardTypeOK
<1>1. lock.by = r /\ pc[r] = "releasing" /\ lock' = NoLock
      /\ pc' = [pc EXCEPT ![r] = "released"] /\ who' = who /\ read' = read /\ report' = report /\ lookup' = lookup
  BY DEF Unlink, OneHolder, Inside, Becomes
<1>2. \A q \in Run \ {r} : ~Inside(q)
  BY <1>1 DEF OneHolder
<1>3. GuardTypeOK'
  BY <1>1 DEF State
<1>4. OneHolder' /\ HeldIsComplete' /\ LockHasCreator'
  BY <1>1, <1>2 DEF OneHolder, HeldIsComplete, LockHasCreator, Inside
<1>5. StaleMeansDead' /\ ReadHasCreator'
  BY <1>1 DEF StaleMeansDead, ReadHasCreator, Trusted
<1> QED BY <1>3, <1>4, <1>5

\* What the operator removes is the lock of a dead run.
LEMMA CleanupInv ==
  ASSUME GuardInv, Cleanup
  PROVE  GuardInv' /\ lock.by \in Run /\ pc[lock.by] = "dead"
<1> USE DEF GuardInv, GuardTypeOK
<1>1. PICK r \in Run : Trusted(r) /\ report[r] = lock.by
  BY DEF Cleanup
<1>2. lock.by \in Run /\ pc[lock.by] = "dead"
  BY <1>1 DEF StaleMeansDead, Trusted
<1>3. \A q \in Run : ~Inside(q)
  BY <1>2 DEF OneHolder, Inside
<1>4. lock' = NoLock /\ pc' = pc /\ who' = who /\ read' = read /\ report' = report /\ lookup' = lookup
  BY DEF Cleanup
<1>5. GuardTypeOK' /\ LockHasCreator'
  BY <1>4 DEF LockHasCreator
<1>6. OneHolder' /\ HeldIsComplete'
  BY <1>3, <1>4 DEF OneHolder, HeldIsComplete, Inside
<1>7. StaleMeansDead' /\ ReadHasCreator'
  BY <1>4 DEF StaleMeansDead, ReadHasCreator, Trusted
<1> QED BY <1>2, <1>5, <1>6, <1>7

\* The invariant survives the steps of a run.
LEMMA RunStepInv ==
  ASSUME GuardInv, NEW r \in Run, RunStep(r)
  PROVE  GuardInv'
<1>1. CASE Start(r)
  <2>1. Moves(r, "started") /\ pc[r] = "unborn"
    BY <1>1 DEF Start, Moves
  <2> QED BY <2>1, MovesOutside DEF State
<1>2. CASE Die(r)
  <2>1. Moves(r, "dead") /\ pc[r] # "dead"
    BY <1>2 DEF Die, Moves, Alive
  <2> QED BY <2>1, MovesOutside DEF State
<1>3. CASE CheckOwned(r)
  <2>1. pc[r] = "holding" /\ (Moves(r, "releasing") \/ Moves(r, "failed"))
    BY <1>3 DEF CheckOwned, Moves
  <2> QED BY <2>1, MovesOutside DEF State, Inside
<1> QED BY <1>1, <1>2, <1>3, CreateInv, ReadInv, InspectInv, WriteInv, UnlinkInv DEF RunStep

\* The invariant survives every step.
LEMMA GuardInvStep == GuardInv /\ [GuardNext]_vars => GuardInv'
<1> SUFFICES ASSUME GuardInv, [GuardNext]_vars PROVE GuardInv'
  OBVIOUS
<1>1. CASE UNCHANGED vars
  BY <1>1 DEF vars, GuardInv, GuardTypeOK, OneHolder, StaleMeansDead, LockHasCreator,
    HeldIsComplete, ReadHasCreator, Inside, Trusted
<1> QED BY <1>1, RunStepInv, CleanupInv DEF GuardNext

\* The invariant holds whatever runs start, die and clean up.
LEMMA GuardInvariance == GuardSpec => []GuardInv
BY GuardInvInit, GuardInvStep, PTL DEF GuardSpec

-----------------------------------------------------------------------------
\* The state of the guard is well formed.
THEOREM GuardTypeCorrect == GuardSpec => []GuardTypeOK
<1>1. GuardInv => GuardTypeOK
  BY DEF GuardInv
<1> QED BY <1>1, GuardInvariance, PTL

(* At most one run of a lock file is between acquire and release, whatever *)
(* dies, whichever pids are reused, whichever names are shared and however *)
(* often a lookup fails, as long as the operator only removes what was     *)
(* found to be of no process on its own host.                              *)
THEOREM MutualExclusion == GuardSpec => []OneHolder
<1>1. GuardInv => OneHolder
  BY DEF GuardInv
<1> QED BY <1>1, GuardInvariance, PTL

(* A lock is of a dead run, and stays one, when it was reported as stale   *)
(* after its own host had found its pid free.  The verdict alone says      *)
(* neither, and without either condition the statement is false.           *)
THEOREM StaleIsDead == GuardSpec => []StaleMeansDead
<1>1. GuardInv => StaleMeansDead
  BY DEF GuardInv
<1> QED BY <1>1, GuardInvariance, PTL

\* No run removes the lock of another one that lives.
THEOREM LocksSafe == GuardSpec => LocksOutliveOthers
<1> DEFINE Kept == lock # NoLock /\ lock' # lock /\ lock'.by # lock.by =>
                     ~Alive(lock.by) \/ (Inside(lock.by) /\ pc'[lock.by] # pc[lock.by])
<1>1. ASSUME GuardInv, [GuardNext]_vars
      PROVE  [Kept]_vars
  <2> SUFFICES ASSUME lock # NoLock, lock' # lock, lock'.by # lock.by, GuardNext
               PROVE  ~Alive(lock.by) \/ (Inside(lock.by) /\ pc'[lock.by] # pc[lock.by])
    BY <1>1 DEF vars
  <2>1. CASE Cleanup
    BY <1>1, <2>1, CleanupInv DEF Alive
  <2>2. ASSUME NEW r \in Run, RunStep(r)
        PROVE  Inside(lock.by) /\ pc'[lock.by] # pc[lock.by]
    <3>1. WritePayload(r) \/ Unlink(r)
      BY <2>2 DEF RunStep, Start, Die, Create, ReadLock, Inspect, CheckOwned
    <3>2. Inside(r) /\ lock.by = r
      BY <1>1, <3>1 DEF WritePayload, Unlink, Inside, GuardInv, OneHolder
    <3> QED BY <1>1, <3>1, <3>2 DEF WritePayload, Unlink, Becomes, GuardInv, GuardTypeOK
  <2> QED BY <2>1, <2>2 DEF GuardNext
<1> QED BY <1>1, GuardInvariance, PTL DEF GuardSpec, LocksOutliveOthers

-----------------------------------------------------------------------------
(* The ledger file.                                                        *)

USE FileAssumption

-----------------------------------------------------------------------------
(* The inductive invariant, for the one process w.                         *)

Outcome(q) == {[qid |-> q, status |-> "COMPLETED", tokens |-> t] : t \in Tokens}
              \cup {[qid |-> q, status |-> s, tokens |-> 0] : s \in {"ERROR", "TIMEOUT"}}

(* The attempt in hand is on file as a STARTED row of its question.        *)
HandOnFile(w) ==
  InHand(w) => /\ mine[w] \in Attempt
               /\ mine[w].id \in DOMAIN file
               /\ file[mine[w].id].qid = mine[w].qid
               /\ file[mine[w].id].status = "STARTED"

(* What the process has read is what the file still holds: nobody else     *)
(* writes it.                                                              *)
ReadIsCurrent(w) ==
  /\ at[w] = "idle" => mine[w] = Nothing
  /\ at[w] = "checked" => /\ mine[w] \in Attempt /\ mine[w].id \notin DOMAIN file
                          /\ rows[w] = file
  /\ at[w] \in {"rewritten", "saved"} =>
       \E row \in Outcome(mine[w].qid) : rows[w] = With(file, mine[w].id, row)
  /\ at[w] = "saved" => tmp = {rows[w]}

(* Every request that left has a row that counts.                          *)
SentCounts == \A m \in sent : m.id \in Counted(file) /\ file[m.id].qid = m.qid

RowsWithinBudget ==
  /\ \A q \in DOMAIN QidBudget : Cardinality(CountedOf(file, q)) <= QidBudget[q]
  /\ MaxTotal > 0 => Cardinality(Counted(file)) <= MaxTotal

FileInv(w) ==
  /\ FileTypeOK /\ IsFiniteSet(DOMAIN file)
  /\ HandOnFile(w) /\ ReadIsCurrent(w) /\ SentCounts /\ RowsWithinBudget

-----------------------------------------------------------------------------
(* The rows that count are finitely many.                                  *)
LEMMA CountFinite ==
  ASSUME NEW f, IsFiniteSet(DOMAIN f)
  PROVE  /\ IsFiniteSet(Counted(f)) /\ Cardinality(Counted(f)) \in Nat
         /\ \A q : /\ IsFiniteSet(CountedOf(f, q))
                   /\ Cardinality(CountedOf(f, q)) \in Nat
<1>1. IsFiniteSet(Counted(f))
  BY FS_Subset DEF Counted
<1>2. ASSUME NEW q PROVE IsFiniteSet(CountedOf(f, q))
  BY <1>1, FS_Subset DEF CountedOf
<1> QED
  BY <1>1, <1>2, FS_CardinalityType

(* Two files that differ in the row of a only.                             *)
Differ(f, g, a, row) == /\ DOMAIN g = DOMAIN f \cup {a} /\ g[a] = row
                        /\ \A b \in DOMAIN f \ {a} : g[b] = f[b]

(* A new row that counts adds one to its question and to the total.        *)
LEMMA StartedCounts ==
  ASSUME NEW f, NEW g, IsFiniteSet(DOMAIN f), NEW a, a \notin DOMAIN f,
         NEW row \in Row, row.status # "PRE_CALL_BLOCKED", Differ(f, g, a, row)
  PROVE  /\ Cardinality(Counted(g)) = Cardinality(Counted(f)) + 1
         /\ Cardinality(CountedOf(g, row.qid)) = Cardinality(CountedOf(f, row.qid)) + 1
         /\ \A q : q # row.qid => CountedOf(g, q) = CountedOf(f, q)
<1>1. Counted(g) = Counted(f) \cup {a}
  BY DEF Counted, Differ
<1>2. CountedOf(g, row.qid) = CountedOf(f, row.qid) \cup {a}
  BY <1>1 DEF CountedOf, Counted, Differ
<1>3. \A q : q # row.qid => CountedOf(g, q) = CountedOf(f, q)
  BY <1>1 DEF CountedOf, Counted, Differ
<1>4. a \notin Counted(f) /\ a \notin CountedOf(f, row.qid)
  BY DEF Counted, CountedOf
<1>5. /\ Cardinality(Counted(f) \cup {a}) = Cardinality(Counted(f)) + 1
      /\ Cardinality(CountedOf(f, row.qid) \cup {a}) = Cardinality(CountedOf(f, row.qid)) + 1
  BY <1>4, CountFinite, FS_AddElement
<1> QED
  BY <1>1, <1>2, <1>3, <1>5

(* A new row that does not count, or the outcome of one that did, changes  *)
(* nothing that is counted.                                                *)
LEMMA OthersKeepCount ==
  ASSUME NEW f, NEW g, NEW a, NEW row \in Row, Differ(f, g, a, row),
         \/ a \notin DOMAIN f /\ row.status = "PRE_CALL_BLOCKED"
         \/ a \in Counted(f) /\ row.status # "PRE_CALL_BLOCKED" /\ row.qid = f[a].qid
  PROVE  /\ Counted(g) = Counted(f)
         /\ \A b \in Counted(f) : g[b].qid = f[b].qid
         /\ \A q : CountedOf(g, q) = CountedOf(f, q)
<1>1. Counted(g) = Counted(f)
  BY DEF Counted, Differ
<1>2. \A b \in Counted(f) : g[b].qid = f[b].qid
  BY DEF Counted, Differ
<1> QED
  BY <1>1, <1>2 DEF CountedOf

(* A file with one row added or replaced.                                  *)
LEMMA WithRow ==
  ASSUME NEW f, IsRows(f), IsFiniteSet(DOMAIN f),
         NEW a \in AttemptId, NEW row \in Row, NEW g, g = With(f, a, row)
  PROVE  IsRows(g) /\ IsFiniteSet(DOMAIN g) /\ Differ(f, g, a, row)
<1>1. Differ(f, g, a, row)
  BY DEF With, Differ
<1>2. IsFiniteSet(DOMAIN g)
  BY <1>1, FS_AddElement DEF Differ
<1>3. \A b \in DOMAIN f : f[b] \in Row
  BY DEF IsRows
<1>4. IsRows(g)
  BY <1>1, <1>3 DEF With, IsRows, Differ
<1> QED
  BY <1>1, <1>2, <1>4

\* The outcome of a call is a row of its question that counts.
LEMMA OutcomeRow ==
  ASSUME NEW q \in Qid, NEW row \in Outcome(q)
  PROVE  row \in Row /\ row.status # "PRE_CALL_BLOCKED" /\ row.qid = q
BY DEF Outcome, Row, Status

-----------------------------------------------------------------------------
\* An empty file and nothing read.
LEMMA FileInvInit == ASSUME NEW w, Proc = {w} PROVE FileInit => FileInv(w)
<1> SUFFICES ASSUME FileInit PROVE FileInv(w)
  OBVIOUS
<1>1. FileTypeOK /\ IsFiniteSet(DOMAIN file)
  BY FS_EmptySet DEF FileInit, FileTypeOK, IsRows, NoRows
<1>2. HandOnFile(w) /\ ReadIsCurrent(w) /\ SentCounts
  BY DEF FileInit, HandOnFile, InHand, ReadIsCurrent, SentCounts
<1>3. Counted(file) = {} /\ \A q : CountedOf(file, q) = {}
  BY DEF FileInit, Counted, CountedOf, NoRows
<1>4. RowsWithinBudget
  BY <1>3, FS_EmptySet DEF RowsWithinBudget
<1> QED
  BY <1>1, <1>2, <1>4 DEF FileInv

(* Leaving a call keeps the invariant whatever is on file by then, as long *)
(* as that is well typed and counted.                                      *)
LEMMA LeaveKeeps ==
  ASSUME NEW w, Proc = {w}, FileInv(w), Leave(w),
         IsRows(file'), \A f \in tmp' : IsRows(f), IsFiniteSet(DOMAIN file'),
         UNCHANGED sent, SentCounts', RowsWithinBudget'
  PROVE  FileInv(w)'
<1>1. FileTypeOK'
  BY DEF FileInv, FileTypeOK, Leave, IsRows, NoRows
<1>2. at'[w] = "idle" /\ mine'[w] = Nothing
  BY DEF Leave, FileInv, FileTypeOK
<1>3. HandOnFile(w)' /\ ReadIsCurrent(w)'
  BY <1>2 DEF HandOnFile, InHand, ReadIsCurrent
<1> QED
  BY <1>1, <1>3 DEF FileInv

(* Steps that leave the file and the requests alone.                       *)
LEMMA CountsKept ==
  ASSUME SentCounts, RowsWithinBudget, UNCHANGED <<file, sent>>
  PROVE  SentCounts' /\ RowsWithinBudget'
BY DEF SentCounts, RowsWithinBudget, Counted, CountedOf

\* Reading the rows for the guard.
LEMMA GuardStep ==
  ASSUME NEW w, Proc = {w}, FileInv(w), NEW a \in AttemptId, NEW q \in Qid,
         ReadForGuard(w, a, q)
  PROVE  FileInv(w)'
<1>1. /\ at'[w] = "checked" /\ mine'[w] = [id |-> a, qid |-> q] /\ rows'[w] = file
      /\ a \notin DOMAIN file
  BY DEF ReadForGuard, FileInv, FileTypeOK, IsFresh
<1>2. FileTypeOK'
  BY DEF ReadForGuard, FileInv, FileTypeOK, Attempt
<1>3. HandOnFile(w)' /\ ReadIsCurrent(w)'
  BY <1>1 DEF ReadForGuard, HandOnFile, InHand, ReadIsCurrent, Attempt
<1> QED
  BY <1>2, <1>3, CountsKept DEF ReadForGuard, FileInv

\* Appending a STARTED row: what was read is what the file holds.
LEMMA StartedStep ==
  ASSUME NEW w, Proc = {w}, FileInv(w), AppendStarted(w)
  PROVE  FileInv(w)'
<1> DEFINE a == mine[w].id
           q == mine[w].qid
           row == [qid |-> q, status |-> "STARTED", tokens |-> 0]
<1>1. /\ mine[w] \in Attempt /\ a \in AttemptId /\ q \in Qid /\ a \notin DOMAIN file
      /\ rows[w] = file
  BY DEF AppendStarted, FileInv, ReadIsCurrent, Attempt
<1>2. row \in Row
  BY <1>1 DEF Row, Status
<1>3. file' = With(file, a, row)
  BY DEF AppendStarted, Append
<1>4. IsRows(file) /\ IsFiniteSet(DOMAIN file)
  BY DEF FileInv, FileTypeOK
<1>0. IsRows(file') /\ IsFiniteSet(DOMAIN file') /\ Differ(file, file', a, row)
  BY <1>1, <1>2, <1>3, <1>4, WithRow
<1>5. /\ IsRows(file') /\ IsFiniteSet(DOMAIN file') /\ DOMAIN file' = DOMAIN file \cup {a}
      /\ file'[a] = row /\ \A b \in DOMAIN file : file'[b] = file[b]
  BY <1>0, <1>1 DEF Differ
<1>6. FileTypeOK'
  BY <1>5 DEF AppendStarted, FileInv, FileTypeOK, IsRows, NoRows
<1>7. HandOnFile(w)' /\ ReadIsCurrent(w)'
  BY <1>1, <1>5 DEF AppendStarted, HandOnFile, InHand, ReadIsCurrent, FileInv, FileTypeOK
<1>8. SentCounts'
  BY <1>5 DEF AppendStarted, SentCounts, FileInv, Counted
<1>9. RowsWithinBudget'
  <2>1. /\ Cardinality(Counted(file')) = Cardinality(Counted(file)) + 1
        /\ Cardinality(CountedOf(file', q)) = Cardinality(CountedOf(file, q)) + 1
        /\ \A p : p # q => CountedOf(file', p) = CountedOf(file, p)
    BY <1>0, <1>1, <1>2, <1>4, StartedCounts
  <2>2. /\ q \in DOMAIN QidBudget => Cardinality(CountedOf(file, q)) < QidBudget[q]
        /\ MaxTotal > 0 => Cardinality(Counted(file)) < MaxTotal
    BY <1>1 DEF AppendStarted, CallAllowed
  <2>3. /\ Cardinality(Counted(file)) \in Nat
        /\ \A p : Cardinality(CountedOf(file, p)) \in Nat
    BY <1>4, CountFinite
  <2>4. ASSUME NEW p \in DOMAIN QidBudget
        PROVE  Cardinality(CountedOf(file', p)) <= QidBudget[p]
    BY <2>1, <2>2, <2>3 DEF FileInv, RowsWithinBudget
  <2> QED
    BY <2>1, <2>2, <2>3, <2>4 DEF RowsWithinBudget
<1> QED
  BY <1>5, <1>6, <1>7, <1>8, <1>9 DEF FileInv

(* A row that does not count is appended, by the guard or by the gate.     *)
LEMMA BlockedKeeps ==
  ASSUME NEW w, FileInv(w), NEW a \in AttemptId, NEW q \in Qid, a \notin DOMAIN file,
         file' = With(file, a, [qid |-> q, status |-> "PRE_CALL_BLOCKED", tokens |-> 0]),
         UNCHANGED sent
  PROVE  /\ IsRows(file') /\ IsFiniteSet(DOMAIN file') /\ SentCounts' /\ RowsWithinBudget'
<1> DEFINE row == [qid |-> q, status |-> "PRE_CALL_BLOCKED", tokens |-> 0]
<1>1. row \in Row
  BY DEF Row, Status
<1>2. IsRows(file) /\ IsFiniteSet(DOMAIN file)
  BY DEF FileInv, FileTypeOK
<1>3. IsRows(file') /\ IsFiniteSet(DOMAIN file') /\ Differ(file, file', a, row)
  BY <1>1, <1>2, WithRow
<1>4. /\ Counted(file') = Counted(file)
      /\ \A b \in Counted(file) : file'[b].qid = file[b].qid
      /\ \A p : CountedOf(file', p) = CountedOf(file, p)
  BY <1>1, <1>3, OthersKeepCount
<1> QED
  BY <1>3, <1>4 DEF FileInv, SentCounts, RowsWithinBudget

\* Appending a PRE_CALL_BLOCKED row.
LEMMA BlockedStep ==
  ASSUME NEW w, Proc = {w}, FileInv(w),
         \/ AppendBlocked(w)
         \/ \E a \in AttemptId, q \in Qid : BlockPrompt(w, a, q)
  PROVE  FileInv(w)'
<1>1. CASE AppendBlocked(w)
  <2>1. mine[w].id \in AttemptId /\ mine[w].qid \in Qid /\ mine[w].id \notin DOMAIN file
    BY <1>1 DEF AppendBlocked, FileInv, ReadIsCurrent, Attempt
  <2> QED
    BY <1>1, <2>1, BlockedKeeps, LeaveKeeps DEF AppendBlocked, Append, FileInv, FileTypeOK
<1>2. ASSUME NEW a \in AttemptId, NEW q \in Qid, BlockPrompt(w, a, q)
      PROVE  FileInv(w)'
  <2>1. a \notin DOMAIN file /\ at[w] = "idle" /\ mine[w] = Nothing
    BY <1>2 DEF BlockPrompt, IsFresh, FileInv, ReadIsCurrent
  <2>2. IsRows(file') /\ IsFiniteSet(DOMAIN file') /\ SentCounts' /\ RowsWithinBudget'
    BY <1>2, <2>1, BlockedKeeps DEF BlockPrompt
  <2>3. FileTypeOK'
    BY <1>2, <2>2 DEF BlockPrompt, FileInv, FileTypeOK
  <2>4. HandOnFile(w)' /\ ReadIsCurrent(w)'
    BY <1>2, <2>1 DEF BlockPrompt, HandOnFile, InHand, ReadIsCurrent
  <2> QED
    BY <2>2, <2>3, <2>4 DEF FileInv
<1> QED
  BY <1>1, <1>2

\* The request leaves: its row is on file.
LEMMA SendStep ==
  ASSUME NEW w, Proc = {w}, FileInv(w), Send(w)
  PROVE  FileInv(w)'
<1>1. /\ at[w] = "appended" /\ at'[w] = "open" /\ mine[w] \in Attempt
      /\ mine[w].id \in Counted(file) /\ file[mine[w].id].qid = mine[w].qid
  BY DEF Send, FileInv, FileTypeOK, HandOnFile, InHand, Counted
<1>2. FileTypeOK'
  BY <1>1 DEF Send, FileInv, FileTypeOK
<1>3. HandOnFile(w)' /\ ReadIsCurrent(w)'
  BY <1>1 DEF Send, FileInv, HandOnFile, InHand, ReadIsCurrent
<1>4. SentCounts'
  BY <1>1 DEF Send, FileInv, SentCounts, Counted
<1>5. RowsWithinBudget'
  BY DEF Send, FileInv, RowsWithinBudget, Counted, CountedOf
<1> QED
  BY <1>2, <1>3, <1>4, <1>5 DEF FileInv, Send

\* Reading the rows and changing one of them in memory.
LEMMA RewriteStep ==
  ASSUME NEW w, Proc = {w}, FileInv(w), Rewrite(w)
  PROVE  FileInv(w)'
<1>1. at[w] = "open" /\ UNCHANGED <<file, tmp, sent>>
  BY DEF Rewrite, ReadForRewrite
<1>2. /\ mine[w] \in Attempt /\ mine[w].id \in DOMAIN file
      /\ file[mine[w].id].qid = mine[w].qid /\ mine[w].qid \in Qid /\ mine[w].id \in AttemptId
  BY <1>1 DEF FileInv, HandOnFile, InHand, Attempt
<1>3. PICK row \in Outcome(mine[w].qid) :
        /\ rows' = [rows EXCEPT ![w] = With(file, mine[w].id, row)]
        /\ at' = [at EXCEPT ![w] = "rewritten"] /\ mine' = mine
  <2>1. ASSUME NEW t \in Tokens, ReadForRewrite(w, "COMPLETED", t)
        PROVE  \E row \in Outcome(mine[w].qid) :
                 /\ rows' = [rows EXCEPT ![w] = With(file, mine[w].id, row)]
                 /\ at' = [at EXCEPT ![w] = "rewritten"] /\ mine' = mine
    <3>1. [qid |-> mine[w].qid, status |-> "COMPLETED", tokens |-> t] \in Outcome(mine[w].qid)
      BY DEF Outcome
    <3> QED
      BY <1>2, <2>1, <3>1 DEF ReadForRewrite
  <2>2. ASSUME NEW s \in {"ERROR", "TIMEOUT"}, ReadForRewrite(w, s, 0)
        PROVE  \E row \in Outcome(mine[w].qid) :
                 /\ rows' = [rows EXCEPT ![w] = With(file, mine[w].id, row)]
                 /\ at' = [at EXCEPT ![w] = "rewritten"] /\ mine' = mine
    <3>1. [qid |-> mine[w].qid, status |-> s, tokens |-> 0] \in Outcome(mine[w].qid)
      BY DEF Outcome
    <3> QED
      BY <1>2, <2>2, <3>1 DEF ReadForRewrite
  <2> QED
    BY <2>1, <2>2 DEF Rewrite
<1>4. IsRows(With(file, mine[w].id, row))
  BY <1>2, OutcomeRow, WithRow DEF FileInv, FileTypeOK
<1>5. FileTypeOK'
  BY <1>1, <1>3, <1>4 DEF FileInv, FileTypeOK
<1>6. at'[w] = "rewritten" /\ rows'[w] = With(file, mine[w].id, row)
  BY <1>3 DEF FileInv, FileTypeOK
<1>7. HandOnFile(w)'
  BY <1>1, <1>3, <1>6 DEF FileInv, HandOnFile, InHand
<1>8. ReadIsCurrent(w)'
  BY <1>1, <1>3, <1>6 DEF ReadIsCurrent
<1> QED
  BY <1>1, <1>5, <1>7, <1>8, CountsKept DEF FileInv

\* Writing the changed rows to the temporary file.
LEMMA WriteTmpStep ==
  ASSUME NEW w, Proc = {w}, FileInv(w), WriteTmp(w)
  PROVE  FileInv(w)'
<1>1. at[w] = "rewritten" /\ at'[w] = "saved" /\ tmp' = {rows[w]}
  BY DEF WriteTmp, FileInv, FileTypeOK
<1>2. FileTypeOK'
  BY <1>1 DEF WriteTmp, FileInv, FileTypeOK
<1>3. HandOnFile(w)'
  BY <1>1 DEF WriteTmp, FileInv, HandOnFile, InHand
<1>4. ReadIsCurrent(w)'
  BY <1>1 DEF WriteTmp, FileInv, ReadIsCurrent
<1> QED
  BY <1>2, <1>3, <1>4, CountsKept DEF FileInv, WriteTmp

(* The move puts the outcome of the attempt in hand on file.               *)
LEMMA MoveEffect ==
  ASSUME NEW w, Proc = {w}, FileInv(w), MoveTmp(w)
  PROVE  /\ mine[w].id \in Counted(file) /\ mine[w].id \in AttemptId
         /\ \E row \in Outcome(mine[w].qid) :
              /\ file' = With(file, mine[w].id, row)
              /\ row \in Row /\ row.status # "PRE_CALL_BLOCKED"
              /\ row.qid = file[mine[w].id].qid
<1>1. at[w] = "saved" /\ file' \in tmp /\ tmp = {rows[w]}
  BY DEF MoveTmp, FileInv, ReadIsCurrent
<1>2. /\ mine[w] \in Attempt /\ mine[w].id \in Counted(file)
      /\ file[mine[w].id].qid = mine[w].qid /\ mine[w].qid \in Qid /\ mine[w].id \in AttemptId
  BY <1>1 DEF FileInv, HandOnFile, InHand, Attempt, Counted
<1>3. PICK row \in Outcome(mine[w].qid) : rows[w] = With(file, mine[w].id, row)
  BY <1>1 DEF FileInv, ReadIsCurrent
<1> QED
  BY <1>1, <1>2, <1>3, OutcomeRow

\* Moving it over the ledger changes one row.
LEMMA MoveStep ==
  ASSUME NEW w, Proc = {w}, FileInv(w), MoveTmp(w)
  PROVE  FileInv(w)'
<1> DEFINE a == mine[w].id
<1>1. PICK row \in Row : /\ file' = With(file, a, row)
                         /\ row.status # "PRE_CALL_BLOCKED" /\ row.qid = file[a].qid
  BY MoveEffect
<1>2. a \in Counted(file) /\ a \in AttemptId /\ tmp' = {} /\ Leave(w) /\ UNCHANGED sent
  BY MoveEffect DEF MoveTmp
<1>3. IsRows(file') /\ IsFiniteSet(DOMAIN file') /\ Differ(file, file', a, row)
  BY <1>1, <1>2, WithRow DEF FileInv, FileTypeOK
<1>4. /\ Counted(file') = Counted(file)
      /\ \A b \in Counted(file) : file'[b].qid = file[b].qid
      /\ \A q : CountedOf(file', q) = CountedOf(file, q)
  BY <1>1, <1>2, <1>3, OthersKeepCount
<1>5. SentCounts' /\ RowsWithinBudget'
  BY <1>2, <1>4 DEF FileInv, SentCounts, RowsWithinBudget
<1> QED
  BY <1>2, <1>3, <1>5, LeaveKeeps

\* The process dies, or drops what it has in hand.
LEMMA AbandonStep ==
  ASSUME NEW w, Proc = {w}, FileInv(w), Abandon(w)
  PROVE  FileInv(w)'
BY LeaveKeeps, CountsKept DEF Abandon, FileInv, FileTypeOK

\* Nothing changes.
LEMMA StutterStep ==
  ASSUME NEW w, FileInv(w), UNCHANGED fileVars
  PROVE  FileInv(w)'
BY CountsKept DEF fileVars, FileInv, FileTypeOK, HandOnFile, InHand, ReadIsCurrent

\* With one process, the invariant survives every step.
LEMMA FileInvStep ==
  ASSUME NEW w, Proc = {w}
  PROVE  FileInv(w) /\ [FileNext]_fileVars => FileInv(w)'
BY GuardStep, StartedStep, BlockedStep, SendStep, RewriteStep, WriteTmpStep, MoveStep,
   AbandonStep, StutterStep DEF FileNext, Step

\* With one process, the invariant holds throughout.
LEMMA FileInvariance == ASSUME NEW w, Proc = {w} PROVE FileSpec => []FileInv(w)
<1>1. FileInit => FileInv(w)
  BY FileInvInit
<1>2. FileInv(w) /\ [FileNext]_fileVars => FileInv(w)'
  BY FileInvStep
<1> QED
  BY <1>1, <1>2, PTL DEF FileSpec

-----------------------------------------------------------------------------
(* The file, the temporary file and what the process has read only ever    *)
(* hold well-formed rows.                                                  *)
THEOREM FileTypeCorrect == ASSUME NEW w, Proc = {w} PROVE FileSpec => []FileTypeOK
<1>1. FileInv(w) => FileTypeOK
  BY DEF FileInv
<1> QED
  BY <1>1, FileInvariance, PTL

(* No rewrite of the file drops the row of a request that left.            *)
THEOREM RequestsKeepRows == ASSUME NEW w, Proc = {w} PROVE FileSpec => []RequestsOnRecord
<1>1. FileInv(w) => RequestsOnRecord
  BY DEF FileInv, SentCounts, RequestsOnRecord, Counted
<1> QED
  BY <1>1, FileInvariance, PTL

(* The requests that left are within the budgets, wherever the process     *)
(* died before: each has a row of its own among those that count.          *)
THEOREM RequestsBudgeted == ASSUME NEW w, Proc = {w} PROVE FileSpec => []RequestsCounted
<1>1. ASSUME FileInv(w) PROVE RequestsCounted
  <2>1. \A m, n \in sent : m.id = n.id => m = n
    BY <1>1 DEF FileInv, FileTypeOK, SentCounts, Attempt
  <2>2. IsFiniteSet(DOMAIN file)
    BY <1>1 DEF FileInv
  <2>3. ASSUME NEW S \in SUBSET sent, NEW R, IsFiniteSet(R), \A m \in S : m.id \in R
        PROVE  Cardinality(S) <= Cardinality(R) /\ Cardinality(S) \in Nat
    <3>1. [m \in S |-> m.id] \in Injection(S, R)
      BY <2>1, <2>3 DEF Injection, IsInjective
    <3> QED
      BY <2>3, <3>1, FS_Injection, FS_CardinalityType
  <2>4. ASSUME NEW q \in DOMAIN QidBudget
        PROVE  Cardinality({m \in sent : m.qid = q}) <= QidBudget[q]
    <3>1. \A m \in {n \in sent : n.qid = q} : m.id \in CountedOf(file, q)
      BY <1>1 DEF FileInv, SentCounts, CountedOf
    <3>2. IsFiniteSet(CountedOf(file, q)) /\ Cardinality(CountedOf(file, q)) \in Nat
      BY <2>2, CountFinite
    <3>3. /\ Cardinality({m \in sent : m.qid = q}) <= Cardinality(CountedOf(file, q))
          /\ Cardinality({m \in sent : m.qid = q}) \in Nat
      BY <2>3, <3>1, <3>2
    <3> QED
      BY <1>1, <3>2, <3>3 DEF FileInv, RowsWithinBudget
  <2>5. MaxTotal > 0 => Cardinality(sent) <= MaxTotal
    <3>1. \A m \in sent : m.id \in Counted(file)
      BY <1>1 DEF FileInv, SentCounts
    <3>2. IsFiniteSet(Counted(file)) /\ Cardinality(Counted(file)) \in Nat
      BY <2>2, CountFinite
    <3>3. Cardinality(sent) <= Cardinality(Counted(file)) /\ Cardinality(sent) \in Nat
      BY <2>3, <3>1, <3>2
    <3> QED
      BY <1>1, <3>2, <3>3 DEF FileInv, RowsWithinBudget
  <2> QED
    BY <2>4, <2>5 DEF RequestsCounted
<1> QED
  BY <1>1, FileInvariance, PTL

-----------------------------------------------------------------------------
(* Every file operation of the one process is a step of the ledger of      *)
(* TokenLedger or none: the append is the begin or the refusal, the move   *)
(* is the end of the call, and a death with a call in hand abandons it.    *)

\* The open attempt of the ledger is the one the process has in hand.
LEMMA OpenIs ==
  ASSUME NEW w, Proc = {w}
  PROVE  OpenAttempt = IF InHand(w) THEN mine[w].id ELSE NoAttempt
BY DEF OpenAttempt, InHand

\* So it is after the step.
LEMMA OpenIsNext ==
  ASSUME NEW w, Proc = {w}
  PROVE  OpenAttempt' = IF InHand(w)' THEN mine'[w].id ELSE NoAttempt
BY DEF OpenAttempt, InHand

\* The rows that count are the ones the ledger counts.
LEMMA SameCount ==
  ASSUME FileTypeOK
  PROVE  /\ Ledger!Counted = Counted(file)
         /\ \A q : Ledger!CountedOf(q) = CountedOf(file, q)
<1>1. \A a \in DOMAIN file : file[a].status \in Status
  BY DEF FileTypeOK, IsRows, Row
<1>2. Ledger!Counted = Counted(file)
  BY <1>1 DEF Ledger!Counted, Ledger!Ignored, Counted, Status
<1> QED
  BY <1>2 DEF Ledger!CountedOf, CountedOf

\* The guard decides as the ledger's guard does.
LEMMA SameGuard ==
  ASSUME FileTypeOK, IsFiniteSet(DOMAIN file), NEW q
  PROVE  Ledger!CallAllowed(q) <=> CallAllowed(file, q)
<1>1. /\ Cardinality(Counted(file)) \in Nat
      /\ Cardinality(CountedOf(file, q)) \in Nat
  BY CountFinite
<1>2. \A S : Ledger!Cardinality(S) = Cardinality(S)
  BY DEF Ledger!Cardinality, Cardinality
<1> QED
  BY <1>1, <1>2, SameCount
  DEF Ledger!CallAllowed, Ledger!QidBudgetReached, Ledger!TotalBudgetReached, CallAllowed

\* Adding a row is the ledger's AppendRow.
LEMMA SameAppend ==
  ASSUME NEW a, NEW q, NEW s, a \notin DOMAIN file,
         file' = With(file, a, [qid |-> q, status |-> s, tokens |-> 0])
  PROVE  Ledger!AppendRow(a, q, s)
BY DEF Ledger!AppendRow, With

\* Changing a row is the ledger's ReplaceAttempt.
LEMMA SameReplace ==
  ASSUME NEW a \in DOMAIN file, NEW s, NEW t,
         file' = With(file, a, [qid |-> file[a].qid, status |-> s, tokens |-> t])
  PROVE  Ledger!ReplaceAttempt(a, s, t)
<1>1. DOMAIN file \cup {a} = DOMAIN file
  OBVIOUS
<1> QED
  BY <1>1 DEF Ledger!ReplaceAttempt, With

\* Each step of the process is a step of the ledger, or none.
LEMMA StepImplements ==
  ASSUME NEW w, Proc = {w}, FileInv(w), Step(w)
  PROVE  Ledger!LedgerNext \/ UNCHANGED <<file, OpenAttempt>>
<1> DEFINE a == mine[w].id
           q == mine[w].qid
<1>1. ASSUME NEW b \in AttemptId, NEW p \in Qid, ReadForGuard(w, b, p)
      PROVE  UNCHANGED <<file, OpenAttempt>>
  BY <1>1, OpenIs, OpenIsNext DEF ReadForGuard, InHand, FileInv, FileTypeOK
<1>2. CASE AppendStarted(w)
  <2>1. /\ a \in AttemptId /\ q \in Qid /\ a \notin DOMAIN file /\ CallAllowed(file, q)
    BY <1>2 DEF AppendStarted, FileInv, ReadIsCurrent, Attempt
  <2>2. OpenAttempt = NoAttempt /\ OpenAttempt' = a
    BY <1>2, OpenIs, OpenIsNext DEF AppendStarted, InHand, FileInv, FileTypeOK
  <2>3. Ledger!AppendRow(a, q, "STARTED")
    BY <1>2, <2>1, SameAppend DEF AppendStarted, Append
  <2>4. Ledger!BeginProviderAttempt(a, q)
    BY <2>1, <2>2, <2>3, SameGuard DEF Ledger!BeginProviderAttempt, FileInv
  <2> QED
    BY <2>1, <2>4 DEF Ledger!LedgerNext
<1>3. CASE AppendBlocked(w)
  <2>1. /\ a \in AttemptId /\ q \in Qid /\ a \notin DOMAIN file /\ ~CallAllowed(file, q)
    BY <1>3 DEF AppendBlocked, FileInv, ReadIsCurrent, Attempt
  <2>2. OpenAttempt = NoAttempt /\ OpenAttempt' = NoAttempt
    BY <1>3, OpenIs, OpenIsNext DEF AppendBlocked, Leave, InHand, FileInv, FileTypeOK
  <2>3. Ledger!AppendRow(a, q, "PRE_CALL_BLOCKED")
    BY <1>3, <2>1, SameAppend DEF AppendBlocked, Append
  <2>4. Ledger!RefuseProviderAttempt(a, q)
    BY <2>1, <2>2, <2>3, SameGuard DEF Ledger!RefuseProviderAttempt, FileInv
  <2> QED
    BY <2>1, <2>4 DEF Ledger!LedgerNext
<1>4. ASSUME NEW b \in AttemptId, NEW p \in Qid, BlockPrompt(w, b, p)
      PROVE  Ledger!LedgerNext
  <2>1. b \notin DOMAIN file
    BY <1>4 DEF BlockPrompt, IsFresh
  <2>2. OpenAttempt = NoAttempt /\ OpenAttempt' = NoAttempt
    BY <1>4, OpenIs, OpenIsNext DEF BlockPrompt, InHand
  <2>3. Ledger!AppendRow(b, p, "PRE_CALL_BLOCKED")
    BY <1>4, <2>1, SameAppend DEF BlockPrompt
  <2>4. Ledger!RecordPreCallBlocked(b, p)
    BY <2>2, <2>3 DEF Ledger!RecordPreCallBlocked
  <2> QED
    BY <2>4 DEF Ledger!LedgerNext
<1>5. CASE Send(w) \/ WriteTmp(w)
  BY <1>5, OpenIs, OpenIsNext DEF Send, WriteTmp, InHand, FileInv, FileTypeOK
<1>6. ASSUME NEW s, NEW t, ReadForRewrite(w, s, t)
      PROVE  UNCHANGED <<file, OpenAttempt>>
  <2>1. InHand(w) /\ a \in DOMAIN file
    BY <1>6 DEF ReadForRewrite, InHand, FileInv, HandOnFile
  <2>2. InHand(w)' /\ mine'[w].id = a /\ UNCHANGED file
    BY <1>6, <2>1 DEF ReadForRewrite, InHand, FileInv, FileTypeOK
  <2> QED
    BY <2>1, <2>2, OpenIs, OpenIsNext
<1>7. CASE MoveTmp(w)
  <2>1. PICK row \in Outcome(q) : file' = With(file, a, row) /\ row.qid = file[a].qid
    BY <1>7, MoveEffect
  <2>2. a \in DOMAIN file /\ a # NoAttempt
    BY <1>7, MoveEffect DEF Counted
  <2>3. OpenAttempt = a /\ OpenAttempt' = NoAttempt
    BY <1>7, OpenIs, OpenIsNext DEF MoveTmp, Leave, InHand, FileInv, FileTypeOK
  <2>4. ASSUME NEW t \in Tokens, row = [qid |-> q, status |-> "COMPLETED", tokens |-> t]
        PROVE  Ledger!FinalizeCompleted(t)
    <3>1. row = [qid |-> file[a].qid, status |-> "COMPLETED", tokens |-> t]
      BY <2>1, <2>4
    <3>2. Ledger!ReplaceAttempt(a, "COMPLETED", t)
      BY <2>1, <2>2, <3>1, SameReplace
    <3> QED
      BY <2>2, <2>3, <3>2 DEF Ledger!FinalizeCompleted
  <2>5. ASSUME NEW s \in {"ERROR", "TIMEOUT"}, row = [qid |-> q, status |-> s, tokens |-> 0]
        PROVE  Ledger!FinalizeFailed(s)
    <3>1. row = [qid |-> file[a].qid, status |-> s, tokens |-> 0]
      BY <2>1, <2>5
    <3>2. Ledger!ReplaceAttempt(a, s, 0)
      BY <2>1, <2>2, <3>1, SameReplace
    <3> QED
      BY <2>2, <2>3, <3>2 DEF Ledger!FinalizeFailed
  <2> QED
    BY <2>4, <2>5 DEF Outcome, Ledger!LedgerNext
<1>8. CASE Abandon(w)
  <2>1. UNCHANGED file /\ OpenAttempt' = NoAttempt
    BY <1>8, OpenIsNext DEF Abandon, Leave, InHand, FileInv, FileTypeOK
  <2>2. CASE OpenAttempt = NoAttempt
    BY <2>1, <2>2
  <2>3. CASE OpenAttempt # NoAttempt
    BY <2>1, <2>3 DEF Ledger!AbandonAttempt, Ledger!LedgerNext
  <2> QED
    BY <2>2, <2>3
<1> QED
  BY <1>1, <1>2, <1>3, <1>4, <1>5, <1>6, <1>7, <1>8 DEF Step, Rewrite

(* With one process, the file operations implement the ledger, so that     *)
(* every theorem about the ledger holds of the file.                       *)
THEOREM OneProcessImplements == ASSUME NEW w, Proc = {w} PROVE FileSpec => ImplementsLedger
<1>1. FileInit => Ledger!LedgerInit
  <2> SUFFICES ASSUME FileInit PROVE Ledger!LedgerInit
    OBVIOUS
  <2>1. OpenAttempt = NoAttempt
    BY OpenIs DEF FileInit, InHand
  <2> QED
    BY <2>1 DEF FileInit, NoRows, Ledger!LedgerInit
<1>2. FileInv(w) /\ [FileNext]_fileVars => [Ledger!LedgerNext]_<<file, OpenAttempt>>
  <2>1. ASSUME FileInv(w), FileNext PROVE [Ledger!LedgerNext]_<<file, OpenAttempt>>
    BY <2>1, StepImplements DEF FileNext
  <2>2. ASSUME UNCHANGED fileVars PROVE UNCHANGED <<file, OpenAttempt>>
    BY <2>2 DEF fileVars, OpenAttempt, InHand
  <2> QED
    BY <2>1, <2>2
<1> QED
  BY <1>1, <1>2, FileInvariance, PTL
  DEF FileSpec, ImplementsLedger, Ledger!LedgerSpec, Ledger!ledgerVars
=============================================================================
