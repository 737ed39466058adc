------------------------ MODULE RunCheckpointProofs ------------------------
(***************************************************************************)
(* Proofs about RunCheckpoint, for every list of questions, every set of   *)
(* selections, every save_every and every budget.                          *)
(***************************************************************************)
EXTENDS RunCheckpoint, FoldTheorems

\* What is on disk can be saved again; the questions left are different ones.
ListsInv == Unique(ckpt) /\ IsInjective(pending)

\* A run that skips recorded questions has each selected question either in
\* one record or still to do.
SkipInv ==
  run.skip /\ pc # "down" =>
    /\ Unique(results)
    /\ Qids(results) \cap ToSet(pending) = {}
    /\ Qids(results) \cup ToSet(pending) = run.selected

\* Between the two files of a save the first is what is in memory, and so is
\* the second when nothing is left to do.
SavedInv ==
  /\ pc \in {"debugOpen", "debugWrite"} => ckpt = results
  /\ run.skip /\ pc = "loop" /\ pending = <<>> => ckpt = results /\ debug = results

\* What is in memory only was answered since the last save.
LossInv ==
  pc = "loop" => Cardinality(ToSet(results) \ ToSet(ckpt)) <= answered % SaveEvery

\* used_tokens covers the results, and passes the budget by one result at most.
SpendInv ==
  /\ TokenSum(results) <= used
  /\ TokenBudget > 0 =>
       \A t \in Tokens : (\A u \in Tokens : u <= t) =>
         TokenSum(ckpt) < TokenBudget + t /\ used < TokenBudget + t

\* No question with an accepted result is to do, and none of the selected
\* ones that the checkpoint has is missing in memory.
AcceptedInv ==
  /\ \A r \in ToSet(results) : r.state = "accepted" => r.qid \notin ToSet(pending)
  /\ pc # "down" /\ ~run.restart =>
       \A r \in ToSet(ckpt) :
         r.state = "accepted" /\ r.qid \in run.selected => r \in ToSet(results)

DownInv == pc = "down" => /\ results = <<>> /\ pending = <<>> /\ used = 0 /\ run = NoRun

IInv == /\ TypeOK /\ DownInv /\ ListsInv /\ SkipInv /\ SavedInv
        /\ LossInv /\ SpendInv /\ AcceptedInv
-----------------------------------------------------------------------------
(* Lists of records and of questions.                                      *)

TokensIn == [r \in Record |-> r.tokens]

\* sum(int(r.get("tokens")...)) over the records is what they weigh in all, a
\* natural number.
LEMMA TokenSumIsWeight ==
  ASSUME NEW s \in Seq(Record)
  PROVE  TokenSum(s) = Weight(s, TokensIn) /\ TokenSum(s) \in Nat
<1> DEFINE f == [i \in DOMAIN s |-> TokensIn[s[i]]]
           D == DOMAIN s
<1>1. IsFiniteSet(D)
  <2>1. D = 1..Len(s) /\ Len(s) \in Nat
    OBVIOUS
  <2> QED BY <2>1, FS_Interval
<1>2. \A i \in D : f[i] = s[i].tokens /\ f[i] \in Nat
  <2>1. \A i \in D : s[i] \in Record
    OBVIOUS
  <2>2. \A q \in Record : TokensIn[q] = q.tokens /\ q.tokens \in Nat
    BY DEF TokensIn, Record
  <2> QED BY <2>1, <2>2
<1> DEFINE c(d) == CHOOSE i \in d : TRUE
           Body(it) == [d \in SUBSET D |-> IF d = {} THEN 0
                                           ELSE s[c(d)].tokens + it[d \ {c(d)}]]
<1>3. TokenSum(s) = (CHOOSE it : it = Body(it))[D]
  BY DEF TokenSum, MapThenSumSet, MapThenFoldSet
<1>4. PICK jt : Adds(jt, f, D)
  BY <1>1, <1>2, AddsExists
<1>5. jt = Body(jt)
  <2>1. jt = [d \in SUBSET D |-> jt[d]] /\ jt[{}] = 0
    BY <1>4 DEF Adds
  <2>2. \A d \in SUBSET D : d # {} => c(d) \in d
    OBVIOUS
  <2>3. \A d \in SUBSET D : d # {} => jt[d] = f[c(d)] + jt[d \ {c(d)}]
    BY <1>4, <2>2 DEF Adds
  <2>4. \A d \in SUBSET D : d # {} => f[c(d)] = s[c(d)].tokens
    BY <1>2, <2>2
  <2> HIDE DEF c, D, f
  <2> QED BY <2>1, <2>3, <2>4
<1> DEFINE it == CHOOSE kt : kt = Body(kt)
<1>6. it = Body(it)
  <2> HIDE DEF Body
  <2> QED BY <1>5, Zenon
<1>7. Recurs(it, f, D)
  <2>1. \A d \in SUBSET D : d # {} => c(d) \in d
    OBVIOUS
  <2>2. \A d \in SUBSET D : d # {} => f[c(d)] = s[c(d)].tokens
    BY <1>2, <2>1
  <2> HIDE DEF it, f, D, c
  <2>3. it[{}] = 0
    BY <1>6
  <2>4. \A d \in SUBSET D : d # {} => it[d] = f[c(d)] + it[d \ {c(d)}]
    BY <1>6, <2>2
  <2> QED BY <2>1, <2>3, <2>4 DEF Recurs
<1>8. it[D] = Total(f, D) /\ Total(f, D) \in Nat
  <2> HIDE DEF it, f, D
  <2> QED BY <1>1, <1>2, <1>7, TotalOf
<1>9. Weight(s, TokensIn) = Total(f, D)
  BY DEF Weight
<1> HIDE DEF f, D, Body
<1> QED BY <1>3, <1>8, <1>9

\* A list comprehension over records: what it returns, that it keeps one record
\* per question, and that it does not cost more than the whole list.
LEMMA KeepRecords ==
  ASSUME NEW s \in Seq(Record), NEW K
  PROVE  /\ Keep(s, K) \in Seq(Record)
         /\ ToSet(Keep(s, K)) = ToSet(s) \cap K
         /\ Unique(s) => Unique(Keep(s, K))
         /\ TokenSum(Keep(s, K)) <= TokenSum(s)
<1>1. TokensIn \in [Record -> Nat]
  BY DEF TokensIn, Record
<1>2. Keep(s, K) \in Seq(Record) /\ Weight(Keep(s, K), TokensIn) <= Weight(s, TokensIn)
  BY <1>1, KeepPicks
<1>3. TokenSum(Keep(s, K)) <= TokenSum(s)
  BY <1>2, TokenSumIsWeight
<1> QED BY <1>3, KeepUnique

\* The questions left are the chosen ones, each once.
LEMMA KeepQuestions ==
  ASSUME NEW K
  PROVE  /\ Keep(Order, K) \in Seq(Qid) /\ IsInjective(Keep(Order, K))
         /\ ToSet(Keep(Order, K)) = Qid \cap K
BY KeepUnique, CheckpointAssumption

\* results.append(...): the new record, its question and its tokens are added.
LEMMA AppendRecord ==
  ASSUME NEW s \in Seq(Record), NEW r \in Record
  PROVE  /\ Append(s, r) \in Seq(Record)
         /\ ToSet(Append(s, r)) = ToSet(s) \cup {r}
         /\ Unique(s) /\ r.qid \notin Qids(s) => Unique(Append(s, r))
         /\ TokenSum(Append(s, r)) = TokenSum(s) + r.tokens
<1>1. /\ Append(s, r) \in Seq(Record) /\ ToSet(Append(s, r)) = ToSet(s) \cup {r}
      /\ Unique(s) /\ (\A o \in ToSet(s) : o.qid # r.qid) => Unique(Append(s, r))
  BY AppendUnique
<1>2. TokensIn \in [Record -> Nat] /\ TokensIn[r] = r.tokens
  BY DEF TokensIn, Record
<1>3. Weight(Append(s, r), TokensIn) = Weight(s, TokensIn) + TokensIn[r]
  BY <1>2, WeightAppend
<1>4. TokenSum(Append(s, r)) = TokenSum(s) + r.tokens
  BY <1>1, <1>2, <1>3, TokenSumIsWeight
<1> QED BY <1>1, <1>4 DEF Qids

\* The next question leaves the list of those left, and does not come again.
LEMMA TailQuestions ==
  ASSUME NEW s \in Seq(Qid), s # <<>>, IsInjective(s)
  PROVE  /\ Head(s) \in Qid /\ Tail(s) \in Seq(Qid) /\ IsInjective(Tail(s))
         /\ Head(s) \in ToSet(s) /\ ToSet(Tail(s)) = ToSet(s) \ {Head(s)}
<1> DEFINE t == Tail(s)
<1>1. /\ Len(s) \in Nat \ {0} /\ DOMAIN s = 1..Len(s) /\ Head(s) = s[1]
      /\ t \in Seq(Qid) /\ DOMAIN t = 1..(Len(s) - 1)
      /\ \A i \in DOMAIN t : t[i] = s[i + 1]
  OBVIOUS
<1>2. 1 \in DOMAIN s /\ \A i \in DOMAIN t : i + 1 \in DOMAIN s /\ i + 1 # 1
  BY <1>1
<1>3. \A i \in DOMAIN s : i # 1 => i - 1 \in DOMAIN t /\ (i - 1) + 1 = i
  BY <1>1
<1>4. \A i, j \in DOMAIN t : i + 1 = j + 1 => i = j
  BY <1>1
<1> HIDE DEF t
<1>5. IsInjective(t)
  BY <1>1, <1>2, <1>4 DEF IsInjective
<1>6. ToSet(t) = ToSet(s) \ {s[1]}
  <2>1. \A i \in DOMAIN t : t[i] \in ToSet(s) /\ t[i] # s[1]
    BY <1>1, <1>2 DEF ToSet, IsInjective
  <2>2. \A i \in DOMAIN s : s[i] # s[1] => t[i - 1] = s[i] /\ i - 1 \in DOMAIN t
    BY <1>1, <1>3
  <2> QED BY <2>1, <2>2 DEF ToSet
<1>7. s[1] \in Qid /\ s[1] \in ToSet(s)
  BY <1>1, <1>2 DEF ToSet
<1> QED BY <1>1, <1>5, <1>6, <1>7 DEF t

\* authoritative_records refuses exactly the lists with two records of a question.
LEMMA OneRecordEach ==
  ASSUME NEW s \in Seq(Record)
  PROVE  IsFiniteSet(Qids(s)) /\ (Ambiguous(s) <=> ~Unique(s))
BY UniqueCount DEF Qids, Ambiguous
-----------------------------------------------------------------------------
(* The inductive invariant                                                 *)

\* completed_this_run % save_every goes up by one until it is 0 again.
LEMMA NextRemainder ==
  ASSUME NEW n \in Nat, NEW k \in Nat \ {0}, (n + 1) % k # 0
  PROVE  n % k \in Nat /\ 0 % k = 0 /\ (n + 1) % k = (n % k) + 1
<1> DEFINE r == n % k
           q == n \div k
           s == (n + 1) % k
           p == (n + 1) \div k
<1>1. r \in 0..(k - 1) /\ s \in 0..(k - 1) /\ q \in Int /\ p \in Int
  OBVIOUS
<1>2. n = k * q + r
  OBVIOUS
<1>3. n + 1 = k * p + s
  OBVIOUS
<1>4. s # 0
  OBVIOUS
<1>5. 0 % k = 0
  OBVIOUS
<1> HIDE DEF r, q, s, p
<1>6. k * (p - q) = r + 1 - s
  <2>1. k * (p - q) = k * p - k * q /\ k * p \in Int /\ k * q \in Int
    BY <1>1
  <2> QED BY <2>1, <1>1, <1>2, <1>3
<1>7. -k < r + 1 - s /\ r + 1 - s < k
  BY <1>1, <1>4
<1>8. p - q <= 0
  <2>1. p - q > 0 => k * (p - q) >= k
    BY <1>1
  <2> QED BY <2>1, <1>1, <1>6, <1>7
<1>9. p - q >= 0
  <2>1. p - q < 0 => k * (p - q) <= -k
    BY <1>1
  <2> QED BY <2>1, <1>1, <1>6, <1>7
<1>10. s = r + 1
  <2>1. p - q = 0
    BY <1>1, <1>8, <1>9
  <2>2. k * 0 = 0
    OBVIOUS
  <2> QED BY <2>1, <2>2, <1>1, <1>6
<1> QED BY <1>1, <1>5, <1>10 DEF r, s

\* What holds of no records and of no questions.
LEMMA EmptyLists ==
  /\ <<>> \in Seq(Record) /\ <<>> \in Seq(Qid) /\ ToSet(<<>>) = {} /\ Qids(<<>>) = {}
  /\ TokenSum(<<>>) = 0 /\ Unique(<<>>) /\ IsInjective(<<>>)
<1>1. <<>> \in Seq(Record) /\ <<>> \in Seq(Qid) /\ DOMAIN <<>> = {}
  OBVIOUS
<1>2. TokenSum(<<>>) = 0
  BY <1>1, TokenSumIsWeight, WeightEmpty
<1>3. ToSet(<<>>) = {} /\ Qids(<<>>) = {}
  BY <1>1 DEF ToSet, Qids
<1> QED BY <1>1, <1>2, <1>3 DEF Unique, IsInjective

\* Before the first run the invariant holds.
LEMMA InitInv == Init => IInv
<1> SUFFICES ASSUME Init PROVE IInv
  OBVIOUS
<1>1. TypeOK
  BY EmptyLists DEF Init, TypeOK, NoRun
<1>2. SpendInv
  BY EmptyLists, CheckpointAssumption DEF Init, SpendInv
<1>3. DownInv /\ ListsInv /\ SkipInv /\ SavedInv /\ LossInv /\ AcceptedInv
  BY EmptyLists DEF Init, DownInv, ListsInv, SkipInv, SavedInv, LossInv, AcceptedInv
<1> QED BY <1>1, <1>2, <1>3 DEF IInv

\* A run that ends, by itself or by a crash, leaves an invariant state, also with
\* a torn debug file.
LEMMA StoppedStep ==
  ASSUME IInv, Stopped, UNCHANGED ckpt, debug' \in {debug, results, Torn}
  PROVE  IInv'
<1> USE DEF IInv
<1>1. TypeOK'
  BY EmptyLists DEF Stopped, TypeOK, NoRun
<1>2. SpendInv'
  <2>1. TokenSum(results') = 0 /\ used' = 0 /\ TokenSum(ckpt') = TokenSum(ckpt)
    BY EmptyLists DEF Stopped
  <2> QED BY <2>1, CheckpointAssumption DEF SpendInv
<1>3. (DownInv /\ ListsInv /\ SkipInv /\ SavedInv /\ LossInv /\ AcceptedInv)'
  BY EmptyLists DEF Stopped, DownInv, ListsInv, SkipInv, SavedInv, LossInv, AcceptedInv
<1> QED BY <1>1, <1>2, <1>3

\* A stop that first saves what it has (budget reached, other exceptions).
LEMMA PauseStep ==
  ASSUME IInv, pc = "loop", UNCHANGED files, StopWithResults
  PROVE  IInv'
<1>1. CASE results = <<>>
  BY <1>1, StoppedStep DEF StopWithResults, files
<1>2. CASE results # <<>>
  <2> USE <1>2 DEF IInv, StopWithResults, files
  <2>1. TypeOK'
    BY DEF TypeOK
  <2>2. (DownInv /\ ListsInv /\ SkipInv /\ SavedInv /\ LossInv)'
    BY DEF DownInv, ListsInv, SkipInv, SavedInv, LossInv
  <2>3. (SpendInv /\ AcceptedInv)'
    BY DEF SpendInv, AcceptedInv
  <2> QED BY <2>1, <2>2, <2>3
<1> QED BY <1>1, <1>2

\* save_checkpoint: refused, or the checkpoint is what is in memory.
LEMMA SaveStep == ASSUME IInv, SaveCheckpoint PROVE IInv'
<1>1. CASE Ambiguous(results)
  BY <1>1, StoppedStep DEF SaveCheckpoint
<1>2. CASE ~Ambiguous(results)
  <2> USE <1>2 DEF IInv, SaveCheckpoint, memory
  <2>1. TypeOK'
    BY DEF TypeOK
  <2>2. ListsInv'
    BY OneRecordEach DEF ListsInv, TypeOK
  <2>3. (DownInv /\ SkipInv /\ SavedInv /\ LossInv)'
    BY DEF DownInv, SkipInv, SavedInv, LossInv
  <2>4. SpendInv'
    <3>1. TokenSum(results) \in Nat /\ used \in Nat
      BY TokenSumIsWeight DEF TypeOK
    <3> QED BY <3>1, CheckpointAssumption DEF SpendInv
  <2>5. AcceptedInv'
    BY DEF AcceptedInv
  <2> QED BY <2>1, <2>2, <2>3, <2>4, <2>5
<1> QED BY <1>1, <1>2

\* The debug file is truncated, then written.
LEMMA DebugStep == ASSUME IInv, OpenDebug \/ WriteDebug PROVE IInv'
<1>1. CASE OpenDebug
  <2> USE <1>1 DEF IInv, OpenDebug, memory
  <2>1. TypeOK'
    BY DEF TypeOK
  <2>2. (DownInv /\ ListsInv /\ SkipInv /\ SavedInv /\ LossInv)'
    BY DEF DownInv, ListsInv, SkipInv, SavedInv, LossInv
  <2>3. (SpendInv /\ AcceptedInv)'
    BY DEF SpendInv, AcceptedInv
  <2> QED BY <2>1, <2>2, <2>3
<1>2. CASE WriteDebug /\ after = "down"
  BY <1>2, StoppedStep DEF WriteDebug
<1>3. CASE WriteDebug /\ after # "down"
  <2> USE <1>3 DEF IInv, WriteDebug, memory
  <2>1. TypeOK' /\ pc' = "loop" /\ ckpt = results
    BY DEF TypeOK, SavedInv
  <2>2. (DownInv /\ ListsInv /\ SkipInv /\ SavedInv)'
    BY <2>1 DEF DownInv, ListsInv, SkipInv, SavedInv
  <2>3. LossInv'
    <3>1. ToSet(results) \ ToSet(ckpt) = {}
      BY <2>1
    <3>2. Cardinality({}) = 0
      BY FS_EmptySet
    <3>3. answered % SaveEvery \in Nat
      BY CheckpointAssumption DEF TypeOK
    <3> QED BY <3>1, <3>2, <3>3 DEF LossInv
  <2>4. (SpendInv /\ AcceptedInv)'
    BY <2>1 DEF SpendInv, AcceptedInv
  <2> QED BY <2>1, <2>2, <2>3, <2>4
<1> QED BY <1>1, <1>2, <1>3

\* Load, filter by selection, and list the questions left.
LEMMA StartStep ==
  ASSUME IInv, NEW selected \in Selections, NEW restart \in Restart,
         NEW skip \in SkipRecorded, NEW cont \in Continue,
         Start(selected, restart, skip, cont)
  PROVE  IInv'
<1> DEFINE loaded == IF restart THEN <<>>
                     ELSE Keep(ckpt, {r \in ToSet(ckpt) : r.qid \in selected})
           todo == Keep(Order, selected \ Completed(loaded, skip))
<1>1. /\ loaded \in Seq(Record) /\ Unique(loaded)
      /\ ToSet(loaded) = IF restart THEN {} ELSE {r \in ToSet(ckpt) : r.qid \in selected}
      /\ TokenSum(loaded) \in Nat /\ TokenSum(loaded) <= TokenSum(ckpt)
  <2>1. ckpt \in Seq(Record) /\ Unique(ckpt)
    BY DEF IInv, TypeOK, ListsInv
  <2>2. TokenSum(ckpt) \in Nat
    BY <2>1, TokenSumIsWeight
  <2>3. CASE restart
    BY <2>2, <2>3, EmptyLists
  <2>4. CASE ~restart
    <3> DEFINE K == {r \in ToSet(ckpt) : r.qid \in selected}
    <3>1. loaded = Keep(ckpt, K) /\ ToSet(ckpt) \cap K = K
      BY <2>4
    <3> HIDE DEF loaded
    <3>2. loaded \in Seq(Record) /\ Unique(loaded) /\ ToSet(loaded) = ToSet(ckpt) \cap K
          /\ TokenSum(loaded) <= TokenSum(ckpt)
      BY <2>1, <3>1, KeepRecords
    <3> QED BY <2>4, <3>1, <3>2, TokenSumIsWeight
  <2> QED BY <2>3, <2>4
<1>2. /\ todo \in Seq(Qid) /\ IsInjective(todo)
      /\ ToSet(todo) = selected \ Completed(loaded, skip)
      /\ selected \subseteq Qid
  <2>1. selected \subseteq Qid
    BY CheckpointAssumption
  <2> HIDE DEF loaded
  <2> QED BY <2>1, KeepQuestions
<1>3. /\ run' = [selected |-> selected, restart |-> restart, skip |-> skip, continue |-> cont]
      /\ results' = loaded /\ pending' = todo /\ used' = TokenSum(loaded) /\ answered' = 0
      /\ after' = (IF todo = <<>> THEN "down" ELSE "loop")
      /\ pc' = (IF todo = <<>> THEN "save" ELSE "loop")
      /\ ckpt' = ckpt /\ debug' = debug
  BY DEF Start, files
<1> HIDE DEF loaded, todo
<1>4. TypeOK'
  BY <1>1, <1>2, <1>3, CheckpointAssumption DEF IInv, TypeOK
<1>5. DownInv' /\ SavedInv'
  BY <1>3 DEF DownInv, SavedInv
<1>6. ListsInv'
  BY <1>2, <1>3 DEF IInv, ListsInv
<1>7. SkipInv'
  <2> SUFFICES ASSUME skip
               PROVE  /\ Unique(loaded) /\ Qids(loaded) \cap ToSet(todo) = {}
                      /\ Qids(loaded) \cup ToSet(todo) = selected
    BY <1>3 DEF SkipInv
  <2>1. Completed(loaded, skip) = Qids(loaded) /\ Qids(loaded) \subseteq selected
    BY <1>1 DEF Completed, Qids
  <2> QED BY <1>1, <1>2, <2>1
<1>8. LossInv'
  <2>1. ToSet(loaded) \ ToSet(ckpt) = {} /\ Cardinality({}) = 0
    BY <1>1, FS_EmptySet
  <2>2. 0 % SaveEvery = 0
    BY CheckpointAssumption
  <2>3. Cardinality(ToSet(results') \ ToSet(ckpt')) = 0 /\ answered' % SaveEvery = 0
    BY <1>3, <2>1, <2>2
  <2> QED BY <2>3 DEF LossInv
<1>9. SpendInv'
  <2>1. TokenSum(ckpt) \in Nat
    BY TokenSumIsWeight DEF IInv, TypeOK
  <2> QED BY <1>1, <1>3, <2>1, CheckpointAssumption DEF IInv, SpendInv
<1>10. AcceptedInv'
  <2>1. ASSUME NEW r \in ToSet(loaded), r.state = "accepted" PROVE r.qid \notin ToSet(todo)
    BY <1>2, <2>1 DEF Completed
  <2> QED BY <1>1, <1>3, <2>1 DEF AcceptedInv
<1> QED BY <1>4, <1>5, <1>6, <1>7, <1>8, <1>9, <1>10 DEF IInv

\* A result is appended, and the save is due or not.
LEMMA AnswerStep ==
  ASSUME IInv, NEW state \in {"accepted", "fallback"}, NEW t \in Tokens, Answer(state, t)
  PROVE  IInv'
<1> DEFINE q == Head(pending)
           r == [qid |-> q, state |-> state, tokens |-> t]
<1>1. /\ results \in Seq(Record) /\ pending \in Seq(Qid) /\ used \in Nat /\ answered \in Nat
      /\ pc = "loop" /\ pending # <<>> /\ ~BudgetReached /\ t \in Nat /\ IsInjective(pending)
  BY CheckpointAssumption DEF IInv, TypeOK, ListsInv, Answer, Solving
<1>2. /\ q \in Qid /\ q \in ToSet(pending)
      /\ Tail(pending) \in Seq(Qid) /\ IsInjective(Tail(pending))
      /\ ToSet(Tail(pending)) = ToSet(pending) \ {q}
  BY <1>1, TailQuestions
<1>3. /\ results' = Append(results, r) /\ pending' = Tail(pending)
      /\ used' = used + t /\ answered' = answered + 1 /\ after' = "loop"
      /\ pc' = (IF answered' % SaveEvery = 0 \/ Len(results') = Cardinality(run.selected)
                  THEN "save" ELSE "loop")
      /\ ckpt' = ckpt /\ debug' = debug /\ run' = run
  BY DEF Answer, files
<1>4. r \in Record /\ r.qid = q /\ r.tokens = t
  BY <1>1, <1>2 DEF Record
<1> HIDE DEF q, r
<1>5. /\ results' \in Seq(Record) /\ ToSet(results') = ToSet(results) \cup {r}
      /\ Unique(results) /\ q \notin Qids(results) => Unique(results')
      /\ TokenSum(results') = TokenSum(results) + t
  BY <1>1, <1>3, <1>4, AppendRecord
<1>6. TypeOK'
  BY <1>1, <1>2, <1>3, <1>5 DEF IInv, TypeOK
<1>7. DownInv' /\ ListsInv'
  BY <1>2, <1>3 DEF IInv, DownInv, ListsInv
<1>8. ASSUME run.skip
      PROVE  /\ Unique(results')
             /\ Qids(results') \cap ToSet(pending') = {}
             /\ Qids(results') \cup ToSet(pending') = run.selected
  <2>1. /\ Unique(results) /\ Qids(results) \cap ToSet(pending) = {}
        /\ Qids(results) \cup ToSet(pending) = run.selected
    BY <1>1, <1>8 DEF IInv, SkipInv
  <2>2. Qids(results') = Qids(results) \cup {q}
    BY <1>4, <1>5 DEF Qids
  <2> QED BY <1>2, <1>3, <1>5, <2>1, <2>2
<1>9. SkipInv'
  BY <1>3, <1>8 DEF SkipInv
<1>10. SavedInv'
  <2>1. pc' = "save" \/ ~run.skip \/ pending' # <<>>
    <3> SUFFICES ASSUME run.skip, pending' = <<>> PROVE pc' = "save"
      OBVIOUS
    <3>1. Qids(results') = run.selected /\ Unique(results')
      BY <1>8, EmptyLists
    <3>2. Cardinality(run.selected) = Len(results')
      BY <1>5, <3>1, OneRecordEach DEF Ambiguous
    <3> QED BY <1>3, <3>2
  <2> QED BY <1>3, <2>1 DEF SavedInv
<1>11. LossInv'
  <2> SUFFICES ASSUME pc' = "loop"
               PROVE  Cardinality(ToSet(results') \ ToSet(ckpt)) <= answered' % SaveEvery
    BY <1>3 DEF LossInv
  <2> DEFINE new == ToSet(results) \ ToSet(ckpt)
             N == Cardinality(new)
  <2>1. N <= answered % SaveEvery
    BY <1>1 DEF IInv, LossInv
  <2>2. answered % SaveEvery \in Nat /\ answered' % SaveEvery = (answered % SaveEvery) + 1
    <3>1. answered' % SaveEvery # 0 /\ SaveEvery \in Nat \ {0}
      BY <1>3, CheckpointAssumption
    <3> QED BY <1>1, <1>3, <3>1, NextRemainder
  <2>3. IsFiniteSet(new) /\ IsFiniteSet(new \cup {r}) /\ N \in Nat
        /\ Cardinality(new \cup {r}) <= N + 1 /\ Cardinality(new \cup {r}) \in Nat
    <3>1. IsFiniteSet(new)
      BY <1>1, FiniteList, FS_Subset
    <3> HIDE DEF new
    <3>2. IsFiniteSet(new \cup {r}) /\ N \in Nat
          /\ Cardinality(new \cup {r}) = (IF r \in new THEN N ELSE N + 1)
      BY <3>1, FS_AddElement, FS_CardinalityType
    <3> HIDE DEF N
    <3> QED BY <3>1, <3>2
  <2>4. ToSet(results') \ ToSet(ckpt) \subseteq new \cup {r}
    BY <1>5
  <2> HIDE DEF new
  <2>5. Cardinality(ToSet(results') \ ToSet(ckpt)) \in Nat
        /\ Cardinality(ToSet(results') \ ToSet(ckpt)) <= Cardinality(new \cup {r})
    BY <2>3, <2>4, FS_Subset, FS_CardinalityType
  <2> HIDE DEF N
  <2> QED BY <2>1, <2>2, <2>3, <2>5
<1>12. SpendInv'
  <2>1. TokenSum(results) \in Nat /\ TokenSum(results) <= used
    BY <1>1, TokenSumIsWeight DEF IInv, SpendInv
  <2>2. TokenSum(results') <= used'
    BY <1>1, <1>3, <1>5, <2>1
  <2>3. ASSUME TokenBudget > 0, NEW u \in Tokens, \A v \in Tokens : v <= u
        PROVE  TokenSum(ckpt) < TokenBudget + u /\ used' < TokenBudget + u
    <3>1. used < TokenBudget /\ t <= u /\ u \in Nat /\ TokenBudget \in Nat
      BY <1>1, <2>3, CheckpointAssumption DEF BudgetReached
    <3>2. TokenSum(ckpt) < TokenBudget + u
      BY <2>3 DEF IInv, SpendInv
    <3> QED BY <1>1, <1>3, <3>1, <3>2
  <2> QED BY <1>3, <2>2, <2>3 DEF SpendInv
<1>13. AcceptedInv'
  <2>1. ASSUME NEW o \in ToSet(results'), o.state = "accepted"
        PROVE  o.qid \notin ToSet(pending')
    BY <1>2, <1>3, <1>4, <1>5, <2>1 DEF IInv, AcceptedInv
  <2>2. ASSUME ~run.restart, NEW o \in ToSet(ckpt), o.state = "accepted",
               o.qid \in run.selected
        PROVE  o \in ToSet(results')
    BY <1>1, <1>5, <2>2 DEF IInv, AcceptedInv
  <2> QED BY <1>3, <2>1, <2>2 DEF AcceptedInv
<1> QED BY <1>6, <1>7, <1>9, <1>10, <1>11, <1>12, <1>13 DEF IInv

\* A blocking error replaces the question's record by a failed one.
LEMMA BlockStep == ASSUME IInv, Block PROVE IInv'
<1> DEFINE q == Head(pending)
           r == [qid |-> q, state |-> "failed", tokens |-> 0]
           K == {o \in ToSet(results) : o.qid # q}
           w == Without(results, q)
<1>1. /\ results \in Seq(Record) /\ pending \in Seq(Qid) /\ used \in Nat
      /\ pc = "loop" /\ pending # <<>> /\ IsInjective(pending)
  BY DEF IInv, TypeOK, ListsInv, Block, Solving
<1>2. /\ q \in Qid /\ q \in ToSet(pending)
      /\ Tail(pending) \in Seq(Qid) /\ IsInjective(Tail(pending))
      /\ ToSet(Tail(pending)) = ToSet(pending) \ {q}
  BY <1>1, TailQuestions
<1>3. /\ results' = Append(w, r) /\ pending' = Tail(pending)
      /\ after' = (IF run.continue THEN "loop" ELSE "down") /\ pc' = "save"
      /\ ckpt' = ckpt /\ debug' = debug /\ run' = run /\ used' = used /\ answered' = answered
  BY DEF Block, files
<1>4. r \in Record /\ r.qid = q /\ r.tokens = 0 /\ r.state = "failed"
  BY <1>2 DEF Record
<1>5. /\ w \in Seq(Record) /\ ToSet(w) = K
      /\ Unique(results) => Unique(w)
      /\ TokenSum(w) <= TokenSum(results)
  <2>1. w = Keep(results, K) /\ ToSet(results) \cap K = K
    BY DEF Without
  <2> HIDE DEF K, w
  <2> QED BY <1>1, <2>1, KeepRecords
<1>6. \A o \in ToSet(w) : o \in ToSet(results) /\ o.qid # q
  BY <1>5
<1>7. q \notin Qids(w)
  BY <1>6 DEF Qids
<1> HIDE DEF q, r, w
<1>8. /\ results' \in Seq(Record) /\ ToSet(results') = ToSet(w) \cup {r}
      /\ Unique(results) => Unique(results')
      /\ TokenSum(results') = TokenSum(w) + 0
  BY <1>3, <1>4, <1>5, <1>7, AppendRecord
<1>9. TypeOK'
  BY <1>1, <1>2, <1>3, <1>8 DEF IInv, TypeOK
<1>10. (DownInv /\ ListsInv /\ SavedInv /\ LossInv)'
  BY <1>2, <1>3 DEF IInv, DownInv, ListsInv, SavedInv, LossInv
<1>11. SkipInv'
  <2> SUFFICES ASSUME run.skip
               PROVE  /\ Unique(results')
                      /\ Qids(results') \cap ToSet(pending') = {}
                      /\ Qids(results') \cup ToSet(pending') = run.selected
    BY <1>3 DEF SkipInv
  <2>1. /\ Unique(results) /\ Qids(results) \cap ToSet(pending) = {}
        /\ Qids(results) \cup ToSet(pending) = run.selected
    BY <1>1 DEF IInv, SkipInv
  <2>2. Qids(results') = Qids(results) \cup {q}
    BY <1>4, <1>5, <1>8 DEF Qids
  <2> QED BY <1>2, <1>3, <1>8, <2>1, <2>2
<1>12. SpendInv'
  <2>1. TokenSum(w) \in Nat /\ TokenSum(results) \in Nat /\ TokenSum(results) <= used
    BY <1>1, <1>5, TokenSumIsWeight DEF IInv, SpendInv
  <2>2. TokenSum(results') <= used'
    BY <1>1, <1>3, <1>5, <1>8, <2>1
  <2> QED BY <1>3, <2>2 DEF IInv, SpendInv
<1>13. AcceptedInv'
  <2>1. ASSUME NEW o \in ToSet(results'), o.state = "accepted"
        PROVE  o.qid \notin ToSet(pending')
    BY <1>2, <1>3, <1>4, <1>6, <1>8, <2>1 DEF IInv, AcceptedInv
  <2>2. ASSUME ~run.restart, NEW o \in ToSet(ckpt), o.state = "accepted",
               o.qid \in run.selected
        PROVE  o \in ToSet(results')
    <3>1. o \in ToSet(results) /\ o.qid \notin ToSet(pending)
      BY <1>1, <2>2 DEF IInv, AcceptedInv
    <3> QED BY <1>2, <1>5, <1>8, <3>1
  <2> QED BY <1>3, <2>1, <2>2 DEF AcceptedInv
<1> QED BY <1>9, <1>10, <1>11, <1>12, <1>13 DEF IInv

\* Every step of run.py, a crash among them, keeps the invariant.
LEMMA NextInv == ASSUME IInv, [Next]_vars PROVE IInv'
<1>1. ASSUME NEW selected \in Selections, NEW restart \in Restart,
             NEW skip \in SkipRecorded, NEW cont \in Continue,
             Start(selected, restart, skip, cont)
      PROVE  IInv'
  BY <1>1, StartStep
<1>2. ASSUME NEW state \in {"accepted", "fallback"}, NEW t \in Tokens, Answer(state, t)
      PROVE  IInv'
  BY <1>2, AnswerStep
<1>3. CASE Block
  BY <1>3, BlockStep
<1>4. CASE Fail \/ StopAtBudget
  BY <1>4, PauseStep DEF Fail, StopAtBudget, Solving
<1>5. CASE SaveCheckpoint
  BY <1>5, SaveStep
<1>6. CASE OpenDebug \/ WriteDebug
  BY <1>6, DebugStep
<1>7. CASE Finish \/ Crash
  BY <1>7, StoppedStep DEF Finish, Crash, files
<1>8. CASE UNCHANGED vars
  <2> USE <1>8 DEF vars, files, memory, IInv
  <2>1. (TypeOK /\ DownInv /\ ListsInv /\ SkipInv /\ SavedInv)'
    BY DEF TypeOK, DownInv, ListsInv, SkipInv, SavedInv
  <2>2. (LossInv /\ SpendInv /\ AcceptedInv)'
    BY DEF LossInv, SpendInv, AcceptedInv
  <2> QED BY <2>1, <2>2
<1> QED BY <1>1, <1>2, <1>3, <1>4, <1>5, <1>6, <1>7, <1>8 DEF Next, Step, Solve

\* The invariant holds throughout, over every sequence of runs.
LEMMA Invariant == Spec => []IInv
BY InitInv, NextInv, PTL DEF Spec
-----------------------------------------------------------------------------
\* Every variable keeps its type, in every run of run.py over the checkpoint.
THEOREM TypeCorrect == Spec => []TypeOK
<1>1. IInv => TypeOK
  BY DEF IInv
<1> QED BY <1>1, Invariant, PTL

\* No save of a run with --skip-recorded-on-resume is refused as ambiguous,
\* whichever runs, with or without the option, wrote the checkpoint before it.
THEOREM SkippingRunsSave == Spec => []SkippingRunsCanSave
<1>1. IInv => SkippingRunsCanSave
  BY OneRecordEach
     DEF IInv, TypeOK, SkipInv, SkippingRunsCanSave, SavesAreUnambiguous
<1> QED BY <1>1, Invariant, PTL

\* A crash between two questions loses fewer than save_every results.
THEOREM CrashLossBounded == Spec => []CrashLosesFewResults
<1>1. ASSUME IInv PROVE CrashLosesFewResults
  <2> SUFFICES ASSUME pc = "loop"
               PROVE  Cardinality(ToSet(results) \ ToSet(ckpt)) < SaveEvery
    BY DEF CrashLosesFewResults
  <2>1. Cardinality(ToSet(results) \ ToSet(ckpt)) <= answered % SaveEvery
    BY <1>1 DEF IInv, LossInv
  <2>2. IsFiniteSet(ToSet(results) \ ToSet(ckpt))
    BY <1>1, FiniteList, FS_Subset DEF IInv, TypeOK
  <2>3. Cardinality(ToSet(results) \ ToSet(ckpt)) \in Nat
    BY <2>2, FS_CardinalityType
  <2>4. answered % SaveEvery \in 0..(SaveEvery - 1) /\ SaveEvery \in Nat
    BY <1>1, CheckpointAssumption DEF IInv, TypeOK
  <2> QED BY <2>1, <2>3, <2>4
<1> QED BY <1>1, Invariant, PTL

\* What the checkpoint's records cost stays below LLM_TOKEN_BUDGET plus the
\* largest result, over any number of runs that resume from it.
THEOREM CheckpointSpend == Spec => []CheckpointSpendBounded
<1>1. IInv => CheckpointSpendBounded
  BY DEF IInv, SpendInv, CheckpointSpendBounded
<1> QED BY <1>1, Invariant, PTL

\* A run that skips recorded questions and has none left has everything in both
\* files, also when save_every does not divide what it answered.
THEOREM FilesMatch == Spec => []DebugMatchesCheckpoint
<1>1. IInv => DebugMatchesCheckpoint
  BY DEF IInv, SavedInv, DebugMatchesCheckpoint
<1> QED BY <1>1, Invariant, PTL

\* A save of a run that does not restart never drops an accepted record of a
\* question the run selects.
THEOREM AcceptedKept == Spec => ResumeKeepsAccepted
<1>1. ASSUME IInv, [Next]_vars
      PROVE  [\A r \in ToSet(ckpt) :
                r.state = "accepted" /\ r.qid \in run.selected /\ ~run.restart
                  => r \in ToSet(ckpt')]_vars
  <2>1. ckpt' = ckpt \/ (pc = "save" /\ ckpt' = results)
    BY <1>1 DEF Next, Step, Solve, Start, StopAtBudget, Answer, Block, Fail, SaveCheckpoint,
                OpenDebug, WriteDebug, Finish, Crash, vars, files
  <2> QED BY <1>1, <2>1 DEF IInv, AcceptedInv
<1> QED BY <1>1, Invariant, PTL DEF Spec, ResumeKeepsAccepted
-----------------------------------------------------------------------------
(* The safety half of RunEnds: whatever a run does brings its end nearer.  *)

\* How many steps a run has left at most: of the save it is in, and then five
\* for each question it goes on to and the last one.
SaveSteps == CASE pc = "save" -> 3 [] pc = "debugOpen" -> 2 [] pc = "debugWrite" -> 1 [] OTHER -> 0
LoopSteps == IF pc = "loop" \/ after = "loop" THEN 5 * Len(pending) + 1 ELSE 0
StepsLeft == IF pc = "down" THEN 0 ELSE SaveSteps + LoopSteps

\* A run that is on comes nearer to its end with every step.
RunAdvances == [][pc # "down" => StepsLeft' < StepsLeft]_vars

\* A run has a number of steps left, and is over when there are none.
LEMMA StepsLeftNat ==
  ASSUME TypeOK
  PROVE  /\ SaveSteps \in Nat /\ LoopSteps \in Nat /\ StepsLeft \in Nat
         /\ StepsLeft = 0 <=> pc = "down"
<1>1. Len(pending) \in Nat /\ pc \in {"down", "loop", "save", "debugOpen", "debugWrite"}
  BY DEF TypeOK
<1>2. SaveSteps \in 0..3 /\ (pc \in {"save", "debugOpen", "debugWrite"} => SaveSteps # 0)
  BY <1>1 DEF SaveSteps
<1>3. LoopSteps \in Nat /\ (pc = "loop" => LoopSteps # 0)
  BY <1>1 DEF LoopSteps
<1>4. pc = "down" => StepsLeft = 0
  BY DEF StepsLeft
<1>5. pc # "down" => StepsLeft = SaveSteps + LoopSteps
  BY DEF StepsLeft
<1> QED BY <1>1, <1>2, <1>3, <1>4, <1>5

\* A step that ends the run leaves nothing to do.
LEMMA StoppedShrinks ==
  ASSUME TypeOK, pc # "down", Stopped
  PROVE  StepsLeft' < StepsLeft
<1>1. StepsLeft \in Nat /\ StepsLeft # 0
  BY StepsLeftNat
<1>2. StepsLeft' = 0
  BY DEF Stopped, StepsLeft
<1> QED BY <1>1, <1>2

\* A question taken off the list is five steps less, a save three more.
LEMMA TakenShrinks ==
  ASSUME TypeOK, pc = "loop", pending # <<>>,
         pending' = Tail(pending) \/ after' = "down", after' \in {"loop", "down"},
         pc' = "save" \/ (pc' = "loop" /\ after' = "loop")
  PROVE  StepsLeft' < StepsLeft
<1>1. Len(pending) \in Nat /\ Len(pending) # 0 /\ Len(Tail(pending)) = Len(pending) - 1
  BY DEF TypeOK
<1>2. SaveSteps = 0 /\ LoopSteps = 5 * Len(pending) + 1
  BY DEF SaveSteps, LoopSteps
<1>3. SaveSteps' \in {0, 3} /\ StepsLeft' = SaveSteps' + LoopSteps' /\ StepsLeft = SaveSteps + LoopSteps
  BY DEF SaveSteps, StepsLeft
<1>4. CASE after' = "down" /\ pc' = "save"
  <2>1. LoopSteps' = 0
    BY <1>4 DEF LoopSteps
  <2> QED BY <1>1, <1>2, <1>3, <2>1
<1>5. CASE after' = "loop" /\ pending' = Tail(pending)
  <2>1. LoopSteps' = 5 * (Len(pending) - 1) + 1
    BY <1>1, <1>5 DEF LoopSteps
  <2> QED BY <1>1, <1>2, <1>3, <2>1
<1> QED BY <1>4, <1>5

\* Every step of a run that is on brings its end nearer, crashes included.
LEMMA StepShrinks == TypeOK /\ [Next]_vars /\ pc # "down" => StepsLeft' < StepsLeft \/ UNCHANGED vars
<1> SUFFICES ASSUME TypeOK, Next, pc # "down" PROVE StepsLeft' < StepsLeft
  OBVIOUS
<1>1. Len(pending) \in Nat /\ after \in {"loop", "down"}
  BY DEF TypeOK
<1>2. ASSUME NEW state \in {"accepted", "fallback"}, NEW t \in Tokens, Answer(state, t)
      PROVE  StepsLeft' < StepsLeft
  <2>1. /\ pc = "loop" /\ pending # <<>> /\ pending' = Tail(pending) /\ after' = "loop"
        /\ pc' \in {"loop", "save"}
    BY <1>2 DEF Answer, Solving
  <2> QED BY <2>1, TakenShrinks
<1>3. CASE Block
  <2>1. /\ pc = "loop" /\ pending # <<>> /\ pending' = Tail(pending) /\ pc' = "save"
        /\ after' \in {"loop", "down"}
    BY <1>3 DEF Block, Solving
  <2> QED BY <2>1, TakenShrinks
<1>4. CASE Fail \/ StopAtBudget
  <2>1. pc = "loop" /\ pending # <<>> /\ StopWithResults
    BY <1>4 DEF Fail, StopAtBudget, Solving
  <2>2. Stopped \/ (pc' = "save" /\ after' = "down")
    BY <2>1 DEF StopWithResults
  <2> QED BY <2>1, <2>2, TakenShrinks, StoppedShrinks
<1>5. CASE SaveCheckpoint \/ OpenDebug \/ WriteDebug
  <2>1. CASE Stopped
    BY <2>1, StoppedShrinks
  <2>2. CASE /\ UNCHANGED memory
             /\ \/ pc = "save" /\ pc' = "debugOpen"
                \/ pc = "debugOpen" /\ pc' = "debugWrite"
                \/ pc = "debugWrite" /\ pc' = "loop" /\ after = "loop"
    <3>1. LoopSteps' = LoopSteps /\ SaveSteps' \in Nat /\ SaveSteps' < SaveSteps
      BY <2>2 DEF memory, LoopSteps, SaveSteps
    <3>2. StepsLeft' = SaveSteps' + LoopSteps' /\ StepsLeft = SaveSteps + LoopSteps
      BY <2>2 DEF StepsLeft
    <3> QED BY <3>1, <3>2, StepsLeftNat
  <2>3. CASE pc = "debugWrite" /\ after # "down" /\ pc' = after /\ UNCHANGED memory
    BY <1>1, <2>2, <2>3
  <2> QED BY <1>5, <2>1, <2>2, <2>3 DEF SaveCheckpoint, OpenDebug, WriteDebug
<1>6. CASE Finish \/ Crash
  BY <1>6, StoppedShrinks DEF Finish, Crash
<1>7. ~\E sel \in Selections, restart \in Restart, skip \in SkipRecorded,
          cont \in Continue : Start(sel, restart, skip, cont)
  BY DEF Start
<1> QED BY <1>2, <1>3, <1>4, <1>5, <1>6, <1>7 DEF Next, Step, Solve

\* A run takes a bounded number of steps: five for each question it has to do
\* and at most four besides. That it takes them is what the fairness is for.
THEOREM RunIsBounded ==
  Spec => [](StepsLeft \in Nat /\ (StepsLeft = 0 <=> pc = "down")) /\ RunAdvances
<1>1. IInv => StepsLeft \in Nat /\ (StepsLeft = 0 <=> pc = "down")
  BY StepsLeftNat, Zenon DEF IInv
<1>2. ASSUME IInv, [Next]_vars PROVE [pc # "down" => StepsLeft' < StepsLeft]_vars
  BY <1>2, StepShrinks DEF IInv
<1> QED BY <1>1, <1>2, Invariant, PTL DEF Spec, RunAdvances
=============================================================================
