-------------------------- MODULE LLMClientProofs --------------------------
(***************************************************************************)
(* Proofs about LLMClient: the client uses the ledger only as TokenLedger  *)
(* says, hence what is proved of every ledger holds of its own, and every  *)
(* request it sends is a call the guard let through.                       *)
(***************************************************************************)
EXTENDS LLMClient, TokenLedgerProofs

USE LedgerAssumption, ClientAssumption

(* What a step of the client needs to be a step of the ledger: a chat has  *)
(* a question, and the reply being recorded is a token count.              *)
ChatInv ==
  /\ pc \in {"down", "idle", "trying", "begun", "sent", "counted"}
  /\ pc \notin {"down", "idle"} => qid \in Qid
  /\ reply \in Tokens

\* No chat is on at first.
LEMMA ChatInit == ClientInit => ChatInv
  BY DEF ClientInit, ChatInv

\* Each step of the client leaves the next one what it needs.
LEMMA ChatStep == ChatInv /\ [ClientNext]_clientVars => ChatInv'
<1> SUFFICES ASSUME ChatInv, [ClientNext]_clientVars PROVE ChatInv'
  OBVIOUS
<1> USE DEF ChatInv
<1>1. ASSUME EndChat, reply' = reply PROVE ChatInv'
  BY <1>1 DEF EndChat
<1>2. ASSUME NextEndpoint, pc = "sent", reply' = reply PROVE ChatInv'
  BY <1>1, <1>2 DEF NextEndpoint
<1>3. CASE StartProcess \/ Crash
  BY <1>3 DEF StartProcess, Crash, local
<1>4. CASE Uncaught
  BY <1>1, <1>4 DEF Uncaught, local
<1>5. ASSUME NEW q \in Qid, ChatStart(q) PROVE ChatInv'
  BY <1>5 DEF ChatStart, local
<1>6. CASE TryEndpoint
  <2>1. CASE StopExhausted
    BY <1>1, <2>1 DEF StopExhausted, local
  <2>2. ASSUME NEW a \in AttemptId, StopCallBudget(a) PROVE ChatInv'
    BY <1>1, <2>2 DEF StopCallBudget
  <2>3. ASSUME NEW a \in AttemptId, BeginCall(a) PROVE ChatInv'
    BY <2>3 DEF BeginCall
  <2> QED
    BY <1>6, <2>1, <2>2, <2>3 DEF TryEndpoint
<1>7. CASE SendRequest
  BY <1>7 DEF SendRequest
<1>8. CASE EndRequest
  <2>1. ASSUME NEW k, HttpError(k) PROVE ChatInv'
    BY <1>1, <1>2, <2>1 DEF HttpError, local
  <2>2. ASSUME NEW s, NoAnswer(s) PROVE ChatInv'
    BY <1>2, <2>2 DEF NoAnswer, local
  <2>3. ASSUME NEW t \in Tokens, Receive(t) PROVE ChatInv'
    BY <2>3 DEF Receive
  <2> QED
    BY <1>8, <2>1, <2>2, <2>3 DEF EndRequest
<1>9. CASE RecordCompleted
  BY <1>1, <1>9 DEF RecordCompleted, local
<1>10. ASSUME NEW a \in AttemptId, NEW t \in Tokens, ProviderServes(a, t) PROVE ChatInv'
  BY <1>10 DEF ProviderServes
<1>11. CASE UNCHANGED clientVars
  BY <1>11 DEF clientVars
<1> QED
  BY <1>3, <1>4, <1>5, <1>6, <1>7, <1>8, <1>9, <1>10, <1>11 DEF ClientNext

-----------------------------------------------------------------------------
(* Each step of the client is one step of the ledger, or none.             *)
LEMMA ClientStepIsLedgerStep ==
  ASSUME ChatInv, [ClientNext]_clientVars
  PROVE  [LedgerNext]_ledgerVars
<1>1. ASSUME UNCHANGED <<ledger, open>> PROVE [LedgerNext]_ledgerVars
  BY <1>1 DEF ledgerVars
<1>2. CASE StartProcess
  BY <1>1, <1>2 DEF StartProcess
<1>3. CASE Crash
  <2>1. CASE open = NoAttempt
    BY <1>1, <1>3, <2>1 DEF Crash
  <2>2. CASE open # NoAttempt
    BY <1>3, <2>2 DEF Crash, AbandonAttempt, LedgerNext
  <2> QED
    BY <2>1, <2>2
<1>4. CASE Uncaught
  BY <1>4 DEF Uncaught, LedgerNext
<1>5. ASSUME NEW q \in Qid, ChatStart(q) PROVE [LedgerNext]_ledgerVars
  BY <1>1, <1>5 DEF ChatStart
<1>6. CASE TryEndpoint
  <2>1. CASE StopExhausted
    BY <1>1, <2>1 DEF StopExhausted
  <2>2. ASSUME NEW a \in AttemptId, StopCallBudget(a) \/ BeginCall(a)
        PROVE  [LedgerNext]_ledgerVars
    BY <2>2 DEF StopCallBudget, BeginCall, ChatInv, LedgerNext
  <2> QED
    BY <1>6, <2>1, <2>2 DEF TryEndpoint
<1>7. CASE SendRequest
  BY <1>1, <1>7 DEF SendRequest
<1>8. CASE EndRequest
  <2>1. ASSUME NEW k, HttpError(k) PROVE [LedgerNext]_ledgerVars
    BY <2>1 DEF HttpError, LedgerNext
  <2>2. ASSUME NEW s \in {"ERROR", "TIMEOUT"}, NoAnswer(s)
        PROVE  [LedgerNext]_ledgerVars
    BY <2>2 DEF NoAnswer, LedgerNext
  <2>3. ASSUME NEW t \in Tokens, Receive(t) PROVE [LedgerNext]_ledgerVars
    BY <1>1, <2>3 DEF Receive
  <2> QED
    BY <1>8, <2>1, <2>2, <2>3 DEF EndRequest
<1>9. CASE RecordCompleted
  BY <1>9 DEF RecordCompleted, ChatInv, LedgerNext
<1>10. ASSUME NEW a \in AttemptId, NEW t \in Tokens, ProviderServes(a, t)
       PROVE  [LedgerNext]_ledgerVars
  BY <1>1, <1>10 DEF ProviderServes
<1>11. CASE UNCHANGED clientVars
  BY <1>1, <1>11 DEF clientVars
<1> QED
  BY <1>2, <1>3, <1>4, <1>5, <1>6, <1>7, <1>8, <1>9, <1>10, <1>11 DEF ClientNext

(* The client implements the ledger, whatever its chain of endpoints, the  *)
(* provider's answers and the points where it dies or raises.              *)
THEOREM ClientUsesLedger == ClientSpec => LedgerSpec
<1>1. ClientInit => LedgerInit
  BY DEF ClientInit
<1>2. ChatInv /\ [ClientNext]_clientVars => [LedgerNext]_ledgerVars
  BY ClientStepIsLedgerStep
<1> QED
  BY <1>1, <1>2, ChatInit, ChatStep, PTL DEF ClientSpec, LedgerSpec

-----------------------------------------------------------------------------
(* A request only leaves for the open attempt, whose row is STARTED then   *)
(* and counts for good.                                                    *)
SentInv == (pc = "begun" => open # NoAttempt) /\ sent \subseteq Counted

(* A row that counts never stops counting.                                 *)
LEMMA CountedGrows ==
  ASSUME LedgerInv, [LedgerNext]_ledgerVars
  PROVE  Counted \subseteq Counted'
<1>1. ASSUME NEW a \in AttemptId, NEW q \in Qid, BeginProviderAttempt(a, q)
      PROVE  Counted \subseteq Counted'
  BY <1>1 DEF BeginProviderAttempt, AppendRow, Counted
<1>2. CASE NoCallStep
  BY <1>2, NoCallKeepsCount DEF LedgerInv
<1> QED
  BY <1>1, <1>2 DEF LedgerNext, NoCallStep

\* Nothing was sent at first.
LEMMA SentInit == ClientInit => SentInv
  BY DEF ClientInit, SentInv

\* What is sent has a row that counts, and keeps it.
LEMMA SentStep ==
  LedgerInv /\ ChatInv /\ SentInv /\ [ClientNext]_clientVars => SentInv'
<1> SUFFICES ASSUME LedgerInv, ChatInv, SentInv, [ClientNext]_clientVars
             PROVE  SentInv'
  OBVIOUS
<1>1. Counted \subseteq Counted'
  BY ClientStepIsLedgerStep, CountedGrows
<1>2. ASSUME sent' = sent, pc' # "begun" PROVE SentInv'
  BY <1>1, <1>2 DEF SentInv
<1>3. CASE StartProcess \/ Crash \/ Uncaught
  BY <1>2, <1>3 DEF StartProcess, Crash, Uncaught, EndChat, local
<1>4. ASSUME NEW q \in Qid, ChatStart(q) PROVE SentInv'
  BY <1>2, <1>4 DEF ChatStart, local
<1>5. CASE TryEndpoint
  <2>1. CASE StopExhausted
    BY <1>2, <2>1 DEF StopExhausted, EndChat, local
  <2>2. ASSUME NEW a \in AttemptId, StopCallBudget(a) PROVE SentInv'
    BY <1>2, <2>2 DEF StopCallBudget, EndChat
  <2>3. ASSUME NEW a \in AttemptId, BeginCall(a) PROVE SentInv'
    <3>1. open' = a /\ a # NoAttempt /\ sent' = sent
      BY <2>3 DEF BeginCall, BeginProviderAttempt
    <3> QED
      BY <1>1, <3>1 DEF SentInv
  <2> QED
    BY <1>5, <2>1, <2>2, <2>3 DEF TryEndpoint
<1>6. CASE SendRequest
  <2>1. open \in Counted
    BY <1>6 DEF SendRequest, SentInv, LedgerInv, LedgerTypeOK, OpenIsStarted,
       Counted, Ignored
  <2> QED
    BY <1>1, <1>6, <2>1 DEF SendRequest, SentInv
<1>7. CASE EndRequest
  <2>1. ASSUME NEW k, HttpError(k) PROVE SentInv'
    BY <1>2, <2>1 DEF HttpError, EndChat, NextEndpoint, local
  <2>2. ASSUME NEW s, NoAnswer(s) PROVE SentInv'
    BY <1>2, <2>2 DEF NoAnswer, EndChat, NextEndpoint, local
  <2>3. ASSUME NEW t \in Tokens, Receive(t) PROVE SentInv'
    BY <1>2, <2>3 DEF Receive
  <2> QED
    BY <1>7, <2>1, <2>2, <2>3 DEF EndRequest
<1>8. CASE RecordCompleted
  BY <1>2, <1>8 DEF RecordCompleted, EndChat, local
<1>9. ASSUME NEW a \in AttemptId, NEW t \in Tokens, ProviderServes(a, t)
      PROVE  SentInv'
  BY <1>1, <1>9 DEF ProviderServes, SentInv
<1>10. CASE UNCHANGED clientVars
  BY <1>1, <1>10 DEF clientVars, SentInv
<1> QED
  BY <1>3, <1>4, <1>5, <1>6, <1>7, <1>8, <1>9, <1>10 DEF ClientNext

(* No request leaves without a call budget to pay for it, on any endpoint  *)
(* of the chain, over any number of crashes and restarts.                  *)
THEOREM RequestsArePaidFor == ClientSpec => []RequestsWithinBudget
<1>1. LedgerInv /\ SentInv => RequestsWithinBudget
  <2> SUFFICES ASSUME LedgerInv, SentInv PROVE RequestsWithinBudget
    OBVIOUS
  <2>1. sent \subseteq DOMAIN ledger
    BY DEF SentInv, Counted
  <2>2. ASSUME NEW q \in DOMAIN QidBudget
        PROVE  Cardinality({a \in sent : ledger[a].qid = q}) <= QidBudget[q]
    <3>1. {a \in sent : ledger[a].qid = q} \subseteq CountedOf(q)
      BY DEF SentInv, CountedOf
    <3>2. IsFiniteSet(CountedOf(q)) /\ Cardinality(CountedOf(q)) \in Nat
      BY CountedFinite DEF LedgerInv
    <3>3. /\ Cardinality({a \in sent : ledger[a].qid = q}) \in Nat
          /\ Cardinality({a \in sent : ledger[a].qid = q}) <= Cardinality(CountedOf(q))
      BY <3>1, <3>2, FS_Subset, FS_CardinalityType
    <3>4. Cardinality(CountedOf(q)) <= QidBudget[q] /\ QidBudget[q] \in Nat
      BY DEF LedgerInv, CallsWithinBudget
    <3> QED
      BY <3>2, <3>3, <3>4
  <2>3. MaxTotal > 0 => Cardinality(sent) <= MaxTotal
    <3>1. /\ IsFiniteSet(Counted) /\ Cardinality(Counted) \in Nat
          /\ sent \subseteq Counted
      BY CountedFinite DEF LedgerInv, SentInv
    <3>2. Cardinality(sent) \in Nat /\ Cardinality(sent) <= Cardinality(Counted)
      BY <3>1, FS_Subset, FS_CardinalityType
    <3> QED
      BY <3>1, <3>2 DEF LedgerInv, CallsWithinBudget
  <2> QED
    BY <2>1, <2>2, <2>3 DEF RequestsWithinBudget
<1> QED
  BY <1>1, ChatInit, ChatStep, SentInit, SentStep, ClientUsesLedger, Invariance, PTL
  DEF ClientSpec

-----------------------------------------------------------------------------
(* The client's own variables, beside the ledger.                          *)
ClientData ==
  /\ pc \in {"down", "idle", "trying", "begun", "sent", "counted"}
  /\ qid \in Qid \cup {NoQid} /\ ep \in Endpoint /\ reply \in Tokens
  /\ usage \in [Endpoint -> Nat] /\ file \in [Endpoint -> Nat]
  /\ DOMAIN via = DOMAIN ledger /\ \A a \in DOMAIN via : via[a] \in Endpoint
  /\ DOMAIN charged \subseteq sent /\ \A a \in DOMAIN charged : charged[a] \in Tokens

\* The state at first is well formed.
LEMMA DataInit == ClientInit => ClientData
  BY DEF ClientInit, ClientData, LedgerInit, Endpoint

(* The chat moves on or ends.                                              *)
LEMMA DataMoves ==
  ASSUME LedgerInv, ClientData, EndChat \/ (pc = "sent" /\ NextEndpoint),
         DOMAIN ledger' = DOMAIN ledger, UNCHANGED local
  PROVE  ClientData'
<1>1. /\ pc' \in {"idle", "trying"} /\ qid' \in Qid \cup {NoQid} /\ ep' \in Endpoint
  BY DEF EndChat, NextEndpoint, ClientData, Endpoint
<1> QED
  BY <1>1 DEF ClientData, local

(* Ending an attempt keeps the rows there are.                             *)
LEMMA EndKeepsRows ==
  ASSUME (\E t : FinalizeCompleted(t)) \/ (\E s : FinalizeFailed(s)) \/ AbandonAttempt
  PROVE  DOMAIN ledger' = DOMAIN ledger
  BY DEF FinalizeCompleted, FinalizeFailed, AbandonAttempt, ReplaceAttempt

\* Every step keeps it well formed.
LEMMA DataStep ==
  LedgerInv /\ ClientData /\ [ClientNext]_clientVars => ClientData'
<1> SUFFICES ASSUME LedgerInv, ClientData, [ClientNext]_clientVars PROVE ClientData'
  OBVIOUS
<1>1. CASE StartProcess \/ Crash
  BY <1>1 DEF StartProcess, Crash, local, ClientData, Endpoint
<1>2. CASE Uncaught
  BY <1>2, DataMoves, EndKeepsRows DEF Uncaught
<1>3. ASSUME NEW q \in Qid, ChatStart(q) PROVE ClientData'
  BY <1>3 DEF ChatStart, local, ClientData, Endpoint
<1>4. CASE StopExhausted
  BY <1>4, DataMoves DEF StopExhausted
<1>5. ASSUME NEW a \in AttemptId, StopCallBudget(a) \/ BeginCall(a) PROVE ClientData'
  <2>1. /\ DOMAIN ledger' = DOMAIN ledger \cup {a} /\ via' = With(via, a, ep)
        /\ UNCHANGED <<usage, file, reply, sent, charged>>
    BY <1>5 DEF StopCallBudget, BeginCall, RefuseProviderAttempt, BeginProviderAttempt, AppendRow
  <2>2. DOMAIN via' = DOMAIN ledger' /\ \A b \in DOMAIN via' : via'[b] \in Endpoint
    BY <2>1 DEF With, ClientData
  <2>3. pc' \in {"idle", "begun"} /\ qid' \in Qid \cup {NoQid} /\ ep' \in Endpoint
    BY <1>5 DEF StopCallBudget, BeginCall, EndChat, ClientData, Endpoint
  <2> QED
    BY <2>1, <2>2, <2>3 DEF ClientData
<1>6. CASE SendRequest
  BY <1>6 DEF SendRequest, ClientData
<1>7. ASSUME NEW k, HttpError(k) PROVE ClientData'
  BY <1>7, DataMoves, EndKeepsRows DEF HttpError
<1>8. ASSUME NEW s, NoAnswer(s) PROVE ClientData'
  BY <1>8, DataMoves, EndKeepsRows DEF NoAnswer
<1>9. ASSUME NEW t \in Tokens, Receive(t) PROVE ClientData'
  <2>1. ep \in Endpoint /\ t \in Nat /\ usage[ep] + t \in Nat
    BY DEF ClientData
  <2>2. usage' \in [Endpoint -> Nat]
    BY <1>9, <2>1 DEF Receive, ClientData
  <2>3. file' \in [Endpoint -> Nat]
    BY <1>9, <2>1, <2>2 DEF Receive, ClientData
  <2> QED
    BY <1>9, <2>2, <2>3 DEF Receive, ClientData
<1>10. CASE RecordCompleted
  <2>1. reply \in Tokens
    BY DEF ClientData
  <2> QED
    BY <1>10, <2>1, DataMoves, EndKeepsRows DEF RecordCompleted
<1>11. ASSUME NEW a \in AttemptId, NEW t \in Tokens, ProviderServes(a, t) PROVE ClientData'
  BY <1>11 DEF ProviderServes, With, ClientData
<1>12. CASE UNCHANGED clientVars
  BY <1>12 DEF clientVars, ClientData
<1> QED
  BY <1>1, <1>2, <1>3, <1>4, <1>5, <1>6, <1>7, <1>8, <1>9, <1>10, <1>11, <1>12
  DEF ClientNext, TryEndpoint, EndRequest

(* The state of the client is well formed: every row has an endpoint, and  *)
(* nothing is charged that was not sent.                                   *)
THEOREM ClientTypeCorrect == ClientSpec => []ClientTypeOK
<1>1. LedgerInv /\ ClientData => ClientTypeOK
  BY DEF LedgerInv, ClientData, ClientTypeOK
<1> QED
  BY <1>1, DataInit, DataStep, ClientUsesLedger, Invariance, PTL DEF ClientSpec

-----------------------------------------------------------------------------
(* Tokens: what the rows, the usage files and the provider say.            *)

(* The attempt in hand is on the endpoint being tried, and what is being   *)
(* recorded of it is what the provider charged, or nothing.                *)
HandInv ==
  /\ pc \in {"begun", "sent", "counted"} => open # NoAttempt /\ via[open] = ep
  /\ pc = "counted" => open \in DOMAIN charged /\ reply \in {charged[open], 0}

(* A row carries no tokens, or those the provider charged for it.          *)
RowsInv ==
  \A a \in DOMAIN ledger :
    /\ ledger[a].status # "COMPLETED" => ledger[a].tokens = 0
    /\ ledger[a].tokens # 0 => a \in DOMAIN charged /\ ledger[a].tokens = charged[a]

(* What the rows of an endpoint cost.                                      *)
Spent(e) == Total(RowTokens, Via(e))

(* The usage file is what a running process has in memory, and covers the  *)
(* rows and the reply being recorded: without the reply the invariant does *)
(* not survive RecordCompleted.                                            *)
Covered(e) ==
  /\ pc # "down" => usage[e] = file[e]
  /\ Spent(e) \in Nat
  /\ Spent(e) + (IF pc = "counted" /\ ep = e THEN reply ELSE 0) <= file[e]

UsageInv == \A e \in UsageFile : Covered(e)

(* A request left below the budget, hence usage passes it by one reply.    *)
LimitInv ==
  \A e \in UsageFile : TokenBudget[e] > 0 =>
    /\ \A t \in Tokens : (\A u \in Tokens : u <= t) => file[e] < TokenBudget[e] + t
    /\ pc \in {"begun", "sent"} /\ ep = e => usage[e] < TokenBudget[e]

\* Nothing was spent at first.
LEMMA TokensInit == ClientInit => HandInv /\ RowsInv /\ UsageInv /\ LimitInv
<1> SUFFICES ASSUME ClientInit PROVE HandInv /\ RowsInv /\ UsageInv /\ LimitInv
  OBVIOUS
<1>1. HandInv /\ RowsInv
  BY DEF ClientInit, LedgerInit, HandInv, RowsInv
<1>2. \A e : Spent(e) = 0
  <2>1. \A e : Via(e) = {}
    BY DEF ClientInit, LedgerInit, Via
  <2> QED BY <2>1, TotalEmpty DEF Spent
<1>3. UsageInv
  <2>1. \A e \in UsageFile : e \in Endpoint
    OBVIOUS
  <2> QED BY <1>2, <2>1 DEF ClientInit, UsageInv, Covered
<1>4. LimitInv
  BY DEF ClientInit, LimitInv, Endpoint
<1> QED BY <1>1, <1>3, <1>4

(* How the rows of a step differ: not at all; by a new one, which carries  *)
(* no tokens; or by the outcome of the one in hand, which had none.        *)
NewRow(a) ==
  /\ a \in AttemptId \ DOMAIN ledger /\ DOMAIN ledger' = DOMAIN ledger \cup {a}
  /\ \A b \in DOMAIN ledger : ledger'[b] = ledger[b] /\ via'[b] = via[b]
  /\ ledger'[a].tokens = 0 /\ via'[a] = ep
EndedRow(t) ==
  /\ open \in DOMAIN ledger /\ DOMAIN ledger' = DOMAIN ledger /\ via' = via
  /\ \A b \in DOMAIN ledger \ {open} : ledger'[b] = ledger[b]
  /\ ledger[open].tokens = 0 /\ ledger'[open].tokens = t

(* A new row costs its endpoint nothing yet.                               *)
LEMMA NewRowFree ==
  ASSUME LedgerInv, LedgerInv', ClientData, NEW a, NewRow(a), NEW e \in Endpoint
  PROVE  Spent(e)' = Spent(e)
<1> DEFINE V == Via(e)
           W == Via(e)'
           f == RowTokens
           g == RowTokens'
<1>1. /\ V \subseteq DOMAIN ledger /\ IsFiniteSet(V) /\ a \notin V /\ IsFiniteSet(W)
      /\ (W = V \/ W = V \cup {a})
  BY FS_Subset DEF Via, NewRow, LedgerInv, LedgerTypeOK
<1>2. \A b \in W : g[b] = (IF b = a THEN 0 ELSE f[b]) /\ g[b] \in Nat
  BY DEF RowTokens, NewRow, LedgerInv, LedgerTypeOK, Row, Via
<1>3. \A b \in V : g[b] = f[b] /\ f[b] \in Nat
  BY <1>1 DEF RowTokens, NewRow, LedgerInv, LedgerTypeOK, Row, Via
<1>4. Spent(e) = Total(f, V) /\ Spent(e)' = Total(g, W)
  BY DEF Spent
<1> HIDE DEF V, W, f, g
<1>5. Total(g, V) = Total(f, V) /\ Total(g, V) \in Nat
  BY <1>1, <1>3, TotalSame, TotalOf
<1>6. CASE W = V \cup {a}
  <2>1. Total(g, W) = g[a] + Total(g, W \ {a}) /\ g[a] = 0 /\ W \ {a} = V
    BY <1>1, <1>2, <1>6, TotalElement
  <2> QED BY <2>1, <1>4, <1>5
<1> QED BY <1>1, <1>4, <1>5, <1>6

(* The outcome of the attempt in hand adds its tokens to its endpoint.     *)
LEMMA EndedRowCosts ==
  ASSUME LedgerInv, LedgerInv', NEW t \in Nat, EndedRow(t), NEW e \in Endpoint,
         Spent(e) \in Nat
  PROVE  Spent(e)' = Spent(e) + (IF via[open] = e THEN t ELSE 0)
<1> DEFINE V == Via(e)
           f == RowTokens
           g == RowTokens'
<1>1. V \subseteq DOMAIN ledger /\ IsFiniteSet(V) /\ Via(e)' = V
  BY FS_Subset DEF Via, EndedRow, LedgerInv, LedgerTypeOK
<1>2. \A b \in V : /\ f[b] \in Nat /\ g[b] \in Nat
                   /\ g[b] = (IF b = open THEN t ELSE f[b])
  BY DEF RowTokens, EndedRow, LedgerInv, LedgerTypeOK, Row, Via
<1>3. (open \in V <=> via[open] = e) /\ f[open] = 0 /\ g[open] = t
  BY DEF Via, EndedRow, RowTokens
<1>4. Spent(e) = Total(f, V) /\ Spent(e)' = Total(g, V)
  BY <1>1 DEF Spent
<1> HIDE DEF V, f, g
<1>5. CASE open \in V
  <2>1. Total(g, V) + f[open] = Total(f, V) + g[open]
    BY <1>1, <1>2, <1>5, TotalChange
  <2>2. Total(g, V) \in Nat
    BY <1>1, <1>2, TotalOf
  <2> QED BY <2>1, <2>2, <1>3, <1>4, <1>5
<1>6. CASE open \notin V
  <2>1. Total(g, V) = Total(f, V)
    BY <1>1, <1>2, <1>6, TotalSame
  <2> QED BY <2>1, <1>3, <1>4, <1>6
<1> QED BY <1>5, <1>6

(* Every step changes the rows in one of these ways.                       *)
LEMMA RowEffects ==
  ASSUME LedgerInv, ClientData, HandInv, RowsInv, [ClientNext]_clientVars
  PROVE  /\ \A a \in AttemptId : StopCallBudget(a) \/ BeginCall(a) => NewRow(a)
         /\ (\E k : HttpError(k)) \/ (\E s : NoAnswer(s)) => EndedRow(0)
         /\ RecordCompleted => EndedRow(reply)
         /\ \/ UNCHANGED <<ledger, via>>
            \/ \E a \in AttemptId : StopCallBudget(a) \/ BeginCall(a)
            \/ (\E k : HttpError(k)) \/ (\E s : NoAnswer(s)) \/ RecordCompleted
<1>1. ASSUME NEW a \in AttemptId, StopCallBudget(a) \/ BeginCall(a) PROVE NewRow(a)
  BY <1>1 DEF StopCallBudget, BeginCall, RefuseProviderAttempt, BeginProviderAttempt,
              AppendRow, With, ClientData, NewRow
<1>2. ASSUME NEW s, NEW t \in Nat, open # NoAttempt, ReplaceAttempt(open, s, t), via' = via,
             ledger[open].status = "STARTED"
      PROVE  EndedRow(t)
  <2>1. open \in DOMAIN ledger /\ ledger[open] \in Row /\ ledger[open].tokens = 0
    BY <1>2 DEF LedgerInv, LedgerTypeOK, RowsInv
  <2> QED BY <1>2, <2>1 DEF ReplaceAttempt, EndedRow, Row
<1>3. open # NoAttempt => ledger[open].status = "STARTED"
  BY DEF LedgerInv, OpenIsStarted
<1>4. ASSUME (\E k : HttpError(k)) \/ (\E s : NoAnswer(s)) PROVE EndedRow(0)
  BY <1>2, <1>3, <1>4 DEF HttpError, NoAnswer, FinalizeFailed, local
<1>5. ASSUME RecordCompleted PROVE EndedRow(reply)
  <2>1. reply \in Nat
    BY DEF ClientData
  <2> QED BY <1>2, <1>3, <1>5, <2>1 DEF RecordCompleted, FinalizeCompleted, local
<1>6. \/ UNCHANGED <<ledger, via>>
      \/ \E a \in AttemptId : StopCallBudget(a) \/ BeginCall(a)
      \/ (\E k : HttpError(k)) \/ (\E s : NoAnswer(s)) \/ RecordCompleted
  BY DEF ClientNext, TryEndpoint, EndRequest, StartProcess, Crash, Uncaught, AbandonAttempt,
         ChatStart, StopExhausted, SendRequest, Receive, ProviderServes, local, clientVars
<1> QED BY <1>1, <1>4, <1>5, <1>6

(* What each row says of the provider's charge stays true.                 *)
LEMMA RowsStep ==
  LedgerInv /\ ClientData /\ HandInv /\ RowsInv /\ [ClientNext]_clientVars => RowsInv'
<1> SUFFICES ASSUME LedgerInv, ClientData, HandInv, RowsInv, [ClientNext]_clientVars
             PROVE  RowsInv'
  OBVIOUS
<1>1. \A a \in DOMAIN charged : a \in DOMAIN charged' /\ charged'[a] = charged[a]
  BY DEF ClientNext, TryEndpoint, EndRequest, StartProcess, Crash, Uncaught, ChatStart,
         StopExhausted, StopCallBudget, BeginCall, SendRequest, HttpError, NoAnswer, Receive,
         RecordCompleted, ProviderServes, With, local, clientVars
<1>2. CASE UNCHANGED <<ledger, via>>
  BY <1>1, <1>2 DEF RowsInv
<1>3. ASSUME NEW a \in AttemptId, NewRow(a), StopCallBudget(a) \/ BeginCall(a) PROVE RowsInv'
  BY <1>1, <1>3 DEF NewRow, RowsInv
<1>4. ASSUME EndedRow(0) PROVE RowsInv'
  BY <1>1, <1>4 DEF EndedRow, RowsInv
<1>5. ASSUME EndedRow(reply), RecordCompleted PROVE RowsInv'
  <2>1. ledger'[open].status = "COMPLETED"
    BY <1>5, ReplaceType DEF RecordCompleted, FinalizeCompleted, EndedRow, ReplaceAttempt,
                             LedgerInv, LedgerTypeOK, Row
  <2>2. reply # 0 => open \in DOMAIN charged /\ reply = charged[open]
    BY <1>5 DEF RecordCompleted, HandInv
  <2> QED BY <1>1, <1>5, <2>1, <2>2 DEF EndedRow, RowsInv
<1> QED BY <1>2, <1>3, <1>4, <1>5, RowEffects

(* The attempt in hand stays the one of the endpoint being tried.          *)
LEMMA HandStep ==
  LedgerInv /\ ClientData /\ HandInv /\ [ClientNext]_clientVars => HandInv'
<1> SUFFICES ASSUME LedgerInv, ClientData, HandInv, [ClientNext]_clientVars PROVE HandInv'
  OBVIOUS
<1>1. ASSUME pc' \notin {"begun", "sent", "counted"} PROVE HandInv'
  BY <1>1 DEF HandInv
<1>2. CASE StartProcess \/ Crash \/ Uncaught \/ StopExhausted \/ RecordCompleted
  BY <1>1, <1>2 DEF StartProcess, Crash, Uncaught, StopExhausted, RecordCompleted, EndChat
<1>3. ASSUME NEW q \in Qid, ChatStart(q) PROVE HandInv'
  BY <1>1, <1>3 DEF ChatStart
<1>4. ASSUME NEW a \in AttemptId, StopCallBudget(a) PROVE HandInv'
  BY <1>1, <1>4 DEF StopCallBudget, EndChat
<1>5. ASSUME NEW a \in AttemptId, BeginCall(a) PROVE HandInv'
  <2>1. open' = a /\ a # NoAttempt /\ via'[a] = ep /\ ep' = ep /\ pc' = "begun"
    BY <1>5 DEF BeginCall, BeginProviderAttempt, With
  <2> QED BY <2>1 DEF HandInv
<1>6. CASE SendRequest
  BY <1>6 DEF SendRequest, HandInv
<1>7. ASSUME (\E k : HttpError(k)) \/ (\E s : NoAnswer(s)) PROVE HandInv'
  BY <1>1, <1>7 DEF HttpError, NoAnswer, NextEndpoint, EndChat
<1>8. ASSUME NEW t \in Tokens, Receive(t) PROVE HandInv'
  BY <1>8 DEF Receive, HandInv
<1>9. ASSUME NEW a \in AttemptId, NEW t \in Tokens, ProviderServes(a, t) PROVE HandInv'
  BY <1>9 DEF ProviderServes, With, HandInv
<1>10. CASE UNCHANGED clientVars
  BY <1>10 DEF clientVars, HandInv
<1> QED BY <1>2, <1>3, <1>4, <1>5, <1>6, <1>7, <1>8, <1>9, <1>10
        DEF ClientNext, TryEndpoint, EndRequest

(* The usage file is written before the row: it covers the rows always.    *)
LEMMA UsageStep ==
  /\ LedgerInv /\ LedgerInv' /\ ClientData /\ HandInv /\ RowsInv /\ UsageInv
  /\ [ClientNext]_clientVars
  => UsageInv'
<1> SUFFICES ASSUME LedgerInv, LedgerInv', ClientData, HandInv, RowsInv, UsageInv,
                    [ClientNext]_clientVars, NEW e \in UsageFile
             PROVE  Covered(e)'
  BY DEF UsageInv
<1>1. /\ e \in Endpoint /\ Spent(e) \in Nat /\ reply \in Nat
      /\ usage[e] \in Nat /\ file[e] \in Nat /\ Covered(e)
  BY DEF ClientData, UsageInv, Covered
<1>2. ASSUME UNCHANGED <<ledger, via>> PROVE Spent(e)' = Spent(e)
  BY <1>2 DEF Spent, RowTokens, Via
<1>3. Spent(e) <= file[e]
  BY <1>1 DEF Covered
<1>4. ASSUME Spent(e)' = Spent(e), pc # "down" \/ pc' = "down", pc' # "counted",
             UNCHANGED <<usage, file>>
      PROVE  Covered(e)'
  BY <1>1, <1>3, <1>4 DEF Covered
<1>5. CASE StartProcess
  <2>1. Spent(e)' = Spent(e) /\ pc' = "idle" /\ file' = file /\ usage'[e] = file[e]
    BY <1>1, <1>2, <1>5 DEF StartProcess
  <2> QED BY <1>1, <1>3, <2>1 DEF Covered
<1>6. CASE Crash \/ Uncaught
  BY <1>2, <1>4, <1>6 DEF Crash, Uncaught, AbandonAttempt, EndChat, local
<1>7. ASSUME NEW q \in Qid, ChatStart(q) PROVE Covered(e)'
  BY <1>2, <1>4, <1>7 DEF ChatStart, local
<1>8. CASE StopExhausted \/ SendRequest
  BY <1>2, <1>4, <1>8 DEF StopExhausted, SendRequest, EndChat, local
<1>9. ASSUME NEW a \in AttemptId, NewRow(a), StopCallBudget(a) \/ BeginCall(a)
      PROVE  Covered(e)'
  BY <1>1, <1>4, <1>9, NewRowFree DEF StopCallBudget, BeginCall, EndChat
<1>10. ASSUME EndedRow(0), (\E k : HttpError(k)) \/ (\E s : NoAnswer(s)) PROVE Covered(e)'
  <2>1. Spent(e)' = Spent(e)
    BY <1>1, <1>10, EndedRowCosts
  <2> QED BY <1>4, <1>10, <2>1 DEF HttpError, NoAnswer, NextEndpoint, EndChat, local
<1>11. ASSUME NEW t \in Tokens, Receive(t) PROVE Covered(e)'
  <2>1. /\ Spent(e)' = Spent(e) /\ pc = "sent" /\ pc' = "counted" /\ reply' = t /\ ep' = ep
        /\ t \in Nat /\ usage[e] = file[e]
    BY <1>1, <1>2, <1>11 DEF Receive, Covered
  <2>2. /\ usage'[e] = (IF e = ep THEN usage[e] + t ELSE usage[e])
        /\ file'[e] = (IF e = ep THEN usage'[e] ELSE file[e])
    BY <1>1, <1>11 DEF Receive, ClientData
  <2> QED BY <1>1, <1>3, <2>1, <2>2 DEF Covered
<1>12. ASSUME EndedRow(reply), RecordCompleted PROVE Covered(e)'
  <2>1. /\ Spent(e)' = Spent(e) + (IF via[open] = e THEN reply ELSE 0)
        /\ via[open] = ep /\ pc = "counted" /\ pc' = "idle" /\ UNCHANGED <<usage, file>>
    BY <1>1, <1>12, EndedRowCosts DEF RecordCompleted, HandInv, EndChat, local
  <2> QED BY <1>1, <2>1 DEF Covered
<1>13. ASSUME NEW a \in AttemptId, NEW t \in Tokens, ProviderServes(a, t) PROVE Covered(e)'
  <2>1. Spent(e)' = Spent(e) /\ UNCHANGED <<pc, ep, usage, file, reply>>
    BY <1>2, <1>13 DEF ProviderServes
  <2> QED BY <1>1, <2>1 DEF Covered
<1>14. CASE UNCHANGED clientVars
  <2>1. Spent(e)' = Spent(e) /\ UNCHANGED <<pc, ep, usage, file, reply>>
    BY <1>2, <1>14 DEF clientVars
  <2> QED BY <1>1, <2>1 DEF Covered
<1> QED BY <1>5, <1>6, <1>7, <1>8, <1>9, <1>10, <1>11, <1>12, <1>13, <1>14, RowEffects
        DEF ClientNext, TryEndpoint, EndRequest

(* A reply is added to a usage that was below the budget when its request  *)
(* left.                                                                   *)
LEMMA LimitStep ==
  ClientData /\ UsageInv /\ LimitInv /\ [ClientNext]_clientVars => LimitInv'
<1> SUFFICES ASSUME ClientData, UsageInv, LimitInv, [ClientNext]_clientVars,
                    NEW e \in UsageFile, TokenBudget[e] > 0
             PROVE  /\ \A t \in Tokens : (\A u \in Tokens : u <= t)
                                            => file'[e] < TokenBudget[e] + t
                    /\ pc' \in {"begun", "sent"} /\ ep' = e => usage'[e] < TokenBudget[e]
  BY DEF LimitInv
<1>1. /\ \A t \in Tokens : (\A u \in Tokens : u <= t) => file[e] < TokenBudget[e] + t
      /\ pc \in {"begun", "sent"} /\ ep = e => usage[e] < TokenBudget[e]
      /\ pc # "down" => usage[e] = file[e]
      /\ e \in Endpoint /\ usage[e] \in Nat /\ file[e] \in Nat /\ TokenBudget[e] \in Nat
  BY DEF LimitInv, UsageInv, Covered, ClientData
<1>2. CASE file' = file /\ pc' \notin {"begun", "sent"}
  BY <1>1, <1>2
<1>3. CASE UNCHANGED <<file, usage, pc, ep>>
  BY <1>1, <1>3
<1>4. ASSUME NEW a \in AttemptId, BeginCall(a)
      PROVE  UNCHANGED <<file, usage, ep>> /\ (ep = e => usage[e] < TokenBudget[e])
  BY <1>1, <1>4 DEF BeginCall, Exhausted
<1>5. CASE SendRequest
  BY <1>1, <1>5 DEF SendRequest
<1>6. ASSUME NEW r \in Tokens, Receive(r)
      PROVE  /\ pc' = "counted"
             /\ \A t \in Tokens : (\A u \in Tokens : u <= t) => file'[e] < TokenBudget[e] + t
  <2>1. pc' = "counted" /\ pc = "sent" /\ r \in Nat
    BY <1>6 DEF Receive
  <2>2. file'[e] = (IF e = ep THEN usage[e] + r ELSE file[e])
    BY <1>1, <1>6 DEF Receive, ClientData
  <2> QED BY <1>1, <2>1, <2>2
<1>7. \/ file' = file /\ pc' \notin {"begun", "sent"}
      \/ UNCHANGED <<file, usage, pc, ep>>
      \/ \E a \in AttemptId : BeginCall(a)
      \/ SendRequest
      \/ \E r \in Tokens : Receive(r)
  BY DEF ClientNext, TryEndpoint, EndRequest, StartProcess, Crash, Uncaught, ChatStart,
         StopExhausted, StopCallBudget, HttpError, NoAnswer, RecordCompleted, ProviderServes,
         NextEndpoint, EndChat, local, clientVars
<1> QED BY <1>1, <1>2, <1>3, <1>4, <1>5, <1>6, <1>7

(* The invariants of the tokens hold throughout, with the types.           *)
TokensInv == ClientData /\ HandInv /\ RowsInv /\ UsageInv /\ LimitInv

\* The invariant of the tokens holds of every client.
LEMMA TokensInvariance == ClientSpec => [](LedgerInv /\ SentInv /\ TokensInv)
<1>1. ClientInit => TokensInv
  BY DataInit, TokensInit DEF TokensInv
<1>2. LedgerInv /\ LedgerInv' /\ TokensInv /\ [ClientNext]_clientVars => TokensInv'
  BY DataStep, HandStep, RowsStep, UsageStep, LimitStep DEF TokensInv
<1> QED BY <1>1, <1>2, ChatInit, ChatStep, SentInit, SentStep, ClientUsesLedger, Invariance, PTL
        DEF ClientSpec

(* A usage file never lags behind the rows of its endpoint, wherever the   *)
(* process dies between the two writes.                                    *)
THEOREM UsageCovers == ClientSpec => []UsageCoversLedger
<1>1. LedgerInv /\ TokensInv => UsageCoversLedger
  <2> SUFFICES ASSUME LedgerInv, TokensInv, NEW e \in UsageFile
               PROVE  TokensOf(Via(e)) <= file[e]
    BY DEF UsageCoversLedger
  <2>1. TokensOf(Via(e)) = Spent(e)
    BY TokensOfIsTotal DEF Spent, Via, LedgerInv
  <2>2. Covered(e) /\ reply \in Nat /\ file[e] \in Nat
    BY DEF TokensInv, UsageInv, ClientData
  <2> QED BY <2>1, <2>2 DEF Covered
<1> QED BY <1>1, TokensInvariance, PTL

(* What the provider charges, by attempt, adds up like the rows do.        *)
LEMMA SumChargedIsTotal ==
  ASSUME IsFiniteSet(DOMAIN charged), \A a \in DOMAIN charged : charged[a] \in Nat,
         NEW rows \in SUBSET DOMAIN charged
  PROVE  SumCharged(rows) = Total(charged, rows)
<1> DEFINE D == rows
           c(d) == CHOOSE a \in d : TRUE
           Body(it) == [d \in SUBSET D |-> IF d = {} THEN 0
                                           ELSE charged[c(d)] + it[d \ {c(d)}]]
           it == CHOOSE kt : kt = Body(kt)
<1>1. IsFiniteSet(D) /\ \A a \in D : charged[a] \in Nat
  BY FS_Subset
<1>2. SumCharged(rows) = it[D]
  BY DEF SumCharged, MapThenSumSet, MapThenFoldSet
<1>3. PICK jt : Adds(jt, charged, D)
  BY <1>1, AddsExists
<1>4. \A d \in SUBSET D : d # {} => c(d) \in d
  OBVIOUS
<1>5. jt = Body(jt)
  <2>1. jt = [d \in SUBSET D |-> jt[d]] /\ jt[{}] = 0
    BY <1>3 DEF Adds
  <2> HIDE DEF c
  <2>2. \A d \in SUBSET D : d # {} => jt[d] = charged[c(d)] + jt[d \ {c(d)}]
    BY <1>3, <1>4 DEF Adds
  <2> HIDE DEF D
  <2> QED BY <2>1, <2>2
<1>6. it = Body(it)
  <2> HIDE DEF Body
  <2> QED BY <1>5, Zenon
<1>7. Recurs(it, charged, D)
  <2> HIDE DEF it, D, c
  <2>1. it[{}] = 0
    BY <1>6
  <2>2. \A d \in SUBSET D : d # {} => it[d] = charged[c(d)] + it[d \ {c(d)}]
    BY <1>6
  <2> QED BY <2>1, <2>2, <1>4 DEF Recurs
<1> HIDE DEF it, Body
<1> QED BY <1>1, <1>2, <1>7, TotalOf

(* The provider's charge to a budgeted endpoint passes the budget by one   *)
(* call and one for each row without tokens, when a call has a largest     *)
(* token count: a row with tokens has those that were charged, the rows    *)
(* cost what the usage file says at most, and that passes the budget by    *)
(* one reply.                                                              *)
THEOREM ChargeBounded ==
  ASSUME NEW M \in Tokens, \A t \in Tokens : t <= M
  PROVE  ClientSpec => []ChargeWithinEndpointBudget
<1>1. LedgerInv /\ SentInv /\ TokensInv => ChargeWithinEndpointBudget
  <2> SUFFICES ASSUME LedgerInv, SentInv, TokensInv, NEW e \in UsageFile, TokenBudget[e] > 0
               PROVE  SumCharged(Via(e) \cap DOMAIN charged)
                        < TokenBudget[e] + MaxTokens *
                            (1 + Cardinality({a \in Via(e) \cap sent : ledger[a].tokens = 0}))
    BY DEF ChargeWithinEndpointBudget
  <2> DEFINE S == Via(e) \cap DOMAIN charged
             Z == {a \in DOMAIN ledger : ledger[a].tokens = 0}
             L == {a \in Via(e) \cap sent : ledger[a].tokens = 0}
  <2>1. MaxTokens = M /\ M \in Nat
    <3>1. \E t \in Tokens : \A u \in Tokens : u <= t
      OBVIOUS
    <3>2. MaxTokens \in Tokens /\ \A u \in Tokens : u <= MaxTokens
      BY <3>1 DEF MaxTokens
    <3> QED BY <3>2
  <2>2. /\ sent \subseteq DOMAIN ledger /\ DOMAIN charged \subseteq sent
        /\ IsFiniteSet(DOMAIN ledger) /\ Via(e) \subseteq DOMAIN ledger
    BY DEF SentInv, Counted, TokensInv, ClientData, LedgerInv, LedgerTypeOK, Via
  <2>3. /\ IsFiniteSet(DOMAIN charged) /\ IsFiniteSet(S) /\ IsFiniteSet(Via(e)) /\ IsFiniteSet(L)
    BY <2>2, FS_Subset
  <2>4. \A a \in DOMAIN charged : charged[a] \in Nat /\ charged[a] <= M
    BY DEF TokensInv, ClientData
  <2>5. \A a \in DOMAIN ledger : RowTokens[a] = ledger[a].tokens /\ RowTokens[a] \in Nat
    BY DEF RowTokens, LedgerInv, LedgerTypeOK, Row
  <2>6. \A a \in S : charged[a] <= RowTokens[a] + (IF a \in Z THEN M ELSE 0)
    BY <2>1, <2>2, <2>4, <2>5 DEF TokensInv, RowsInv
  <2>7. SumCharged(S) = Total(charged, S) /\ Total(charged, S) \in Nat
    BY <2>3, <2>4, SumChargedIsTotal, TotalOf
  <2>8. /\ Cardinality(Z \cap S) \in Nat
        /\ Total(charged, S) <= Total(RowTokens, S) + M * Cardinality(Z \cap S)
    <3>1. \A a \in S : charged[a] \in Nat /\ RowTokens[a] \in Nat
      BY <2>2, <2>4, <2>5
    <3> HIDE DEF S, Z
    <3> QED BY <3>1, <2>1, <2>3, <2>6, TotalBound
  <2>9. Total(RowTokens, S) <= Spent(e) /\ Total(RowTokens, S) \in Nat
    BY <2>2, <2>3, <2>5, TotalSubset, TotalOf DEF Spent
  <2>10. Cardinality(Z \cap S) <= Cardinality(L) /\ Cardinality(L) \in Nat
    BY <2>2, <2>3, FS_Subset, FS_CardinalityType
  <2>11. /\ Spent(e) \in Nat /\ file[e] \in Nat /\ TokenBudget[e] \in Nat
         /\ Spent(e) <= file[e] /\ file[e] < TokenBudget[e] + M
    BY <2>1 DEF TokensInv, ClientData, UsageInv, Covered, LimitInv
  <2> HIDE DEF S, Z, L
  <2>12. /\ M * Cardinality(Z \cap S) <= M * Cardinality(L)
         /\ M * (1 + Cardinality(L)) = M + M * Cardinality(L)
         /\ M * Cardinality(Z \cap S) \in Nat /\ M * Cardinality(L) \in Nat
    BY <2>1, <2>8, <2>10
  <2>13. SumCharged(S) < TokenBudget[e] + M * (1 + Cardinality(L))
    BY <2>1, <2>7, <2>8, <2>9, <2>11, <2>12
  <2> QED BY <2>1, <2>13 DEF S, L
<1> QED BY <1>1, TokensInvariance, PTL
-----------------------------------------------------------------------------
(* The safety half of ChatEnds: whatever a chat does brings its end nearer.*)

\* How many steps a chat has left at most: of the endpoint it is on, and four
\* for each endpoint after that.
CallSteps ==
  CASE pc = "trying" -> 4 [] pc = "begun" -> 3 [] pc = "sent" -> 2 [] pc = "counted" -> 1 [] OTHER -> 0
StepsLeft == IF CallSteps = 0 THEN 0 ELSE CallSteps + 4 * (NEndpoints - ep)

\* Beside a chat only the provider does something, which may serve late.
ProviderOnly == UNCHANGED <<ledger, open, pc, qid, ep, usage, file, reply, via, sent>>

\* A chat that is on comes nearer to its end with every step of the process.
ChatAdvances ==
  [][pc \notin {"down", "idle"} => StepsLeft' < StepsLeft \/ ProviderOnly]_clientVars

\* A chat has a number of steps left, and is over when there are none.
LEMMA StepsLeftNat ==
  ASSUME ClientTypeOK
  PROVE  /\ CallSteps \in 0..4 /\ StepsLeft \in Nat
         /\ NEndpoints \in Nat /\ ep \in Nat /\ ep <= NEndpoints
         /\ CallSteps = 0 <=> pc \in {"down", "idle"}
         /\ CallSteps # 0 => StepsLeft = CallSteps + 4 * (NEndpoints - ep) /\ StepsLeft > 0
<1>1. NEndpoints \in Nat /\ ep \in Nat /\ ep <= NEndpoints
  BY ClientAssumption DEF ClientTypeOK, Endpoint
<1>2. pc \in {"down", "idle", "trying", "begun", "sent", "counted"}
  BY DEF ClientTypeOK
<1>3. CallSteps \in 0..4 /\ (CallSteps = 0 <=> pc \in {"down", "idle"})
  BY <1>2 DEF CallSteps
<1>4. CallSteps = 0 => StepsLeft = 0
  BY DEF StepsLeft
<1>5. CallSteps # 0 => StepsLeft = CallSteps + 4 * (NEndpoints - ep)
  BY DEF StepsLeft
<1> QED BY <1>1, <1>3, <1>4, <1>5

\* A chat that ends has no steps left, and one that goes on has fewer.
LEMMA ChatMoves ==
  ASSUME ClientTypeOK, pc \notin {"down", "idle"},
         \/ pc' \in {"down", "idle"}
         \/ pc' = "trying" /\ ep' = ep + 1
         \/ ep' = ep /\ \/ pc = "trying" /\ pc' = "begun"
                        \/ pc = "begun" /\ pc' = "sent"
                        \/ pc = "sent" /\ pc' = "counted"
  PROVE  StepsLeft' < StepsLeft
<1>1. /\ StepsLeft = CallSteps + 4 * (NEndpoints - ep) /\ StepsLeft > 0 /\ StepsLeft \in Nat
      /\ CallSteps \in 1..4 /\ NEndpoints \in Nat /\ ep \in Nat
  BY StepsLeftNat
<1>2. CASE pc' \in {"down", "idle"}
  <2>1. CallSteps' = 0
    BY <1>2 DEF CallSteps
  <2>2. StepsLeft' = 0
    BY <2>1 DEF StepsLeft
  <2> QED BY <1>1, <2>2
<1>3. CASE pc' = "trying" /\ ep' = ep + 1
  <2>1. CallSteps' = 4
    BY <1>3 DEF CallSteps
  <2>2. StepsLeft' = 4 + 4 * (NEndpoints - (ep + 1))
    BY <1>3, <2>1 DEF StepsLeft
  <2> QED BY <1>1, <2>2
<1>4. CASE ep' = ep /\ \/ pc = "trying" /\ pc' = "begun"
                       \/ pc = "begun" /\ pc' = "sent"
                       \/ pc = "sent" /\ pc' = "counted"
  <2>1. CallSteps' \in 1..3 /\ CallSteps' < CallSteps
    BY <1>4 DEF CallSteps
  <2>2. StepsLeft' = CallSteps' + 4 * (NEndpoints - ep)
    BY <1>4, <2>1 DEF StepsLeft
  <2> QED BY <1>1, <2>1, <2>2
<1> QED BY <1>2, <1>3, <1>4

\* Every step of a chat, on whichever endpoint it fails, is one of these.
LEMMA ChatStepsAdvance ==
  ASSUME ClientTypeOK, ClientNext, pc \notin {"down", "idle"}
  PROVE  StepsLeft' < StepsLeft \/ ProviderOnly
<1>1. CASE StartProcess \/ Crash \/ Uncaught
  BY <1>1, ChatMoves DEF StartProcess, Crash, Uncaught, EndChat
<1>2. ASSUME NEW q \in Qid, ChatStart(q) PROVE FALSE
  BY <1>2 DEF ChatStart
<1>3. CASE TryEndpoint
  <2>1. pc = "trying" /\ (pc' = "idle" \/ (pc' = "begun" /\ ep' = ep))
    BY <1>3 DEF TryEndpoint, StopExhausted, StopCallBudget, BeginCall, EndChat
  <2> QED BY <2>1, ChatMoves
<1>4. CASE SendRequest
  BY <1>4, ChatMoves DEF SendRequest
<1>5. CASE EndRequest
  <2>1. /\ pc = "sent"
        /\ pc' = "idle" \/ (pc' = "trying" /\ ep' = ep + 1) \/ (pc' = "counted" /\ ep' = ep)
    BY <1>5 DEF EndRequest, HttpError, NoAnswer, Receive, NextEndpoint, EndChat
  <2> QED BY <2>1, ChatMoves
<1>6. CASE RecordCompleted
  BY <1>6, ChatMoves DEF RecordCompleted, EndChat
<1>7. ASSUME NEW a \in AttemptId, NEW t \in Tokens, ProviderServes(a, t) PROVE ProviderOnly
  BY <1>7 DEF ProviderServes, ProviderOnly
<1> QED BY <1>1, <1>2, <1>3, <1>4, <1>5, <1>6, <1>7 DEF ClientNext

\* A chat takes a bounded number of steps, four for each endpoint, however the
\* endpoints fail. That it takes them is what the fairness is for.
THEOREM ChatIsBounded ==
  ClientSpec => [](StepsLeft \in Nat /\ (StepsLeft = 0 <=> pc \in {"down", "idle"})) /\ ChatAdvances
<1>1. ClientTypeOK => StepsLeft \in Nat /\ (StepsLeft = 0 <=> pc \in {"down", "idle"})
  <2> SUFFICES ASSUME ClientTypeOK
               PROVE  StepsLeft \in Nat /\ (StepsLeft = 0 <=> pc \in {"down", "idle"})
    OBVIOUS
  <2>1. CASE CallSteps = 0
    BY <2>1, StepsLeftNat DEF StepsLeft
  <2>2. CASE CallSteps # 0
    BY <2>2, StepsLeftNat
  <2> QED BY <2>1, <2>2
<1>2. ASSUME ClientTypeOK, [ClientNext]_clientVars
      PROVE  [pc \notin {"down", "idle"} => StepsLeft' < StepsLeft \/ ProviderOnly]_clientVars
  BY <1>2, ChatStepsAdvance
<1> QED BY <1>1, <1>2, ClientTypeCorrect, PTL DEF ClientSpec, ChatAdvances
=============================================================================
