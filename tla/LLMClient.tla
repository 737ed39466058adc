----------------------------- MODULE LLMClient -----------------------------
(***************************************************************************)
(* One chat() of the OpenAI-compatible client (src/src/utils/llm_client.py)*)
(* over its chain of endpoints, with the three records a provider call     *)
(* leaves: the row in the token ledger, the usage file of the endpoint and *)
(* what the provider itself charges.  The order in which the code writes   *)
(* them, and where it can die or raise in between, is what is modelled.    *)
(*                                                                         *)
(* The provider is external: it may serve a request at any time after it   *)
(* left, also after the client has given up on it, or never.               *)
(***************************************************************************)
EXTENDS TokenLedger

CONSTANTS NEndpoints,   \* length of the endpoint chain
          UsageFile,    \* endpoints with a usage_file
          HardStop,     \* endpoints with stop_on_exhaustion
          TokenBudget,  \* endpoint -> token_budget, 0 = none
          NoQid         \* no chat is running

Endpoint == 1..NEndpoints

ASSUME ClientAssumption ==
  /\ NEndpoints \in Nat \ {0} /\ 0 \in Tokens
  /\ UsageFile \subseteq Endpoint /\ HardStop \subseteq Endpoint
  /\ TokenBudget \in [Endpoint -> Nat]
  /\ NoQid \notin Qid

VARIABLES
  pc,       \* where the process is
  qid,      \* _CURRENT_QID while a chat runs
  ep,       \* the endpoint being tried
  usage,    \* _endpoint_usage, in memory
  file,     \* used_tokens in the usage files
  reply,    \* total_tokens of the response being recorded
  via,      \* attempt -> endpoint (the row's provider)
  sent,     \* attempts whose HTTP request left (history)
  charged   \* attempt -> tokens the provider charged for it (external)

clientVars == <<ledger, open, pc, qid, ep, usage, file, reply, via, sent, charged>>
local == <<usage, file, reply, via, sent, charged>>

MaxTokens == CHOOSE t \in Tokens : \A u \in Tokens : u <= t

ClientTypeOK ==
  /\ LedgerTypeOK
  /\ pc \in {"down", "idle", "trying", "begun", "sent", "counted"}
  /\ qid \in Qid \cup {NoQid} /\ ep \in Endpoint /\ reply \in Tokens
  /\ usage \in [Endpoint -> Nat] /\ file \in [Endpoint -> Nat]
  /\ DOMAIN via = DOMAIN ledger /\ \A a \in DOMAIN via : via[a] \in Endpoint
  /\ DOMAIN charged \subseteq sent /\ \A a \in DOMAIN charged : charged[a] \in Tokens

With(f, a, v) == [b \in DOMAIN f \cup {a} |-> IF b = a THEN v ELSE f[b]]

-----------------------------------------------------------------------------
EndChat  == pc' = "idle" /\ qid' = NoQid /\ ep' = 1

(* chat() moves to the next endpoint, or raises after the last one.        *)
NextEndpoint ==
  IF ep < NEndpoints THEN pc' = "trying" /\ ep' = ep + 1 /\ UNCHANGED qid
                     ELSE EndChat

(* __init__: usage is reloaded where there is a usage_file, else it is 0.  *)
BugForgetsUsage == /\ pc = "down" /\ pc' = "idle"
                   /\ usage' = [e \in Endpoint |-> 0]
                   /\ UNCHANGED <<ledger, open, qid, ep, file, reply, via, sent, charged>>
StartProcess ==
  /\ pc = "down" /\ pc' = "idle"
  /\ usage' = [e \in Endpoint |-> IF e \in UsageFile THEN file[e] ELSE 0]
  /\ UNCHANGED <<ledger, open, qid, ep, file, reply, via, sent, charged>>

ChatStart(q) ==
  /\ pc = "idle" /\ pc' = "trying"
  /\ qid' = q /\ ep' = 1
  /\ Cardinality(AttemptId \ DOMAIN ledger) >= NEndpoints   \* bound on attempts
  /\ UNCHANGED <<ledger, open, local>>

Exhausted == TokenBudget[ep] > 0 /\ usage[ep] >= TokenBudget[ep]

(* LLMProviderBudgetExhausted leaves chat() at once.                       *)
StopExhausted ==
  /\ pc = "trying" /\ Exhausted /\ EndChat
  /\ UNCHANGED <<ledger, open, local>>

(* So does ProviderCallBudgetExceeded, also on a fallback endpoint.        *)
BugRefusalTriedAgain(a) ==
  /\ pc = "trying" /\ ~Exhausted /\ RefuseProviderAttempt(a, qid)
  /\ via' = With(via, a, ep)
  /\ UNCHANGED <<pc, qid, ep, usage, file, reply, sent, charged>>
StopCallBudget(a) ==
  /\ pc = "trying" /\ ~Exhausted /\ RefuseProviderAttempt(a, qid)
  /\ via' = With(via, a, ep) /\ EndChat
  /\ UNCHANGED <<usage, file, reply, sent, charged>>

BugUnguardedFallback(a) ==
  /\ pc = "trying" /\ ~Exhausted /\ (ep > 1 \/ CallAllowed(qid))
  /\ AppendRow(a, qid, "STARTED") /\ open' = a
  /\ via' = With(via, a, ep) /\ pc' = "begun"
  /\ UNCHANGED <<qid, ep, usage, file, reply, sent, charged>>
BeginCall(a) ==
  /\ pc = "trying" /\ ~Exhausted /\ BeginProviderAttempt(a, qid)
  /\ via' = With(via, a, ep) /\ pc' = "begun"
  /\ UNCHANGED <<qid, ep, usage, file, reply, sent, charged>>

SendRequest ==
  /\ pc = "begun" /\ pc' = "sent"
  /\ sent' = sent \cup {open}
  /\ UNCHANGED <<ledger, open, qid, ep, usage, file, reply, via, charged>>

ProviderServes(a, t) ==
  /\ a \in sent \ DOMAIN charged
  /\ charged' = With(charged, a, t)
  /\ UNCHANGED <<ledger, open, pc, qid, ep, usage, file, reply, via, sent>>

(* An HTTP error.  A rejected completion cap, or a quota error of an       *)
(* endpoint with stop_on_exhaustion, is not passed on to the next endpoint.*)
HttpError(kind) ==
  /\ pc = "sent" /\ FinalizeFailed("ERROR")
  /\ IF kind = "capability" \/ (kind = "quota" /\ ep \in HardStop)
       THEN EndChat ELSE NextEndpoint
  /\ UNCHANGED local

(* No connection or an invalid body (ERROR), or a timeout: the row is      *)
(* closed with no tokens, whatever the provider charges.                   *)
NoAnswer(s) ==
  /\ pc = "sent" /\ FinalizeFailed(s) /\ NextEndpoint
  /\ UNCHANGED local

(* An exception no handler covers: a broken read, an undecodable body, a   *)
(* malformed token count.  The row stays STARTED.                          *)
Uncaught ==
  /\ pc \in {"sent", "counted"} /\ AbandonAttempt /\ EndChat
  /\ UNCHANGED local

(* A valid completion: usage is added in memory and written to the usage   *)
(* file before the ledger.  A response without usage counts as 0 tokens.   *)
BugUsageNotSaved(t) ==
  /\ pc = "sent" /\ open \in DOMAIN charged /\ t \in {charged[open], 0}
  /\ pc' = "counted" /\ reply' = t
  /\ usage' = [usage EXCEPT ![ep] = @ + t]
  /\ UNCHANGED <<ledger, open, qid, ep, file, via, sent, charged>>
Receive(t) ==
  /\ pc = "sent" /\ open \in DOMAIN charged /\ t \in {charged[open], 0}
  /\ pc' = "counted" /\ reply' = t
  /\ usage' = [usage EXCEPT ![ep] = @ + t]
  /\ file'  = IF ep \in UsageFile THEN [file EXCEPT ![ep] = usage'[ep]] ELSE file
  /\ UNCHANGED <<ledger, open, qid, ep, via, sent, charged>>

RecordCompleted ==
  /\ pc = "counted" /\ FinalizeCompleted(reply) /\ EndChat
  /\ UNCHANGED local

Crash ==
  /\ pc # "down" /\ pc' = "down"
  /\ open' = NoAttempt /\ qid' = NoQid /\ ep' = 1
  /\ UNCHANGED <<ledger, local>>

-----------------------------------------------------------------------------
ClientInit ==
  /\ LedgerInit /\ pc = "down" /\ qid = NoQid /\ ep = 1 /\ reply = 0
  /\ usage = [e \in Endpoint |-> 0] /\ file = [e \in Endpoint |-> 0]
  /\ via = [a \in {} |-> 1] /\ sent = {} /\ charged = [a \in {} |-> 0]

TryEndpoint == StopExhausted \/ \E a \in AttemptId : StopCallBudget(a) \/ BeginCall(a)
EndRequest  == \/ \E k \in {"capability", "quota", "other"} : HttpError(k)
               \/ \E s \in {"ERROR", "TIMEOUT"} : NoAnswer(s)
               \/ \E t \in Tokens : Receive(t)

ClientNext ==
  \/ StartProcess \/ Crash \/ Uncaught
  \/ \E q \in Qid : ChatStart(q)
  \/ TryEndpoint \/ SendRequest \/ EndRequest \/ RecordCompleted
  \/ \E a \in AttemptId, t \in Tokens : ProviderServes(a, t)

(* The process keeps running, and urlopen returns or times out             *)
(* (timeout_s); nothing is assumed of the provider, nor that it restarts.  *)
ClientSpec == /\ ClientInit /\ [][ClientNext]_clientVars
              /\ WF_clientVars(TryEndpoint) /\ WF_clientVars(SendRequest)
              /\ WF_clientVars(EndRequest)  /\ WF_clientVars(RecordCompleted)

-----------------------------------------------------------------------------
(* Every request that leaves is one the budgets paid for, on whichever     *)
(* endpoint of the chain: the guard runs again for each endpoint, and no   *)
(* crash or uncaught exception gives a call back.                          *)
RequestsWithinBudget ==
  /\ sent \subseteq DOMAIN ledger
  /\ \A q \in DOMAIN QidBudget :
       Cardinality({a \in sent : ledger[a].qid = q}) <= QidBudget[q]
  /\ MaxTotal > 0 => Cardinality(sent) <= MaxTotal

Via(e) == {a \in DOMAIN ledger : via[a] = e}
SumCharged(rows) == MapThenSumSet(LAMBDA a : charged[a], rows)

(* A usage file never lags behind the ledger, so a process that restarts   *)
(* after a crash between the two writes does not spend the difference      *)
(* again.                                                                  *)
UsageCoversLedger ==
  \A e \in UsageFile : TokensOf(Via(e)) <= file[e]

(* What the provider really charges a budgeted endpoint, over any number   *)
(* of restarts, exceeds its token budget by at most one call plus one call *)
(* for each row that carries no tokens: late answers, crashes and answers  *)
(* without usage are the only leaks, and each leaves such a row.           *)
ChargeWithinEndpointBudget ==
  \A e \in {d \in UsageFile : TokenBudget[d] > 0} :
    SumCharged(Via(e) \cap DOMAIN charged)
      < TokenBudget[e] + MaxTokens *
          (1 + Cardinality({a \in Via(e) \cap sent : ledger[a].tokens = 0}))

(* A chat ends, with an answer or an exception, after at most one attempt  *)
(* on each endpoint, unless the process dies.                              *)
ChatEnds == pc \notin {"down", "idle"} ~> pc \in {"down", "idle"}
=============================================================================
