--------------------------- MODULE WorkflowProofs ---------------------------
(***************************************************************************)
(* Proofs about Workflow.tla and the controller it runs                    *)
(* (GapDrivenController.tla), for any options, atoms, values and tools.    *)
(* The first part is about the controller: what its variables hold in      *)
(* every state (GapInv) and what follows for the verdicts.  The second     *)
(* part is about process_one: where it may be with which intermediate      *)
(* results (FlowInv).                                                      *)
(***************************************************************************)
EXTENDS Workflow, TLAPS

-----------------------------------------------------------------------------
(* The controller                                                          *)

Round1 == BindFacts(1, hits[1])
Round2 == BindFacts(2, hits[2])

Unsearched == {"COMPILE_REQUIREMENTS", "LOCAL_RETRIEVE"}
Unbound    == Unsearched \cup {"GRADE_EVIDENCE"}
FirstBound == {"BIND_FACTS", "ASSESS_SUFFICIENCY", "BUILD_NEXT_REQUESTS", "TARGETED_RETRIEVE"}
Assessing  == Unbound \cup {"BIND_FACTS"}
Rebound    == {"RECOMPUTE", "DECIDE", "COMPLETED", "BLOCKED"}
Decided    == {"DECIDE", "COMPLETED", "BLOCKED"}

\* What the searches found.
Found ==
  /\ state \in Unsearched => hits[1] = NoHits
  /\ state \notin Unsearched => FirstSearch(hits[1])
  /\ state \in Assessing \cup {"ASSESS_SUFFICIENCY", "BUILD_NEXT_REQUESTS"} => hits[2] = NoHits
  /\ hits[2] # NoHits => SecondSearch(hits[2])

\* What the first round came to.
FirstRound ==
  /\ state \in Unbound => facts = {}
  /\ state \in FirstBound => facts = Round1
  /\ state \notin Assessing => /\ first = [o \in Option |-> Assess(Round1, o)]
                               /\ need = {o \in Option : NeedsSecondRound(o, first)}

\* What both came to.
BothRounds ==
  /\ state \in Rebound => facts \subseteq Newest(Round1 \cup Round2)
                          /\ IsDeduped(Round1 \cup Round2, facts)
  /\ state \in Decided => status = [o \in Option |-> Assess(facts, o)]
  /\ state = "COMPLETED" => ContractClosed(status)

GapInv ==
  /\ GapTypeOK
  /\ format = "freeform" => retrievable = {}
  /\ Found /\ FirstRound /\ BothRounds

-----------------------------------------------------------------------------
\* An assessment is a status, which a rule returns.
LEMMA AssessType ==
  ASSUME GapTypeOK, NEW fs \in SUBSET Fact, NEW o \in Option
  PROVE  Assess(fs, o) \in Status
<1>1. CASE o \in retrievable /\ \A a \in Atoms[o] : Bound(fs, a)
  <2>1. \A a \in Atoms[o] : Operand(fs, a) \in Value
    <3> TAKE a \in Atoms[o]
    <3>1. \E f \in fs : f.atom = a
      BY <1>1 DEF Bound
    <3>2. (CHOOSE f \in fs : f.atom = a) \in Fact
      BY <3>1
    <3> QED BY <3>2 DEF Operand, Fact
  <2>2. [a \in Atoms[o] |-> Operand(fs, a)] \in [Atoms[o] -> Value]
    BY <2>1
  <2> QED BY <1>1, <2>2, QuestionAssumption DEF Assess
<1>2. CASE ~(o \in retrievable /\ \A a \in Atoms[o] : Bound(fs, a))
  BY <1>2 DEF Assess, Status
<1> QED BY <1>1, <1>2

\* Bound facts are facts.
LEMMA BindType ==
  ASSUME NEW r \in {1, 2}, NEW found
  PROVE  BindFacts(r, found) \in SUBSET Fact
BY DEF BindFacts

\* The one fact of a bound atom is its operand.
LEMMA OperandIs ==
  ASSUME NEW fs, NEW a, NEW f \in fs, f.atom = a, \A g \in fs : g.atom = a => g = f
  PROVE  Bound(fs, a) /\ Operand(fs, a) = f.value
BY DEF Bound, Operand

\* With nothing found in the second round, the facts are those of the first.
LEMMA NoRound2 ==
  ASSUME hits[2] = NoHits
  PROVE  Round2 = {}
BY DEF Round2, BindFacts, NoHits, Fact

-----------------------------------------------------------------------------
(* Every step of the controller keeps GapInv.                              *)

\* A controller that has not begun.
LEMMA FreshInv ==
  ASSUME GapFresh, bridge \in Bridge, format \in Format, retrievable \in SUBSET Option,
         format = "freeform" => retrievable = {}
  PROVE  GapInv
<1>1. GapTypeOK
  BY DEF GapFresh, GapTypeOK, NoHits, Open, Status
<1>2. Found /\ FirstRound /\ BothRounds
  BY DEF GapFresh, Found, FirstRound, BothRounds, Unsearched, Unbound, FirstBound, Assessing,
    Rebound, Decided
<1> QED BY <1>1, <1>2 DEF GapInv

\* Nothing has been searched yet.
LEMMA CompileInv ==
  ASSUME GapInv, CompileRequirements
  PROVE  GapInv'
<1>1. /\ state = "COMPILE_REQUIREMENTS" /\ state' = "LOCAL_RETRIEVE"
      /\ bridge' = bridge /\ format' = format /\ retrievable' = retrievable
      /\ hits' = hits /\ facts' = facts /\ first' = first /\ need' = need
      /\ status' = status /\ answer' = answer
  BY DEF CompileRequirements, question, work
<1>2. GapTypeOK'
  BY <1>1 DEF GapInv, GapTypeOK
<1>3. Found' /\ FirstRound' /\ BothRounds'
  BY <1>1 DEF GapInv, Found, FirstRound, BothRounds, Unsearched, Unbound, FirstBound, Assessing,
    Rebound, Decided
<1> QED BY <1>1, <1>2, <1>3 DEF GapInv

\* The first search.
LEMMA LocalInv ==
  ASSUME GapInv, LocalRetrieve
  PROVE  GapInv'
<1>1. PICK found \in [Atom -> SUBSET Hit] :
        FirstSearch(found) /\ hits' = [hits EXCEPT ![1] = found]
  BY DEF LocalRetrieve
<1>2. /\ state = "LOCAL_RETRIEVE" /\ state' = "GRADE_EVIDENCE"
      /\ bridge' = bridge /\ format' = format /\ retrievable' = retrievable
      /\ facts' = facts /\ first' = first /\ need' = need
      /\ status' = status /\ answer' = answer
  BY DEF LocalRetrieve, question
<1>3. hits'[1] = found /\ hits'[2] = hits[2] /\ hits' \in [{1, 2} -> [Atom -> SUBSET Hit]]
  BY <1>1 DEF GapInv, GapTypeOK
<1>4. GapTypeOK'
  BY <1>2, <1>3 DEF GapInv, GapTypeOK
<1>5. FirstSearch(hits[1])'
  BY <1>1, <1>2, <1>3 DEF FirstSearch
<1>6. Found' /\ FirstRound' /\ BothRounds'
  BY <1>2, <1>3, <1>5 DEF GapInv, Found, FirstRound, BothRounds, Unsearched, Unbound, FirstBound,
    Assessing, Rebound, Decided
<1> QED BY <1>2, <1>4, <1>6 DEF GapInv

\* The correct hits of the first search become the facts.
LEMMA GradeInv ==
  ASSUME GapInv, GradeAndBind
  PROVE  GapInv'
<1>1. /\ state = "GRADE_EVIDENCE" /\ state' = "BIND_FACTS"
      /\ bridge' = bridge /\ format' = format /\ retrievable' = retrievable
      /\ hits' = hits /\ facts' = BindFacts(1, hits[1]) /\ first' = first /\ need' = need
      /\ status' = status /\ answer' = answer
  BY DEF GradeAndBind, question
<1>2. GapTypeOK'
  BY <1>1, BindType DEF GapInv, GapTypeOK
<1>3. FirstSearch(hits[1])'
  BY <1>1 DEF GapInv, Found, FirstSearch, Unsearched
<1>4. facts' = Round1'
  BY <1>1 DEF Round1, BindFacts
<1>5. Found' /\ FirstRound' /\ BothRounds'
  BY <1>1, <1>3, <1>4 DEF GapInv, Found, FirstRound, BothRounds, Unsearched, Unbound, FirstBound,
    Assessing, Rebound, Decided
<1> QED BY <1>1, <1>2, <1>5 DEF GapInv

\* What depends on the first round only does not change once it is over.
LEMMA FirstKept ==
  ASSUME GapInv, state \notin Assessing, state' \notin Assessing,
         hits'[1] = hits[1], retrievable' = retrievable, first' = first, need' = need,
         state' \in FirstBound => facts' = Round1'
  PROVE  FirstRound'
<1>1. Round1' = Round1
  BY DEF Round1, BindFacts
<1>2. \A o \in Option : Assess(Round1, o)' = Assess(Round1, o)
  BY <1>1 DEF Assess
<1>3. \A o \in Option : NeedsSecondRound(o, first)' = NeedsSecondRound(o, first)
  BY DEF NeedsSecondRound, Ambiguous
<1>4. first' = [o \in Option |-> Assess(Round1, o)']
  BY <1>2 DEF GapInv, FirstRound
<1>5. need' = {o \in Option : NeedsSecondRound(o, first)'}
  BY <1>3 DEF GapInv, FirstRound
<1> QED BY <1>4, <1>5 DEF FirstRound, Unbound, Assessing

\* The first assessment, and what has to be searched again.
LEMMA AssessInv ==
  ASSUME GapInv, AssessSufficiency
  PROVE  GapInv'
<1>1. /\ state = "BIND_FACTS" /\ state' = "ASSESS_SUFFICIENCY"
      /\ bridge' = bridge /\ format' = format /\ retrievable' = retrievable
      /\ hits' = hits /\ facts' = facts /\ first' = [o \in Option |-> Assess(facts, o)]
      /\ need' = {o \in Option : NeedsSecondRound(o, first')}
      /\ status' = status /\ answer' = answer
  BY DEF AssessSufficiency, question
<1>2. facts = Round1 /\ facts \in SUBSET Fact
  BY <1>1 DEF GapInv, FirstRound, FirstBound, GapTypeOK
<1>3. first' \in [Option -> Status]
  BY <1>1, <1>2, AssessType DEF GapInv
<1>4. GapTypeOK'
  BY <1>1, <1>3 DEF GapInv, GapTypeOK
<1>5. Round1' = Round1
  BY <1>1 DEF Round1, BindFacts
<1>6. \A o \in Option : Assess(Round1, o)' = Assess(Round1, o)
  BY <1>1, <1>5 DEF Assess
<1>7. first' = [o \in Option |-> Assess(Round1, o)']
  BY <1>1, <1>2, <1>6
<1>8. \A o \in Option : NeedsSecondRound(o, first)' = NeedsSecondRound(o, first')
  BY <1>1 DEF NeedsSecondRound, Ambiguous
<1>9. FirstRound'
  BY <1>1, <1>2, <1>5, <1>7, <1>8 DEF FirstRound, Unbound, Assessing, FirstBound, Unsearched
<1>10. FirstSearch(hits[1])'
  BY <1>1 DEF GapInv, Found, FirstSearch, Unsearched
<1>11. Found' /\ BothRounds'
  BY <1>1, <1>10 DEF GapInv, Found, BothRounds, Unsearched, Unbound, Assessing, Rebound, Decided
<1> QED BY <1>1, <1>4, <1>9, <1>11 DEF GapInv

\* The requests for a second round.
LEMMA BuildInv ==
  ASSUME GapInv, BuildNextRequests
  PROVE  GapInv'
<1>1. /\ state = "ASSESS_SUFFICIENCY" /\ state' = "BUILD_NEXT_REQUESTS"
      /\ bridge' = bridge /\ format' = format /\ retrievable' = retrievable
      /\ hits' = hits /\ facts' = facts /\ first' = first /\ need' = need
      /\ status' = status /\ answer' = answer
  BY DEF BuildNextRequests, question, work
<1>2. GapTypeOK'
  BY <1>1 DEF GapInv, GapTypeOK
<1>3. facts' = Round1'
  BY <1>1 DEF GapInv, FirstRound, FirstBound, Round1, BindFacts
<1>4. FirstRound'
  BY <1>1, <1>3, FirstKept DEF Assessing, Unbound, Unsearched
<1>5. FirstSearch(hits[1])'
  BY <1>1 DEF GapInv, Found, FirstSearch, Unsearched
<1>6. Found' /\ BothRounds'
  BY <1>1, <1>5 DEF GapInv, Found, BothRounds, Unsearched, Unbound, Assessing, Rebound, Decided
<1> QED BY <1>1, <1>2, <1>4, <1>6 DEF GapInv

\* The second search.
LEMMA TargetInv ==
  ASSUME GapInv, TargetedRetrieve
  PROVE  GapInv'
<1>1. PICK found \in [Atom -> SUBSET Hit] :
        SecondSearch(found) /\ hits' = [hits EXCEPT ![2] = found]
  BY DEF TargetedRetrieve
<1>2. /\ state = "BUILD_NEXT_REQUESTS" /\ state' = "TARGETED_RETRIEVE"
      /\ bridge' = bridge /\ format' = format /\ retrievable' = retrievable
      /\ facts' = facts /\ first' = first /\ need' = need
      /\ status' = status /\ answer' = answer
  BY DEF TargetedRetrieve, question
<1>3. hits'[2] = found /\ hits'[1] = hits[1] /\ hits' \in [{1, 2} -> [Atom -> SUBSET Hit]]
  BY <1>1 DEF GapInv, GapTypeOK
<1>4. GapTypeOK'
  BY <1>2, <1>3 DEF GapInv, GapTypeOK
<1>5. facts' = Round1'
  BY <1>2, <1>3 DEF GapInv, FirstRound, FirstBound, Round1, BindFacts
<1>6. FirstRound'
  BY <1>2, <1>3, <1>5, FirstKept DEF Assessing, Unbound, Unsearched
<1>7. FirstSearch(hits[1])'
  BY <1>2, <1>3 DEF GapInv, Found, FirstSearch, Unsearched
<1>8. SecondSearch(hits[2])'
  BY <1>1, <1>2, <1>3 DEF SecondSearch, SearchedAgain
<1>9. Found' /\ BothRounds'
  BY <1>2, <1>7, <1>8 DEF GapInv, Found, BothRounds, Unsearched, Unbound, Assessing, Rebound,
    Decided
<1> QED BY <1>2, <1>4, <1>6, <1>9 DEF GapInv

\* Once both rounds are over, what they found stays.
LEMMA SearchesKept ==
  ASSUME GapInv, state \notin Assessing \cup {"ASSESS_SUFFICIENCY", "BUILD_NEXT_REQUESTS"},
         state' \notin Assessing \cup {"ASSESS_SUFFICIENCY", "BUILD_NEXT_REQUESTS"},
         hits' = hits, need' = need, bridge' = bridge, retrievable' = retrievable
  PROVE  Found'
<1>1. FirstSearch(hits[1])'
  BY DEF GapInv, Found, FirstSearch, Unsearched, Unbound, Assessing
<1>2. hits[2] # NoHits => SecondSearch(hits[2])'
  BY DEF GapInv, Found, SecondSearch, SearchedAgain
<1> QED BY <1>1, <1>2 DEF Found, Unsearched, Unbound, Assessing

\* Both ways to the recomputation leave the newest facts of both rounds.
LEMMA ReboundInv ==
  ASSUME GapInv, state \in FirstBound \ {"BIND_FACTS", "BUILD_NEXT_REQUESTS"},
         state' = "RECOMPUTE",
         bridge' = bridge, format' = format, retrievable' = retrievable, hits' = hits,
         first' = first, need' = need, status' = status, answer' = answer,
         facts' \subseteq Newest(Round1 \cup Round2),
         IsDeduped(Round1 \cup Round2, facts')
  PROVE  GapInv'
<1>1. facts' \in SUBSET Fact
  BY BindType DEF Newest, Round1, Round2
<1>2. GapTypeOK'
  BY <1>1 DEF GapInv, GapTypeOK
<1>3. Round1' = Round1 /\ Round2' = Round2
  BY DEF Round1, Round2, BindFacts
<1>4. BothRounds'
  BY <1>3 DEF BothRounds, Rebound, Decided
<1>5. FirstRound'
  BY FirstKept DEF Assessing, Unbound, Unsearched, FirstBound
<1>6. FirstSearch(hits[1])'
  BY DEF GapInv, Found, FirstSearch, FirstBound, Unsearched
<1>7. hits[2] # NoHits => SecondSearch(hits[2])'
  BY DEF GapInv, Found, SecondSearch, SearchedAgain
<1>8. Found'
  BY <1>6, <1>7 DEF Found, Unsearched, Unbound, Assessing
<1> QED BY <1>2, <1>4, <1>5, <1>8 DEF GapInv

\* The facts of both rounds, one for each atom.
LEMMA RebindInv ==
  ASSUME GapInv, RebindFacts
  PROVE  GapInv'
<1>1. /\ state = "TARGETED_RETRIEVE" /\ state' = "RECOMPUTE"
      /\ bridge' = bridge /\ format' = format /\ retrievable' = retrievable
      /\ hits' = hits /\ first' = first /\ need' = need
      /\ status' = status /\ answer' = answer
  BY DEF RebindFacts, question
<1>2. /\ facts' \subseteq Newest(facts \cup Round2)
      /\ IsDeduped(facts \cup Round2, facts')
  BY DEF RebindFacts, Round2
<1>3. facts = Round1
  BY <1>1 DEF GapInv, FirstRound, FirstBound
<1> QED BY <1>1, <1>2, <1>3, ReboundInv DEF FirstBound

\* The facts of the first round, one for each atom.
LEMMA NoSecondInv ==
  ASSUME GapInv, NoSecondRound
  PROVE  GapInv'
<1>1. /\ state = "ASSESS_SUFFICIENCY" /\ state' = "RECOMPUTE"
      /\ bridge' = bridge /\ format' = format /\ retrievable' = retrievable
      /\ hits' = hits /\ first' = first /\ need' = need
      /\ status' = status /\ answer' = answer
  BY DEF NoSecondRound, question
<1>2. facts' \subseteq Newest(facts) /\ IsDeduped(facts, facts')
  BY DEF NoSecondRound
<1>3. facts = Round1 /\ Round2 = {}
  BY <1>1, NoRound2 DEF GapInv, FirstRound, FirstBound, Found
<1>4. facts = Round1 \cup Round2
  BY <1>3
<1> QED BY <1>1, <1>2, <1>4, ReboundInv DEF FirstBound

\* The assessments of the facts that were kept.
LEMMA RecomputeInv ==
  ASSUME GapInv, Recompute
  PROVE  GapInv'
<1>1. /\ state = "RECOMPUTE" /\ state' = "DECIDE"
      /\ bridge' = bridge /\ format' = format /\ retrievable' = retrievable
      /\ hits' = hits /\ facts' = facts /\ first' = first /\ need' = need
      /\ status' = [o \in Option |-> Assess(facts, o)] /\ answer' = answer
  BY DEF Recompute, question
<1>2. facts \in SUBSET Fact
  BY DEF GapInv, GapTypeOK
<1>3. status' \in [Option -> Status]
  BY <1>1, <1>2, AssessType DEF GapInv
<1>4. GapTypeOK'
  BY <1>1, <1>3 DEF GapInv, GapTypeOK
<1>5. \A o \in Option : Assess(facts, o)' = Assess(facts, o)
  BY <1>1 DEF Assess
<1>6. status' = [o \in Option |-> Assess(facts, o)']
  BY <1>1, <1>5
<1>7. BothRounds'
  <2>1. Round1' = Round1 /\ Round2' = Round2
    BY <1>1 DEF Round1, Round2, BindFacts
  <2>2. facts' \subseteq Newest(Round1' \cup Round2') /\ IsDeduped(Round1' \cup Round2', facts')
    BY <1>1, <2>1 DEF GapInv, BothRounds, Rebound
  <2> QED BY <1>1, <1>6, <2>2 DEF BothRounds
<1>8. FirstRound'
  BY <1>1, FirstKept DEF Assessing, Unbound, Unsearched, FirstBound
<1>9. Found'
  BY <1>1, SearchesKept DEF Assessing, Unbound, Unsearched
<1> QED BY <1>1, <1>4, <1>7, <1>8, <1>9 DEF GapInv

\* The decision.
LEMMA DecideInv ==
  ASSUME GapInv, Decide
  PROVE  GapInv'
<1>1. /\ state = "DECIDE"
      /\ bridge' = bridge /\ format' = format /\ retrievable' = retrievable
      /\ hits' = hits /\ facts' = facts /\ first' = first /\ need' = need
      /\ status' = status
  BY DEF Decide, question
<1>2. \/ state' = "COMPLETED" /\ ContractClosed(status) /\ answer' = Supported(status)
      \/ state' = "BLOCKED" /\ answer' = {}
  BY DEF Decide
<1>3. answer' \in SUBSET Option
  BY <1>2 DEF Supported
<1>4. GapTypeOK'
  BY <1>1, <1>2, <1>3 DEF GapInv, GapTypeOK
<1>5. BothRounds'
  <2>1. Round1' = Round1 /\ Round2' = Round2
    BY <1>1 DEF Round1, Round2, BindFacts
  <2>2. facts' \subseteq Newest(Round1' \cup Round2') /\ IsDeduped(Round1' \cup Round2', facts')
    BY <1>1, <2>1 DEF GapInv, BothRounds, Rebound
  <2>3. \A o \in Option : Assess(facts, o)' = Assess(facts, o)
    BY <1>1 DEF Assess
  <2>4. status' = [o \in Option |-> Assess(facts, o)']
    BY <1>1, <2>3 DEF GapInv, BothRounds, Decided
  <2>5. state' = "COMPLETED" => ContractClosed(status)'
    BY <1>1, <1>2 DEF ContractClosed, Supported
  <2> QED BY <2>2, <2>4, <2>5 DEF BothRounds
<1>6. FirstRound'
  BY <1>1, <1>2, FirstKept DEF Assessing, Unbound, Unsearched, FirstBound
<1>7. Found'
  BY <1>1, <1>2, SearchesKept DEF Assessing, Unbound, Unsearched
<1> QED BY <1>1, <1>4, <1>5, <1>6, <1>7 DEF GapInv

\* Nothing changes.
LEMMA GapKept ==
  ASSUME GapInv, UNCHANGED gapVars
  PROVE  GapInv'
<1>1. /\ state' = state
      /\ bridge' = bridge /\ format' = format /\ retrievable' = retrievable
      /\ hits' = hits /\ facts' = facts /\ first' = first /\ need' = need
      /\ status' = status /\ answer' = answer
  BY DEF gapVars, question, work
<1>2. GapTypeOK'
  BY <1>1 DEF GapInv, GapTypeOK
<1>3. Round1' = Round1 /\ Round2' = Round2
  BY <1>1 DEF Round1, Round2, BindFacts
<1>4. FirstSearch(hits[1])' = FirstSearch(hits[1]) /\ SecondSearch(hits[2])' = SecondSearch(hits[2])
  BY <1>1 DEF FirstSearch, SecondSearch, SearchedAgain
<1>5. Found'
  BY <1>1, <1>4 DEF GapInv, Found
<1>6. /\ \A o \in Option : Assess(Round1, o)' = Assess(Round1, o)
      /\ \A o \in Option : Assess(facts, o)' = Assess(facts, o)
      /\ \A o \in Option : NeedsSecondRound(o, first)' = NeedsSecondRound(o, first)
  BY <1>1, <1>3 DEF Assess, NeedsSecondRound, Ambiguous
<1>7. FirstRound'
  <2>1. state \notin Assessing => first' = [o \in Option |-> Assess(Round1, o)']
    BY <1>1, <1>6 DEF GapInv, FirstRound
  <2>2. state \notin Assessing => need' = {o \in Option : NeedsSecondRound(o, first)'}
    BY <1>1, <1>6 DEF GapInv, FirstRound
  <2> QED BY <1>1, <1>3, <2>1, <2>2 DEF GapInv, FirstRound
<1>8. BothRounds'
  <2>1. state \in Decided => status' = [o \in Option |-> Assess(facts, o)']
    BY <1>1, <1>6 DEF GapInv, BothRounds
  <2>2. ContractClosed(status)' = ContractClosed(status)
    BY <1>1 DEF ContractClosed, Supported
  <2> QED BY <1>1, <1>3, <2>1, <2>2 DEF GapInv, BothRounds
<1> QED BY <1>1, <1>2, <1>5, <1>7, <1>8 DEF GapInv

\* The invariant of the controller survives each of its steps.
LEMMA GapStepInv ==
  ASSUME GapInv, GapNext
  PROVE  GapInv'
BY CompileInv, LocalInv, GradeInv, AssessInv, BuildInv, TargetInv, RebindInv, NoSecondInv,
  RecomputeInv, DecideInv DEF GapNext

-----------------------------------------------------------------------------
(* What GapInv says of the verdicts                                        *)

\* The fact that decides a bound atom.
LEMMA BoundFact ==
  ASSUME NEW fs \in SUBSET Fact, NEW a, Bound(fs, a)
  PROVE  \E f \in fs : /\ f.atom = a /\ f.value = Operand(fs, a) /\ f.value \in Value
                      /\ \A g \in fs : g.atom = a => g = f
<1>1. PICK f \in fs : f.atom = a /\ \A g \in fs : g.atom = a => g = f
  BY DEF Bound
<1>2. Operand(fs, a) = f.value
  BY <1>1, OperandIs
<1> QED BY <1>1, <1>2 DEF Fact

\* A fact is bound from a hit of its round, and every value found is bound.
LEMMA FactFromHit ==
  ASSUME NEW r \in {1, 2}, NEW f \in BindFacts(r, hits[r])
  PROVE  f \in Fact /\ f.round = r /\ f.value \in hits[r][f.atom] \cap Value
BY DEF BindFacts, Fact

\* A correct hit becomes a fact.
LEMMA HitToFact ==
  ASSUME NEW r \in {1, 2}, NEW a \in Atom, NEW v \in hits[r][a] \cap Value
  PROVE  [atom |-> a, value |-> v, round |-> r] \in BindFacts(r, hits[r])
BY DEF BindFacts, Fact

\* Each operand of a decided verdict is the one fact kept for its atom, of the
\* newest round.
LEMMA LatestDecides ==
  ASSUME GapInv
  PROVE  VerdictsRestOnLatestEvidence
<1> SUFFICES ASSUME state = "COMPLETED", NEW o \in Option
             PROVE  \E c \in [Atoms[o] -> Value] :
                      /\ \A a \in Atoms[o] : c[a] \in LatestFound(a)
                      /\ status[o] = Rule[o][c]
  BY DEF VerdictsRestOnLatestEvidence
<1>1. /\ facts \in SUBSET Fact
      /\ facts \subseteq Newest(Round1 \cup Round2)
      /\ status[o] = Assess(facts, o) /\ status[o] # "unresolved"
  BY DEF GapInv, GapTypeOK, BothRounds, Rebound, Decided, ContractClosed
<1>2. /\ \A a \in Atoms[o] : Bound(facts, a)
      /\ status[o] = Rule[o][[a \in Atoms[o] |-> Operand(facts, a)]]
  BY <1>1 DEF Assess
<1>3. \A a \in Atoms[o] : Operand(facts, a) \in LatestFound(a) /\ Operand(facts, a) \in Value
  <2> TAKE a \in Atoms[o]
  <2>1. PICK f \in facts : f.atom = a /\ f.value = Operand(facts, a) /\ f.value \in Value
    BY <1>1, <1>2, BoundFact
  <2>2. /\ f \in Round1 \cup Round2
        /\ \A g \in Round1 \cup Round2 : g.atom = a => g.round <= f.round
    BY <1>1, <2>1 DEF Newest
  <2>3. a \in Atom
    BY QuestionAssumption
  <2>4. CASE hits[2][a] \cap Value # {}
    <3>1. PICK v \in hits[2][a] \cap Value : TRUE
      BY <2>4
    <3>2. [atom |-> a, value |-> v, round |-> 2] \in Round2
      BY <2>3, HitToFact DEF Round2
    <3>3. 2 <= f.round
      BY <2>2, <3>2
    <3>4. f \notin Round1
      BY <3>3, FactFromHit DEF Round1
    <3>5. f.value \in hits[2][a] \cap Value
      BY <2>1, <2>2, <3>4, FactFromHit DEF Round2
    <3> QED BY <2>1, <2>4, <3>5 DEF LatestFound
  <2>5. CASE hits[2][a] \cap Value = {}
    <3>1. f \in Round1
      BY <2>1, <2>2, <2>5, FactFromHit DEF Round2
    <3>2. f.value \in hits[1][a] \cap Value
      BY <2>1, <3>1, FactFromHit DEF Round1
    <3> QED BY <2>1, <2>5, <3>2 DEF LatestFound
  <2> QED BY <2>4, <2>5
<1> DEFINE c == [a \in Atoms[o] |-> Operand(facts, a)]
<1>4. c \in [Atoms[o] -> Value] /\ \A a \in Atoms[o] : c[a] = Operand(facts, a)
  BY <1>3
<1> QED BY <1>2, <1>3, <1>4

\* The second round finds nothing new about an atom of a closed option.
LEMMA NothingNew ==
  ASSUME GapInv, state \in Decided, NEW o \in Option, first[o] \in Verdict,
         \A a \in Atoms[o] : Bound(Round1, a), NEW a \in Atoms[o]
  PROVE  hits[2][a] \cap Value \subseteq hits[1][a] \cap Value
<1>1. a \in Atom
  BY QuestionAssumption
<1>2. CASE hits[2] = NoHits
  BY <1>1, <1>2 DEF NoHits
<1>3. CASE hits[2] # NoHits /\ o \notin need
  BY <1>3 DEF GapInv, Found, SecondSearch
<1>4. CASE hits[2] # NoHits /\ o \in need
  <2>1. PICK b \in Atoms[o] : "AMBIGUOUS" \in hits[1][b]
    BY <1>4 DEF GapInv, FirstRound, Decided, Assessing, Unbound, Unsearched, NeedsSecondRound,
      Ambiguous, Verdict
  <2>2. Round1 \in SUBSET Fact
    BY BindType DEF Round1
  <2>3. PICK f \in Round1 : f.atom = b /\ f.value \in Value
    BY <2>2, BoundFact
  <2>4. f.value \in hits[1][b] /\ f.value # "AMBIGUOUS"
    BY <2>3, FactFromHit, QuestionAssumption DEF Round1
  <2>5. FirstSearch(hits[1])
    BY DEF GapInv, Found, Decided, Unsearched
  <2>6. bridge # "anchored"
    BY <2>1, <2>4, <2>5 DEF FirstSearch, AtMostOne
  <2>7. hits[2][a] = hits[1][a] \cap Value
    BY <1>4, <2>6 DEF GapInv, GapTypeOK, Bridge, Found, SecondSearch, SearchedAgain
  <2> QED BY <2>7
<1> QED BY <1>2, <1>3, <1>4

\* What a second search brings for a closed option is the value it had, or
\* nothing.
LEMMA ClosedStand ==
  ASSUME GapInv
  PROVE  ClosedVerdictsStand
<1> SUFFICES ASSUME state \in Decided, NEW o \in Option, first[o] \in Verdict
             PROVE  status[o] = first[o]
  BY DEF ClosedVerdictsStand, Decided
<1>1. /\ facts \in SUBSET Fact /\ Round1 \in SUBSET Fact
      /\ facts \subseteq Newest(Round1 \cup Round2)
      /\ IsDeduped(Round1 \cup Round2, facts)
      /\ status[o] = Assess(facts, o)
      /\ first[o] = Assess(Round1, o)
  BY BindType DEF GapInv, GapTypeOK, BothRounds, FirstRound, Round1, Rebound, Decided, Assessing,
    Unbound, Unsearched
<1>2. /\ o \in retrievable
      /\ \A a \in Atoms[o] : Bound(Round1, a)
      /\ first[o] = Rule[o][[a \in Atoms[o] |-> Operand(Round1, a)]]
  BY <1>1 DEF Assess, Verdict
<1>3. \A a \in Atoms[o] : Bound(facts, a) /\ Operand(facts, a) = Operand(Round1, a)
  <2> TAKE a \in Atoms[o]
  <2>1. PICK f1 \in Round1 : /\ f1.atom = a /\ f1.value = Operand(Round1, a)
                            /\ \A g \in Round1 : g.atom = a => g = f1
    BY <1>1, <1>2, BoundFact
  <2>2. Bound(facts, a)
    BY <1>1, <2>1 DEF IsDeduped
  <2>3. PICK f \in facts : f.atom = a /\ f.value = Operand(facts, a)
    BY <1>1, <2>2, BoundFact
  <2>4. f \in Round1 \cup Round2
    BY <1>1, <2>3 DEF Newest
  <2>5. a \in Atom
    BY QuestionAssumption
  <2>6. f.value \in hits[1][a] \cap Value
    BY <1>2, <2>3, <2>4, FactFromHit, NothingNew DEF Round1, Round2
  <2>7. [atom |-> a, value |-> f.value, round |-> 1] \in Round1
    BY <2>5, <2>6, HitToFact DEF Round1
  <2>8. f.value = f1.value
    BY <2>1, <2>7
  <2> QED BY <2>1, <2>2, <2>3, <2>8
<1>4. [a \in Atoms[o] |-> Operand(facts, a)] = [a \in Atoms[o] |-> Operand(Round1, a)]
  BY <1>3
<1> QED BY <1>1, <1>2, <1>3, <1>4 DEF Assess

-----------------------------------------------------------------------------
(* process_one                                                             *)

FlowTypeOK ==
  /\ pc \in {"start", "prepare", "assemble", "budget", "orchestrate", "solve", "contract",
             "verify", "override", "assess", "emit", "budget_stop", "failed", "fallback", "done"}
  /\ enforce \in {"unread", "on", "off"}
  /\ prepared \in {"nothing", "classified", "bundled"}
  /\ result \in Result /\ SolverResult(format, result)
  /\ check \in SelfCheck
  /\ typed \in Typed
  /\ final \in SUBSET Option
  /\ solves \in 0..2
  /\ stopped \in BOOLEAN
  /\ outcome \in Outcome \cup {Running}

\* What the final assessment has let pass.
Cleared ==
  enforce = "on" /\ format # "freeform" =>
    \E crossDoc, retrieved, cited \in BOOLEAN :
      ~Blocked(result, check, typed, final, crossDoc, retrieved, cited)

Unsolved == {"start", "prepare", "assemble", "budget", "orchestrate", "solve"}

FlowInv ==
  /\ pc # "orchestrate" => Idle
  /\ stopped => pc \in {"budget_stop", "done"}
  /\ pc \in Unsolved => solves = 0
  /\ pc # "done" => solves \in {0, 1} /\ outcome = Running
  /\ pc = "emit" => Cleared
  /\ outcome.by = "workflow" => outcome.answer = final /\ Cleared

WorkflowInv == GapInv /\ FlowTypeOK /\ FlowInv

-----------------------------------------------------------------------------
\* The orchestrator's answer is a result a solver may return.
LEMMA NoResultIs ==
  ASSUME NEW answered \in SUBSET Option, NEW lineage \in BOOLEAN,
         format = "freeform" => answered = {} /\ lineage
  PROVE  LET r == [NoResult EXCEPT !.answer = answered, !.lineage = lineage]
         IN  r \in Result /\ SolverResult(format, r)
BY DEF NoResult, Result, SolverResult, Dummy

\* A blocked or raised question has no answer.
LEMMA EndedIs ==
  ASSUME NEW kind \in {"blocked", "raised"}
  PROVE  Ended(kind) \in Outcome /\ Ended(kind).by = "nobody"
BY DEF Ended, Running, Outcome

\* A question that has just come.
LEMMA InitInv ==
  ASSUME WorkflowInit
  PROVE  WorkflowInv
<1>1. GapInv
  BY FreshInv DEF WorkflowInit, Idle, Bridge
<1>2. NoResult \in Result /\ SolverResult(format, NoResult)
  BY DEF NoResult, Result, SolverResult, Dummy
<1>3. NoCheck \in SelfCheck /\ NoTyped \in Typed
  BY DEF NoCheck, SelfCheck, NoTyped, Typed, Nothing, Evidence, Finding
<1>4. FlowTypeOK
  <2>1. /\ pc = "start" /\ enforce = "unread" /\ prepared = "nothing" /\ final = {}
        /\ solves = 0 /\ stopped = FALSE /\ outcome = Running
    BY DEF WorkflowInit
  <2>2. result \in Result /\ SolverResult(format, result)
    BY <1>2 DEF WorkflowInit
  <2>3. check \in SelfCheck /\ typed \in Typed
    BY <1>3 DEF WorkflowInit
  <2>4. solves \in 0..2 /\ outcome \in Outcome \cup {Running}
    BY <2>1
  <2>5. stopped \in BOOLEAN
    BY <2>1
  <2> QED BY <2>1, <2>2, <2>3, <2>4, <2>5 DEF FlowTypeOK
<1>5. FlowInv
  BY DEF WorkflowInit, FlowInv, Running
<1> QED BY <1>1, <1>4, <1>5 DEF WorkflowInv

\* A call of the controller starts and returns fresh.
LEMMA ReturnInv ==
  ASSUME GapInv, ControllerReturns
  PROVE  GapInv' /\ Idle'
<1>1. Idle'
  BY DEF ControllerReturns, Idle, GapFresh, NoHits, Open
<1>2. format' \in Format /\ retrievable' = {} /\ bridge' \in Bridge
  BY DEF ControllerReturns, GapInv, GapTypeOK, Bridge
<1>3. GapTypeOK'
  BY <1>1, <1>2 DEF Idle, GapFresh, GapTypeOK, NoHits, Open, Status
<1>4. Found' /\ FirstRound' /\ BothRounds'
  BY <1>1 DEF Idle, GapFresh, Found, FirstRound, BothRounds, Unsearched, Unbound, FirstBound,
    Assessing, Rebound, Decided
<1> QED BY <1>1, <1>2, <1>3, <1>4 DEF GapInv

\* Calling the controller leaves it as it was, for a question of the same
\* format.
LEMMA CallInv ==
  ASSUME GapInv, Idle, bridge' \in Bridge, retrievable' \in SUBSET Option,
         format = "freeform" => retrievable' = {},
         UNCHANGED <<state, format, work>>
  PROVE  GapInv'
<1>1. /\ state' = state /\ format' = format /\ hits' = hits /\ facts' = facts
      /\ first' = first /\ need' = need /\ status' = status /\ answer' = answer
  BY DEF work
<1>2. GapTypeOK'
  BY <1>1 DEF GapInv, GapTypeOK
<1>3. Found' /\ FirstRound' /\ BothRounds'
  BY <1>1 DEF Idle, GapFresh, Found, FirstRound, BothRounds, Unsearched, Unbound, FirstBound,
    Assessing, Rebound, Decided
<1> QED BY <1>1, <1>2, <1>3 DEF GapInv

\* A freeform question is never completed by the controller.
LEMMA FreeformOpen ==
  ASSUME GapInv, state = "COMPLETED"
  PROVE  format # "freeform"
<1>1. SUFFICES ASSUME retrievable = {} PROVE FALSE
  BY DEF GapInv
<1>2. status[DryRunLabel] = Assess(facts, DryRunLabel) /\ status[DryRunLabel] # "unresolved"
  BY DryRunAssumption DEF GapInv, BothRounds, Decided, ContractClosed
<1> QED BY <1>1, <1>2 DEF Assess

\* The local variables only matter to FlowTypeOK and Cleared.
LEMMA LocalKept ==
  ASSUME FlowTypeOK, format' = format, UNCHANGED <<result, check, typed, final, enforce>>
  PROVE  /\ result' \in Result /\ SolverResult(format, result)'
         /\ Cleared' = Cleared
<1>1. /\ format' = format /\ result' = result /\ check' = check /\ typed' = typed
      /\ final' = final /\ enforce' = enforce
  OBVIOUS
<1> QED BY <1>1 DEF FlowTypeOK, Cleared, SolverResult, Dummy, Blocked, VerifierAnswers,
  VerifierComplete, Deciding, OptionsOpen, Proposal

-----------------------------------------------------------------------------
(* Every step of process_one keeps WorkflowInv.                            *)

\* While the controller is not called it stays as it is.
LEMMA IdleKept ==
  ASSUME WorkflowInv, pc # "orchestrate", UNCHANGED gapVars
  PROVE  GapInv' /\ Idle' /\ format' = format
<1>1. GapInv'
  BY GapKept DEF WorkflowInv
<1>2. /\ state' = state
      /\ bridge' = bridge /\ format' = format /\ retrievable' = retrievable
      /\ hits' = hits /\ facts' = facts /\ first' = first /\ need' = need
      /\ status' = status /\ answer' = answer
  BY DEF gapVars, question, work
<1>3. Idle
  BY DEF WorkflowInv, FlowInv
<1>4. Idle'
  BY <1>2, <1>3 DEF Idle, GapFresh
<1> QED BY <1>1, <1>2, <1>4

\* Going on without a result keeps the invariant, when none was there or it is
\* dropped.
LEMMA GotoInv ==
  ASSUME WorkflowInv, GapInv', Idle', format' = format, pc # "done", ~stopped,
         NEW next \in {"prepare", "solve", "assess", "failed", "fallback"}, Goto(next),
         next \in Unsolved => pc \in Unsolved
  PROVE  WorkflowInv'
<1>1. /\ pc' = next /\ enforce' = enforce /\ prepared' = prepared /\ result' = result
      /\ check' = check /\ typed' = typed /\ final' = final /\ solves' = solves
      /\ stopped' = stopped /\ outcome' = outcome
  BY DEF Goto, local
<1>2. result' \in Result /\ SolverResult(format, result)'
  BY <1>1, LocalKept DEF WorkflowInv
<1>3. FlowTypeOK'
  BY <1>1, <1>2 DEF WorkflowInv, FlowTypeOK
<1>4. FlowInv'
  BY <1>1 DEF WorkflowInv, FlowInv, Running, Unsolved
<1> QED BY <1>3, <1>4 DEF WorkflowInv

\* Block and Raise.
LEMMA EndInv ==
  ASSUME WorkflowInv, GapInv', Idle', format' = format, pc # "done",
         NEW kind \in {"blocked", "raised"},
         pc' = "done", outcome' = Ended(kind),
         UNCHANGED <<enforce, prepared, result, check, typed, final, solves, stopped>>
  PROVE  WorkflowInv'
<1>1. result' \in Result /\ SolverResult(format, result)'
  BY LocalKept DEF WorkflowInv
<1>2. FlowTypeOK'
  BY <1>1, EndedIs DEF WorkflowInv, FlowTypeOK
<1>3. FlowInv'
  BY EndedIs DEF WorkflowInv, FlowInv, Unsolved
<1> QED BY <1>2, <1>3 DEF WorkflowInv

\* The slot contract holds, or the question is blocked or fails.
LEMMA CheckSlotContractInv ==
  ASSUME WorkflowInv, CheckSlotContract
  PROVE  WorkflowInv'
<1>1. pc = "start" /\ GapInv' /\ Idle' /\ format' = format /\ ~stopped
  BY IdleKept DEF CheckSlotContract, WorkflowInv, FlowInv
<1>2. CASE Goto("prepare")
  BY <1>1, <1>2, GotoInv DEF Unsolved
<1>3. CASE Block
  BY <1>1, <1>3, EndInv DEF Block
<1> QED BY <1>2, <1>3 DEF CheckSlotContract

\* Classifying and assembling compute nothing the invariant speaks of.
LEMMA PrepareInv ==
  ASSUME WorkflowInv, Classify \/ Assemble
  PROVE  WorkflowInv'
<1>1. /\ pc \in {"prepare", "assemble"} /\ pc' \in {"assemble", "budget", "failed"}
      /\ prepared' \in {prepared, "classified", "bundled"}
      /\ enforce' = enforce /\ result' = result /\ check' = check /\ typed' = typed
      /\ final' = final /\ solves' = solves /\ stopped' = stopped /\ outcome' = outcome
      /\ UNCHANGED gapVars
  BY DEF Classify, Assemble
<1>2. GapInv' /\ Idle' /\ format' = format
  BY <1>1, IdleKept
<1>3. result' \in Result /\ SolverResult(format, result)'
  BY <1>1, <1>2, LocalKept DEF WorkflowInv
<1>4. FlowTypeOK'
  BY <1>1, <1>3 DEF WorkflowInv, FlowTypeOK
<1>5. FlowInv'
  BY <1>1, <1>2 DEF WorkflowInv, FlowInv, Running, Unsolved
<1> QED BY <1>2, <1>4, <1>5 DEF WorkflowInv

\* The prompt budget stops the question for good.
LEMMA CheckPromptBudgetInv ==
  ASSUME WorkflowInv, CheckPromptBudget
  PROVE  WorkflowInv'
<1>1. /\ pc = "budget" /\ enforce' = enforce /\ prepared' = prepared /\ result' = result
      /\ check' = check /\ typed' = typed /\ final' = final /\ solves' = solves
      /\ outcome' = outcome
      /\ \/ pc' \in {"solve", "orchestrate"} /\ stopped' = stopped
         \/ pc' = "budget_stop" /\ stopped' = TRUE
  BY DEF CheckPromptBudget
<1>2. GapInv' /\ format' = format /\ (pc' # "orchestrate" => Idle')
  <2>1. CASE pc' = "orchestrate"
    <3>1. Idle
      BY <1>1 DEF WorkflowInv, FlowInv
    <3> QED BY <2>1, <3>1, CallInv DEF CheckPromptBudget, WorkflowInv
  <2>2. CASE pc' # "orchestrate"
    BY <1>1, <2>2, IdleKept DEF CheckPromptBudget
  <2> QED BY <2>1, <2>2
<1>3. result' \in Result /\ SolverResult(format, result)'
  BY <1>1, <1>2, LocalKept DEF WorkflowInv
<1>4. stopped' \in BOOLEAN
  BY <1>1 DEF WorkflowInv, FlowTypeOK
<1>5. FlowTypeOK'
  BY <1>1, <1>3, <1>4 DEF WorkflowInv, FlowTypeOK
<1>6. FlowInv'
  BY <1>1, <1>2 DEF WorkflowInv, FlowInv, Running, Unsolved
<1> QED BY <1>2, <1>5, <1>6 DEF WorkflowInv

\* A step of the controller, for this question.
LEMMA OrchestrateInv ==
  ASSUME WorkflowInv, Orchestrate
  PROVE  WorkflowInv'
<1>1. /\ pc = "orchestrate" /\ pc' = pc /\ enforce' = enforce /\ prepared' = prepared
      /\ result' = result /\ check' = check /\ typed' = typed /\ final' = final
      /\ solves' = solves /\ stopped' = stopped /\ outcome' = outcome
  BY DEF Orchestrate, local
<1>2. GapInv'
  BY GapStepInv DEF Orchestrate, WorkflowInv
<1>3. format' = format
  BY DEF Orchestrate, GapNext, CompileRequirements, LocalRetrieve, GradeAndBind,
    AssessSufficiency, BuildNextRequests, TargetedRetrieve, RebindFacts, NoSecondRound,
    Recompute, Decide, question
<1>4. result' \in Result /\ SolverResult(format, result)'
  BY <1>1, <1>3, LocalKept DEF WorkflowInv
<1>5. FlowTypeOK'
  BY <1>1, <1>4 DEF WorkflowInv, FlowTypeOK
<1>6. FlowInv'
  BY <1>1 DEF WorkflowInv, FlowInv, Running, Unsolved
<1> QED BY <1>2, <1>5, <1>6 DEF WorkflowInv

\* A completed controller answers with its decision.
LEMMA OrchestratorAnswersInv ==
  ASSUME WorkflowInv, OrchestratorAnswers
  PROVE  WorkflowInv'
<1>1. /\ pc = "orchestrate" /\ state = "COMPLETED" /\ pc' = "contract"
      /\ result' = [NoResult EXCEPT !.answer = answer, !.lineage = FALSE]
      /\ enforce' = enforce /\ prepared' = prepared /\ check' = check /\ typed' = typed
      /\ final' = final /\ solves' = solves /\ stopped' = stopped /\ outcome' = outcome
  BY DEF OrchestratorAnswers
<1>2. GapInv' /\ Idle' /\ format' = format
  BY ReturnInv DEF OrchestratorAnswers, ControllerReturns, WorkflowInv
<1>3. answer \in SUBSET Option /\ format # "freeform"
  BY <1>1, FreeformOpen DEF WorkflowInv, GapInv, GapTypeOK
<1>4. result' \in Result /\ SolverResult(format, result')
  BY <1>1, <1>3, NoResultIs
<1>5. SolverResult(format, result)'
  BY <1>2, <1>4 DEF SolverResult, Dummy
<1>6. FlowTypeOK'
  BY <1>1, <1>4, <1>5 DEF WorkflowInv, FlowTypeOK
<1>7. FlowInv'
  BY <1>1, <1>2 DEF WorkflowInv, FlowInv, Running, Unsolved
<1> QED BY <1>2, <1>6, <1>7 DEF WorkflowInv

\* A controller that stays open, or raises.
LEMMA OrchestratorEndsInv ==
  ASSUME WorkflowInv, OrchestratorOpen \/ OrchestratorRaises
  PROVE  WorkflowInv'
<1>1. /\ pc = "orchestrate" /\ ControllerReturns /\ ~stopped
      /\ Block \/ Goto("solve") \/ Goto("failed")
  BY DEF OrchestratorOpen, OrchestratorRaises, WorkflowInv, FlowInv
<1>2. GapInv' /\ Idle' /\ format' = format
  BY <1>1, ReturnInv DEF ControllerReturns, WorkflowInv
<1>3. CASE Block
  BY <1>1, <1>2, <1>3, EndInv DEF Block
<1>4. CASE Goto("solve") \/ Goto("failed")
  BY <1>1, <1>2, <1>4, GotoInv DEF Unsolved
<1> QED BY <1>1, <1>3, <1>4

\* The solver returns a result, or raises.
LEMMA SolveInv ==
  ASSUME WorkflowInv, Solve
  PROVE  WorkflowInv'
<1>1. /\ pc = "solve" /\ solves' = solves + 1
      /\ enforce' = enforce /\ prepared' = prepared /\ check' = check /\ typed' = typed
      /\ final' = final
  BY DEF Solve
<1>2. GapInv' /\ Idle' /\ format' = format
  BY <1>1, IdleKept DEF Solve
<1>3. solves = 0 /\ outcome = Running /\ ~stopped
  BY <1>1 DEF WorkflowInv, FlowInv, Unsolved
<1>4. \/ /\ result' \in Result /\ SolverResult(format, result') /\ pc' = "contract"
         /\ stopped' = stopped /\ outcome' = outcome
      \/ pc' = "failed" /\ result' = result /\ stopped' = stopped /\ outcome' = outcome
      \/ pc' = "budget_stop" /\ stopped' = TRUE /\ result' = result /\ outcome' = outcome
      \/ pc' = "done" /\ stopped' = TRUE /\ outcome' = Ended("raised") /\ result' = result
  BY DEF Solve
<1>5. result' \in Result /\ SolverResult(format, result')
  BY <1>4 DEF WorkflowInv, FlowTypeOK
<1>6. SolverResult(format, result)'
  BY <1>2, <1>5 DEF SolverResult, Dummy
<1>7. stopped' \in BOOLEAN /\ solves' \in 0..2
  <2>1. stopped \in BOOLEAN
    BY DEF WorkflowInv, FlowTypeOK
  <2>2. stopped' \in BOOLEAN
    <3>1. stopped' = stopped \/ stopped' = TRUE
      BY <1>4
    <3> QED BY <2>1, <3>1
  <2>3. solves' \in 0..2
    BY <1>1, <1>3
  <2> QED BY <2>2, <2>3
<1>8. outcome' \in Outcome \cup {Running} /\ outcome'.by = "nobody"
  BY <1>3, <1>4, EndedIs DEF Running
<1>9. FlowTypeOK'
  BY <1>1, <1>4, <1>5, <1>6, <1>7, <1>8 DEF WorkflowInv, FlowTypeOK
<1>10. FlowInv'
  BY <1>1, <1>2, <1>3, <1>4, <1>8 DEF FlowInv, Unsolved
<1> QED BY <1>2, <1>9, <1>10 DEF WorkflowInv

\* The answer contract of the result.
LEMMA CheckContractInv ==
  ASSUME WorkflowInv, CheckContract
  PROVE  WorkflowInv'
<1>1. pc = "contract" /\ GapInv' /\ Idle' /\ format' = format /\ ~stopped
  BY IdleKept DEF CheckContract, WorkflowInv, FlowInv
<1>2. CASE Goto("assess")
  BY <1>1, <1>2, GotoInv DEF Unsolved
<1>3. CASE Block
  BY <1>1, <1>3, EndInv DEF Block
<1>4. CASE /\ pc' = "verify" /\ final' = result.answer
           /\ UNCHANGED <<enforce, prepared, result, check, typed, solves, stopped, outcome>>
  <2>1. result' \in Result /\ SolverResult(format, result)'
    BY <1>1, <1>4 DEF WorkflowInv, FlowTypeOK, SolverResult, Dummy
  <2>2. final' \in SUBSET Option
    BY <1>4 DEF WorkflowInv, FlowTypeOK, Result
  <2>3. FlowTypeOK'
    BY <1>4, <2>1, <2>2 DEF WorkflowInv, FlowTypeOK
  <2>4. FlowInv'
    BY <1>1, <1>4 DEF WorkflowInv, FlowInv, Running, Unsolved
  <2> QED BY <1>1, <2>3, <2>4 DEF WorkflowInv
<1> QED BY <1>2, <1>3, <1>4 DEF CheckContract

\* The self-check and its correction gate.
LEMMA VerifyInv ==
  ASSUME WorkflowInv, Verify
  PROVE  WorkflowInv'
<1>1. pc = "verify" /\ GapInv' /\ Idle' /\ format' = format /\ ~stopped /\ outcome = Running
  BY IdleKept DEF Verify, WorkflowInv, FlowInv
<1>2. /\ pc' \in {"override", "failed"}
      /\ enforce' = enforce /\ prepared' = prepared /\ result' = result /\ typed' = typed
      /\ solves' = solves /\ stopped' = stopped /\ outcome' = outcome
  BY DEF Verify
<1>3. check' \in SelfCheck /\ final' \in SUBSET Option
  <2>1. check \in SelfCheck /\ final \in SUBSET Option /\ result.answer \in SUBSET Option
    BY DEF WorkflowInv, FlowTypeOK, Result
  <2>2. NoCheck \in SelfCheck
    BY DEF NoCheck, SelfCheck, Nothing, Evidence, Finding
  <2>3. check' \in SelfCheck
    BY <2>1, <2>2 DEF Verify
  <2>4. SelfCheckProposal(result.answer, check'.verdict) \in SUBSET Option
    BY <2>1 DEF SelfCheckProposal, Selected
  <2> QED BY <2>1, <2>3, <2>4 DEF Verify
<1>4. result' \in Result /\ SolverResult(format, result)'
  BY <1>1, <1>2 DEF WorkflowInv, FlowTypeOK, SolverResult, Dummy
<1>5. FlowTypeOK'
  BY <1>2, <1>3, <1>4 DEF WorkflowInv, FlowTypeOK
<1>6. FlowInv'
  BY <1>1, <1>2 DEF WorkflowInv, FlowInv, Running, Unsolved
<1> QED BY <1>1, <1>5, <1>6 DEF WorkflowInv

\* The switch of production integrity has a value once it is read.
LEMMA EnforceRead ==
  ASSUME FlowTypeOK, ReadEnforce
  PROVE  enforce' \in {"on", "off"}
BY DEF FlowTypeOK, ReadEnforce

\* The typed evidence may replace the answer.
LEMMA OverrideInv ==
  ASSUME WorkflowInv, Override
  PROVE  WorkflowInv'
<1>1. pc = "override" /\ GapInv' /\ Idle' /\ format' = format /\ ~stopped /\ outcome = Running
  BY IdleKept DEF Override, WorkflowInv, FlowInv
<1>2. /\ pc' \in {"assess", "failed"} /\ enforce' \in {"on", "off"}
      /\ prepared' = prepared /\ result' = result /\ check' = check
      /\ solves' = solves /\ stopped' = stopped /\ outcome' = outcome
  BY EnforceRead DEF Override, WorkflowInv
<1>3. typed' \in Typed /\ final' \in SUBSET Option
  <2>1. typed \in Typed /\ final \in SUBSET Option
    BY DEF WorkflowInv, FlowTypeOK
  <2>2. Selected(typed'.verdict) \in SUBSET Option
    BY DEF Selected
  <2> QED BY <2>1, <2>2 DEF Override
<1>4. result' \in Result /\ SolverResult(format, result)'
  BY <1>1, <1>2 DEF WorkflowInv, FlowTypeOK, SolverResult, Dummy
<1>5. FlowTypeOK'
  BY <1>2, <1>3, <1>4 DEF WorkflowInv, FlowTypeOK
<1>6. FlowInv'
  BY <1>1, <1>2 DEF WorkflowInv, FlowInv, Running, Unsolved
<1> QED BY <1>1, <1>5, <1>6 DEF WorkflowInv

\* An answer passes when it is not blocked by its evidence.
LEMMA AssessFinalStateInv ==
  ASSUME WorkflowInv, AssessFinalState
  PROVE  WorkflowInv'
<1>1. pc = "assess" /\ GapInv' /\ Idle' /\ format' = format /\ ~stopped /\ outcome = Running
  BY IdleKept DEF AssessFinalState, WorkflowInv, FlowInv
<1>2. /\ enforce' \in {"on", "off"} /\ prepared' = prepared /\ result' = result
      /\ check' = check /\ typed' = typed /\ final' = final
      /\ solves' = solves /\ stopped' = stopped
  BY EnforceRead DEF AssessFinalState, WorkflowInv
<1>3. \/ pc' = "emit" /\ Passes /\ outcome' = outcome
      \/ pc' = "failed" /\ outcome' = outcome
      \/ pc' = "done" /\ outcome' = Ended("blocked")
  BY DEF AssessFinalState
<1>4. result' \in Result /\ SolverResult(format, result)'
  BY <1>1, <1>2 DEF WorkflowInv, FlowTypeOK, SolverResult, Dummy
<1>5. outcome' \in Outcome \cup {Running} /\ outcome'.by = "nobody"
  BY <1>1, <1>3, EndedIs DEF Running
<1>6. FlowTypeOK'
  BY <1>2, <1>3, <1>4, <1>5 DEF WorkflowInv, FlowTypeOK
<1>7. ASSUME pc' = "emit" PROVE Cleared'
  <2>1. SUFFICES ASSUME enforce' = "on", format # "freeform"
                 PROVE  \E crossDoc, retrieved, cited \in BOOLEAN :
                          ~Blocked(result, check, typed, final, crossDoc, retrieved, cited)
    BY <1>1, <1>2 DEF Cleared, Dummy, Blocked, VerifierAnswers, VerifierComplete, Deciding,
      OptionsOpen, Proposal
  <2>2. Passes
    BY <1>3, <1>7
  <2> QED BY <2>1, <2>2 DEF Passes, MayBeBlocked, Assessed
<1>8. FlowInv'
  BY <1>1, <1>2, <1>3, <1>5, <1>7 DEF WorkflowInv, FlowInv, Unsolved
<1> QED BY <1>1, <1>6, <1>8 DEF WorkflowInv

\* What is emitted is what passed.
LEMMA EmitInv ==
  ASSUME WorkflowInv, Emit
  PROVE  WorkflowInv'
<1>1. pc = "emit" /\ GapInv' /\ Idle' /\ format' = format /\ ~stopped /\ Cleared
  BY IdleKept DEF Emit, WorkflowInv, FlowInv
<1>2. CASE Block
  BY <1>1, <1>2, EndInv DEF Block
<1>3. CASE /\ pc' = "done"
           /\ outcome' = [kind |-> "accepted", answer |-> final, grounded |-> TRUE,
                          by |-> "workflow"]
           /\ UNCHANGED <<enforce, prepared, result, check, typed, final, solves, stopped>>
  <2>1. /\ result' \in Result /\ SolverResult(format, result)'
        /\ Cleared'
    BY <1>1, <1>3, LocalKept DEF WorkflowInv
  <2>2. outcome' \in Outcome
    BY <1>3 DEF WorkflowInv, FlowTypeOK, Outcome
  <2>3. FlowTypeOK'
    BY <1>3, <2>1, <2>2 DEF WorkflowInv, FlowTypeOK
  <2>4. FlowInv'
    BY <1>1, <1>3, <2>1 DEF WorkflowInv, FlowInv, Unsolved
  <2> QED BY <1>1, <2>3, <2>4 DEF WorkflowInv
<1> QED BY <1>2, <1>3 DEF Emit

\* The handlers end the question, or lead to the fallback.
LEMMA HandlersInv ==
  ASSUME WorkflowInv, BlockOnBudget \/ Fail
  PROVE  WorkflowInv'
<1>1. pc \in {"budget_stop", "failed"} /\ GapInv' /\ Idle' /\ format' = format
  BY IdleKept DEF BlockOnBudget, Fail
<1>2. CASE Block
  BY <1>1, <1>2, EndInv DEF Block
<1>3. CASE Raise
  BY <1>1, <1>3, EndInv DEF Raise
<1>4. CASE pc = "failed" /\ Goto("fallback")
  <2>1. ~stopped
    BY <1>4 DEF WorkflowInv, FlowInv
  <2> QED BY <1>1, <1>4, <2>1, GotoInv DEF Unsolved
<1> QED BY <1>2, <1>3, <1>4 DEF BlockOnBudget, Fail

\* The fallback solver ends the question.
LEMMA FallbackInv ==
  ASSUME WorkflowInv, Fallback
  PROVE  WorkflowInv'
<1>1. pc = "fallback" /\ GapInv' /\ Idle' /\ format' = format /\ ~stopped /\ solves \in {0, 1}
  BY IdleKept DEF Fallback, WorkflowInv, FlowInv
<1>2. /\ pc' = "done" /\ enforce' \in {"on", "off"} /\ prepared' = prepared
      /\ check' = check /\ typed' = typed /\ final' = final
      /\ solves' = solves + 1 /\ stopped' = stopped
  BY EnforceRead DEF Fallback, WorkflowInv
<1>3. result' \in Result /\ SolverResult(format, result')
  BY DEF Fallback, WorkflowInv, FlowTypeOK
<1>4. SolverResult(format, result)'
  BY <1>1, <1>3 DEF SolverResult, Dummy
<1>5. result'.answer \in SUBSET Option
  BY <1>3 DEF Result
<1>6. outcome' \in Outcome /\ outcome'.by # "workflow"
  <2>1. CASE outcome' = Ended("blocked")
    BY <2>1, EndedIs
  <2>2. CASE outcome' = [kind |-> "accepted", answer |-> result'.answer,
                         grounded |-> TRUE, by |-> "fallback"]
    BY <1>5, <2>2 DEF Outcome
  <2> QED BY <2>1, <2>2 DEF Fallback
<1>7. solves' \in 0..2
  BY <1>1, <1>2
<1>8. FlowTypeOK'
  BY <1>2, <1>3, <1>4, <1>6, <1>7 DEF WorkflowInv, FlowTypeOK
<1>9. FlowInv'
  BY <1>1, <1>2, <1>6 DEF FlowInv, Unsolved
<1> QED BY <1>1, <1>8, <1>9 DEF WorkflowInv

\* Nothing changes.
LEMMA StayInv ==
  ASSUME WorkflowInv, UNCHANGED vars
  PROVE  WorkflowInv'
<1>1. /\ pc' = pc /\ enforce' = enforce /\ prepared' = prepared /\ result' = result
      /\ check' = check /\ typed' = typed /\ final' = final /\ solves' = solves
      /\ stopped' = stopped /\ outcome' = outcome /\ UNCHANGED gapVars
  BY DEF vars, local
<1>2. GapInv' /\ format' = format /\ (pc' # "orchestrate" => Idle')
  <2>1. GapInv'
    BY <1>1, GapKept DEF WorkflowInv
  <2>2. format' = format
    BY <1>1 DEF gapVars, question
  <2> QED BY <1>1, <2>1, <2>2, IdleKept
<1>3. result' \in Result /\ SolverResult(format, result)' /\ Cleared' = Cleared
  BY <1>1, <1>2, LocalKept DEF WorkflowInv
<1>4. FlowTypeOK'
  BY <1>1, <1>3 DEF WorkflowInv, FlowTypeOK
<1>5. FlowInv'
  BY <1>1, <1>2, <1>3 DEF WorkflowInv, FlowInv, Unsolved
<1> QED BY <1>2, <1>4, <1>5 DEF WorkflowInv

\* The invariant survives every step of process_one.
LEMMA StepInv ==
  ASSUME WorkflowInv, [Step \/ Done]_vars
  PROVE  WorkflowInv'
BY CheckSlotContractInv, PrepareInv, CheckPromptBudgetInv, OrchestrateInv,
  OrchestratorAnswersInv, OrchestratorEndsInv, SolveInv, CheckContractInv, VerifyInv,
  OverrideInv, AssessFinalStateInv, EmitInv, HandlersInv, FallbackInv, StayInv DEF Step, Done

\* Wherever process_one may be, its intermediate results are those the code has
\* computed by then, and what passed the final assessment was not blocked by
\* its evidence.
THEOREM Invariance == WorkflowSpec => []WorkflowInv
<1>1. WorkflowInit => WorkflowInv
  BY InitInv
<1>2. WorkflowInv /\ [Step \/ Done]_vars => WorkflowInv'
  BY StepInv
<1> QED BY <1>1, <1>2, PTL DEF WorkflowSpec

(* process_one never leaves its states: among them, at most two solver     *)
(* calls a question, and what a solver returns is what was checked.        *)
THEOREM WorkflowTypeCorrect == WorkflowSpec => []WorkflowTypeOK
<1>1. WorkflowInv => WorkflowTypeOK
  BY DEF WorkflowInv, GapInv, FlowTypeOK, WorkflowTypeOK
<1> QED BY <1>1, Invariance, PTL

(* The verdicts of a completed question follow from the latest evidence,   *)
(* for any options, atoms, values and tools.                               *)
THEOREM LatestEvidence == WorkflowSpec => []VerdictsRestOnLatestEvidence
<1>1. WorkflowInv => VerdictsRestOnLatestEvidence
  BY LatestDecides DEF WorkflowInv
<1> QED BY <1>1, Invariance, PTL

(* The second round never overturns what the first one closed.             *)
THEOREM ClosedStays == WorkflowSpec => []ClosedVerdictsStand
<1>1. WorkflowInv => ClosedVerdictsStand
  BY ClosedStand DEF WorkflowInv
<1> QED BY <1>1, Invariance, PTL

(* What the main path emits under production integrity is what the         *)
(* deciding evidence says of every option, whoever changed the answer.     *)
THEOREM EmittedFollows == WorkflowSpec => []EmittedAnswerFollowsEvidence
<1>1. ASSUME WorkflowInv PROVE EmittedAnswerFollowsEvidence
  <2> SUFFICES ASSUME outcome.by = "workflow", enforce = "on", format # "freeform"
               PROVE  /\ ~Dummy(result) /\ ~result.truncated
                      /\ \A v \in Deciding(check, typed) :
                           /\ Selected(v) \subseteq outcome.answer
                           /\ outcome.answer \subseteq Selected(v) \cup result.grounded
                           /\ \A o \in Option : v[o] = "contradicted" => o \notin outcome.answer
    BY DEF EmittedAnswerFollowsEvidence
  <2>1. outcome.answer = final /\ Cleared
    BY <1>1 DEF WorkflowInv, FlowInv
  <2>2. /\ ~Dummy(result) /\ ~result.truncated
        /\ \A v \in Deciding(check, typed) : ~OptionsOpen(final, v, result.grounded)
    BY <2>1 DEF Cleared, Blocked
  <2>3. ASSUME NEW v \in Deciding(check, typed)
        PROVE  /\ Selected(v) \subseteq final
               /\ final \subseteq Selected(v) \cup result.grounded
               /\ \A o \in Option : v[o] = "contradicted" => o \notin final
    <3>1. v \in Evidence /\ final \in SUBSET Option
      BY <1>1 DEF WorkflowInv, FlowTypeOK, Deciding, SelfCheck, Typed
    <3>2. /\ SelectedUnresolved(final, v) \ result.grounded = {}
          /\ SelectedContradicted(final, v) = {} /\ UnselectedSupported(final, v) = {}
      BY <2>2 DEF OptionsOpen
    <3>3. \A o \in Option : v[o] \in Finding
      BY <3>1 DEF Evidence
    <3> QED BY <3>1, <3>2, <3>3 DEF SelectedUnresolved, SelectedContradicted,
          UnselectedSupported, Selected, Finding
  <2> QED BY <2>1, <2>2, <2>3
<1> QED BY <1>1, Invariance, PTL

(* No solver is asked again after a budget exception.                      *)
THEOREM BudgetFinal == WorkflowSpec => BudgetStopsAreFinal
<1>1. WorkflowInv /\ [Step \/ Done]_vars => (stopped => UNCHANGED solves)
  <2> SUFFICES ASSUME WorkflowInv, [Step \/ Done]_vars, stopped
               PROVE  solves' = solves
    OBVIOUS
  <2>1. pc \in {"budget_stop", "done"}
    BY DEF WorkflowInv, FlowInv
  <2> QED BY <2>1 DEF Step, Done, CheckSlotContract, Classify, Assemble, CheckPromptBudget,
        Orchestrate, OrchestratorAnswers, OrchestratorOpen, OrchestratorRaises, Solve,
        CheckContract, Verify, Override, AssessFinalState, Emit, BlockOnBudget, Fail, Fallback,
        Block, vars, local
<1>2. WorkflowInv /\ [Step \/ Done]_vars => [stopped => UNCHANGED solves]_vars
  BY <1>1
<1> QED BY <1>2, Invariance, PTL DEF WorkflowSpec, BudgetStopsAreFinal
-----------------------------------------------------------------------------
(* The safety half of EveryQuestionEnds: whatever is found, raised or      *)
(* refused, the next step is one further on.                               *)

\* How many steps the controller has left at most, and its caller with it.
StateLeft ==
  CASE state = "COMPILE_REQUIREMENTS" -> 10 [] state = "LOCAL_RETRIEVE" -> 9
    [] state = "GRADE_EVIDENCE" -> 8 [] state = "BIND_FACTS" -> 7
    [] state = "ASSESS_SUFFICIENCY" -> 6 [] state = "BUILD_NEXT_REQUESTS" -> 5
    [] state = "TARGETED_RETRIEVE" -> 4 [] state = "RECOMPUTE" -> 3
    [] state = "DECIDE" -> 2 [] OTHER -> 1
PlaceLeft ==
  CASE pc = "start" -> 24 [] pc = "prepare" -> 23 [] pc = "assemble" -> 22 [] pc = "budget" -> 21
    [] pc = "solve" -> 10 [] pc = "contract" -> 9 [] pc = "verify" -> 8 [] pc = "override" -> 7
    [] pc = "assess" -> 6 [] pc = "emit" -> 5 [] pc = "failed" -> 3 [] pc = "fallback" -> 2
    [] pc = "budget_stop" -> 1 [] OTHER -> 0
StepsLeft == IF pc = "orchestrate" THEN 10 + StateLeft ELSE PlaceLeft

\* Nothing process_one does takes it back.
QuestionAdvances == [][StepsLeft' < StepsLeft]_vars

\* A question has at most so many steps left.
LEMMA StepsLeftNat == StepsLeft \in 0..24 /\ StateLeft \in 1..10 /\ PlaceLeft \in 0..24
<1>1. StateLeft \in 1..10
  BY DEF StateLeft
<1>2. PlaceLeft \in 0..24
  BY DEF PlaceLeft
<1>3. StepsLeft = 10 + StateLeft \/ StepsLeft = PlaceLeft
  BY DEF StepsLeft
<1> QED BY <1>1, <1>2, <1>3

\* Each of the controller's states is nearer to its decision than the last.
LEMMA ControllerAdvances == GapNext => StateLeft' \in Nat /\ StateLeft \in Nat /\ StateLeft' < StateLeft
BY DEF GapNext, StateLeft, CompileRequirements, LocalRetrieve, GradeAndBind, AssessSufficiency,
       BuildNextRequests, TargetedRetrieve, RebindFacts, NoSecondRound, Recompute, Decide

\* Every step of process_one leaves fewer.
LEMMA StepAdvances == Step => StepsLeft' < StepsLeft
<1> SUFFICES ASSUME Step PROVE StepsLeft' < StepsLeft
  OBVIOUS
<1>1. /\ StateLeft \in 1..10 /\ StateLeft' \in 1..10
      /\ pc = "orchestrate" => StepsLeft = 10 + StateLeft
      /\ pc # "orchestrate" => StepsLeft = PlaceLeft
      /\ pc' = "orchestrate" => StepsLeft' = 10 + StateLeft'
      /\ pc' # "orchestrate" => StepsLeft' = PlaceLeft'
  BY DEF StepsLeft, StateLeft
<1>2. CASE Orchestrate
  <2>1. ASSUME NEW m \in Nat, NEW n \in Nat, m < n PROVE 10 + m < 10 + n
    BY <2>1
  <2>2. 10 + StateLeft' < 10 + StateLeft
    BY <1>2, <2>1, ControllerAdvances DEF Orchestrate
  <2>3. pc = "orchestrate" /\ pc' = "orchestrate"
    BY <1>2 DEF Orchestrate
  <2>4. StepsLeft = 10 + StateLeft /\ StepsLeft' = 10 + StateLeft'
    BY <2>3 DEF StepsLeft
  <2> QED BY <2>2, <2>4, Zenon
<1>3. CASE OrchestratorAnswers \/ OrchestratorOpen \/ OrchestratorRaises
  <2>1. pc = "orchestrate" /\ pc' \in {"contract", "solve", "failed", "done"}
    BY <1>3 DEF OrchestratorAnswers, OrchestratorOpen, OrchestratorRaises, Block, Goto
  <2>2. PlaceLeft' \in 0..10
    BY <2>1 DEF PlaceLeft
  <2> QED BY <1>1, <2>1, <2>2
<1>4. CASE CheckPromptBudget
  <2>1. pc = "budget" /\ pc' \in {"solve", "orchestrate", "budget_stop"}
    BY <1>4 DEF CheckPromptBudget
  <2>2. PlaceLeft = 21 /\ PlaceLeft' \in 0..10
    BY <2>1 DEF PlaceLeft
  <2> QED BY <1>1, <2>1, <2>2
<1>5. ASSUME pc # "orchestrate", pc' # "orchestrate", PlaceLeft' < PlaceLeft
      PROVE  StepsLeft' < StepsLeft
  BY <1>1, <1>5
<1>6. CASE CheckSlotContract \/ Classify \/ Assemble
  BY <1>5, <1>6 DEF CheckSlotContract, Classify, Assemble, Goto, Block, PlaceLeft
<1>7. CASE Solve \/ CheckContract
  <2>1. \/ pc = "solve" /\ pc' \in {"contract", "failed", "budget_stop", "done"}
        \/ pc = "contract" /\ pc' \in {"assess", "verify", "done"}
    BY <1>7 DEF Solve, CheckContract, Goto, Block
  <2> QED BY <1>5, <2>1 DEF PlaceLeft
<1>8. CASE Verify \/ Override
  <2>1. \/ pc = "verify" /\ pc' \in {"override", "failed"}
        \/ pc = "override" /\ pc' \in {"assess", "failed"}
    BY <1>8 DEF Verify, Override
  <2> QED BY <1>5, <2>1 DEF PlaceLeft
<1>9. CASE AssessFinalState \/ Emit
  <2>1. \/ pc = "assess" /\ pc' \in {"emit", "failed", "done"}
        \/ pc = "emit" /\ pc' = "done"
    BY <1>9 DEF AssessFinalState, Emit, Block
  <2> QED BY <1>5, <2>1 DEF PlaceLeft
<1>10. CASE BlockOnBudget \/ Fail \/ Fallback
  <2>1. \/ pc \in {"budget_stop", "fallback"} /\ pc' = "done"
        \/ pc = "failed" /\ pc' \in {"fallback", "done"}
    BY <1>10 DEF BlockOnBudget, Fail, Fallback, Block, Goto, Raise
  <2> QED BY <1>5, <2>1 DEF PlaceLeft
<1> QED BY <1>2, <1>3, <1>4, <1>6, <1>7, <1>8, <1>9, <1>10 DEF Step

\* A question takes at most 24 steps, whatever is found and raised where. That
\* it takes them is what the fairness is for.
THEOREM QuestionIsBounded ==
  WorkflowSpec => [](StepsLeft \in 0..24 /\ (StepsLeft = 0 <=> pc = "done")) /\ QuestionAdvances
<1>1. [Step \/ Done]_vars => [StepsLeft' < StepsLeft]_vars
  BY StepAdvances DEF Done
<1>2. WorkflowTypeOK => StepsLeft \in 0..24 /\ (StepsLeft = 0 <=> pc = "done")
  <2> SUFFICES ASSUME WorkflowTypeOK
               PROVE  StepsLeft \in 0..24 /\ (StepsLeft = 0 <=> pc = "done")
    OBVIOUS
  <2>1. pc # "orchestrate" => (PlaceLeft = 0 <=> pc = "done")
    BY DEF WorkflowTypeOK, PlaceLeft
  <2>2. CASE pc = "orchestrate"
    <3>1. StepsLeft = 10 + StateLeft
      BY <2>2 DEF StepsLeft
    <3> QED BY <2>2, <3>1, StepsLeftNat
  <2>3. CASE pc # "orchestrate"
    <3>1. StepsLeft = PlaceLeft
      BY <2>3 DEF StepsLeft
    <3> QED BY <2>1, <2>3, <3>1, StepsLeftNat
  <2> QED BY <2>2, <2>3
<1> QED BY <1>1, <1>2, WorkflowTypeCorrect, PTL DEF WorkflowSpec, QuestionAdvances
=============================================================================
