------------------------ MODULE GapDrivenController ------------------------
(***************************************************************************)
(* One call of GapDrivenEvidenceController.run                             *)
(* (evidence_completion/gap_driven_controller.py): the evidence for every  *)
(* option of a question is searched, graded, bound and computed; what is   *)
(* still open is searched a second time; the facts of both rounds are      *)
(* deduplicated and the whole is computed again before the answer contract *)
(* decides.                                                                *)
(*                                                                         *)
(* The domain bridge (evidence_completion/domain_bridge.py) supplies the   *)
(* hits.  Of its three implementations two are the same search: the        *)
(* contract and the research bridge look at one anchored line per atom and *)
(* widen its window in the second round ("anchored"); the financial bridge *)
(* reads an immutable ledger and the second round keeps its preferred      *)
(* candidates only ("ledger").                                             *)
(*                                                                         *)
(* A CORRECT hit is named by the value it binds; an INCORRECT one is not   *)
(* kept, since nothing but the log reads it.  Ids, spans, hashes, the      *)
(* requirement graph and the transition log are left out; so are the two   *)
(* validators of lines 197-289, which find nothing in what these bridges   *)
(* return.                                                                 *)
(***************************************************************************)
EXTENDS Naturals, FiniteSets

CONSTANTS
  Option,     \* the option labels of the question
  Atom,       \* the claim atoms (operands, fields) of all its requirements
  Atoms,      \* Atoms[o]: the atoms of option o's requirement
  Value,      \* what a fact about an atom can say
  Rule,       \* Rule[o][c]: the deterministic tool of option o on operands c
  MaxRounds   \* the controller's max_rounds

Verdict == {"supported", "contradicted"}
Status  == Verdict \cup {"unresolved"}
Hit     == Value \cup {"AMBIGUOUS"}
Fact    == [atom : Atom, value : Value, round : {1, 2}]

(* Requirements are local to an option and never empty; a tool may refuse  *)
(* its operands (a zero denominator).                                      *)
ASSUME QuestionAssumption ==
  /\ Atoms \in [Option -> SUBSET Atom]
  /\ \A o \in Option : Atoms[o] # {}
  /\ \A o, p \in Option : o # p => Atoms[o] \cap Atoms[p] = {}
  /\ \A o \in Option : \A c \in [Atoms[o] -> Value] : Rule[o][c] \in Status
  /\ "AMBIGUOUS" \notin Value
  /\ MaxRounds \in Nat \ {0}

VARIABLES
  state,        \* ControllerState
  bridge,       \* which search the question's domain has
  format,       \* question.answer_format
  retrievable,  \* the options whose statement the bridge could parse
  hits,         \* hits[r][a]: what round r found for atom a, as graded
  facts,        \* the bound facts
  first,        \* the assessments after round 1
  need,         \* need_round2
  status,       \* the assessments after the recomputation
  answer        \* production_answer

question == <<bridge, format, retrievable>>
work     == <<hits, facts, first, need, status, answer>>
gapVars  == <<state, question, work>>

Bridge == {"ledger", "anchored"}
Format == {"single", "multi", "freeform"}
NoHits == [a \in Atom |-> {}]
Open   == [o \in Option |-> "unresolved"]

GapTypeOK ==
  /\ state \in {"COMPILE_REQUIREMENTS", "LOCAL_RETRIEVE", "GRADE_EVIDENCE",
                "BIND_FACTS", "ASSESS_SUFFICIENCY", "BUILD_NEXT_REQUESTS",
                "TARGETED_RETRIEVE", "RECOMPUTE", "DECIDE", "COMPLETED",
                "BLOCKED"}
  /\ bridge \in Bridge
  /\ format \in Format
  /\ retrievable \in SUBSET Option
  /\ hits \in [{1, 2} -> [Atom -> SUBSET Hit]]
  /\ facts \in SUBSET Fact
  /\ first \in [Option -> Status]
  /\ need \in SUBSET Option
  /\ status \in [Option -> Status]
  /\ answer \in SUBSET Option

-----------------------------------------------------------------------------
(* What the code computes from its facts                                   *)

\* bind_facts: the CORRECT hits of a round become facts.
BindFacts(r, found) ==
  {f \in Fact : f.round = r /\ f.value \in found[f.atom]}

\* An operand is usable when exactly one fact speaks of its atom.
Bound(fs, a) ==
  \E f \in fs : f.atom = a /\ \A g \in fs : g.atom = a => g = f

Operand(fs, a) == (CHOOSE f \in fs : f.atom = a).value

\* execute_tools and assess_option: one missing operand leaves it open.
Assess(fs, o) ==
  IF o \in retrievable /\ \A a \in Atoms[o] : Bound(fs, a)
    THEN Rule[o][[a \in Atoms[o] |-> Operand(fs, a)]]
    ELSE "unresolved"

BugKeepsOldest(fs) ==
  {f \in fs : \A g \in fs : g.atom = f.atom => g.round >= f.round}

\* _dedupe_latest_facts: one fact per atom, of the newest round.  Within a
\* round the smaller hash of the fact wins, which says nothing of its value.
Newest(fs) == {f \in fs : \A g \in fs : g.atom = f.atom => g.round <= f.round}

IsDeduped(fs, kept) ==
  /\ kept \subseteq Newest(fs)
  /\ \A f \in fs : Bound(kept, f.atom)

\* _answer_contract
Supported(s) == {o \in Option : s[o] = "supported"}

ContractClosed(s) ==
  /\ \A o \in Option : s[o] # "unresolved"
  /\ IF format = "single" THEN Cardinality(Supported(s)) = 1
                          ELSE Supported(s) # {}

-----------------------------------------------------------------------------
(* What the bridges may return                                             *)

AtMostOne(s) == \A x, y \in s : x = y

\* Round 1: nothing for a statement that did not parse; an anchored bridge
\* looks at one line per atom.
FirstSearch(found) ==
  \A o \in Option : \A a \in Atoms[o] :
    /\ o \notin retrievable => found[a] = {}
    /\ bridge = "anchored" => AtMostOne(found[a])

\* Round 2 of a requested atom: the preferred candidates once more, or the
\* same line in a wider window, which may read differently.
SearchedAgain(before, after) ==
  IF bridge = "ledger" THEN after = before \cap Value ELSE AtMostOne(after)

SecondSearch(found) ==
  \A o \in Option : \A a \in Atoms[o] :
    IF o \in need THEN SearchedAgain(hits[1][a], found[a]) ELSE found[a] = {}

-----------------------------------------------------------------------------
(* A freeform question has no options; nothing of it is retrievable and    *)
(* the contract refuses the empty answer.                                  *)
GapFresh ==
  /\ state = "COMPILE_REQUIREMENTS"
  /\ hits = [r \in {1, 2} |-> NoHits]
  /\ facts = {}
  /\ first = Open
  /\ need = {}
  /\ status = Open
  /\ answer = {}

GapInit ==
  /\ GapFresh
  /\ bridge \in Bridge
  /\ format \in Format
  /\ retrievable \in SUBSET Option
  /\ format = "freeform" => retrievable = {}

CompileRequirements ==
  /\ state = "COMPILE_REQUIREMENTS"
  /\ state' = "LOCAL_RETRIEVE"
  /\ UNCHANGED <<question, work>>

LocalRetrieve ==
  /\ state = "LOCAL_RETRIEVE"
  /\ \E found \in [Atom -> SUBSET Hit] :
       FirstSearch(found) /\ hits' = [hits EXCEPT ![1] = found]
  /\ state' = "GRADE_EVIDENCE"
  /\ UNCHANGED <<question, facts, first, need, status, answer>>

GradeAndBind ==
  /\ state = "GRADE_EVIDENCE"
  /\ facts' = BindFacts(1, hits[1])
  /\ state' = "BIND_FACTS"
  /\ UNCHANGED <<question, hits, first, need, status, answer>>

\* Tools and assessment over the facts as bound, then what to ask again.
Ambiguous(o) == \E a \in Atoms[o] : "AMBIGUOUS" \in hits[1][a]

BugNeedsAll(o, assessed) ==
  o \in retrievable /\ \E p \in Option : Ambiguous(p) \/ assessed[p] = "unresolved"

NeedsSecondRound(o, assessed) ==
  o \in retrievable /\ (Ambiguous(o) \/ assessed[o] = "unresolved")

AssessSufficiency ==
  /\ state = "BIND_FACTS"
  /\ first' = [o \in Option |-> Assess(facts, o)]
  /\ need' = {o \in Option : NeedsSecondRound(o, first')}
  /\ state' = "ASSESS_SUFFICIENCY"
  /\ UNCHANGED <<question, hits, facts, status, answer>>

BuildNextRequests ==
  /\ state = "ASSESS_SUFFICIENCY"
  /\ need # {} /\ MaxRounds >= 2
  /\ state' = "BUILD_NEXT_REQUESTS"
  /\ UNCHANGED <<question, work>>

TargetedRetrieve ==
  /\ state = "BUILD_NEXT_REQUESTS"
  /\ \E found \in [Atom -> SUBSET Hit] :
       SecondSearch(found) /\ hits' = [hits EXCEPT ![2] = found]
  /\ state' = "TARGETED_RETRIEVE"
  /\ UNCHANGED <<question, facts, first, need, status, answer>>

RebindFacts ==
  /\ state = "TARGETED_RETRIEVE"
  /\ LET all == facts \cup BindFacts(2, hits[2])
     IN  \E kept \in SUBSET Newest(all) : IsDeduped(all, kept) /\ facts' = kept
  /\ state' = "RECOMPUTE"
  /\ UNCHANGED <<question, hits, first, need, status, answer>>

NoSecondRound ==
  /\ state = "ASSESS_SUFFICIENCY"
  /\ need = {} \/ MaxRounds < 2
  /\ \E kept \in SUBSET Newest(facts) : IsDeduped(facts, kept) /\ facts' = kept
  /\ state' = "RECOMPUTE"
  /\ UNCHANGED <<question, hits, first, need, status, answer>>

Recompute ==
  /\ state = "RECOMPUTE"
  /\ status' = [o \in Option |-> Assess(facts, o)]
  /\ state' = "DECIDE"
  /\ UNCHANGED <<question, hits, facts, first, need, answer>>

Decide ==
  /\ state = "DECIDE"
  /\ IF ContractClosed(status)
       THEN state' = "COMPLETED" /\ answer' = Supported(status)
       ELSE state' = "BLOCKED" /\ answer' = {}
  /\ UNCHANGED <<question, hits, facts, first, need, status>>

GapNext ==
  \/ CompileRequirements \/ LocalRetrieve \/ GradeAndBind
  \/ AssessSufficiency \/ BuildNextRequests \/ TargetedRetrieve
  \/ RebindFacts \/ NoSecondRound \/ Recompute \/ Decide

GapSpec == GapInit /\ [][GapNext]_gapVars

-----------------------------------------------------------------------------
(* Properties                                                              *)

\* The values the newest round that found anything about an atom gives it.
LatestFound(a) ==
  IF hits[2][a] \cap Value # {} THEN hits[2][a] \cap Value
                                ELSE hits[1][a] \cap Value

(* The verdicts of a completed question follow from the latest evidence:   *)
(* for every option, one reading of its atoms taken from the newest round  *)
(* that found each of them gives exactly the verdict that was decided.     *)
(* About _dedupe_latest_facts (180-196) and the recomputation (563-606).   *)
VerdictsRestOnLatestEvidence ==
  state = "COMPLETED" =>
    \A o \in Option :
      \E c \in [Atoms[o] -> Value] :
        /\ \A a \in Atoms[o] : c[a] \in LatestFound(a)
        /\ status[o] = Rule[o][c]

(* Looking again never overturns: an option the first round closed keeps   *)
(* its verdict, although it is searched again when one of its hits was     *)
(* ambiguous and although every fact is deduplicated and every tool run    *)
(* again.  About lines 455-464 and 522-606.                                *)
ClosedVerdictsStand ==
  state \in {"DECIDE", "COMPLETED", "BLOCKED"} =>
    \A o \in Option : first[o] \in Verdict => status[o] = first[o]
=============================================================================
