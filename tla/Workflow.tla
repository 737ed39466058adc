------------------------------ MODULE Workflow ------------------------------
(***************************************************************************)
(* EnhancedBaselineWorkflow.process_one (agent/workflow.py): one question  *)
(* from its slot contract to an emitted answer, a blocking error or an     *)
(* exception that leaves process_one.  The evidence orchestrator it may    *)
(* run is the controller of GapDrivenController.tla, step by step; the     *)
(* checks after the solver are those of ProductionIntegrity.tla.           *)
(*                                                                         *)
(* A step that calls out (classifier, retriever, assembler, solver,        *)
(* verifiers) may raise instead.  A flag of the configuration that is read *)
(* at one place only is drawn there.  The metadata, the shadow observer    *)
(* and the high-risk verifier, which never changes an answer, are left     *)
(* out.                                                                    *)
(***************************************************************************)
EXTENDS GapDrivenController

CONSTANT DryRunLabel \* the placeholder of dry_run_answer (solvers/base.py)

ASSUME DryRunAssumption == DryRunLabel \in Option

INSTANCE ProductionIntegrity WITH Label <- Option

VARIABLES
  pc,        \* where process_one is
  enforce,   \* enforce_production_integrity, once it has been read
  prepared,  \* classification and bundle: "nothing", "classified", "bundled"
  result,    \* solver_result
  check,     \* the self-check
  typed,     \* typed_option_evidence
  final,     \* final_answer
  solves,    \* how often a solver's solve was called
  stopped,   \* the main path raised one of the three budget exceptions
  outcome    \* how process_one ended

local == <<enforce, prepared, result, check, typed, final, solves, stopped, outcome>>
vars  == <<pc, local, gapVars>>

NoResult == [answer |-> {}, source |-> "generated", truncated |-> FALSE, lineage |-> TRUE,
             grounded |-> {}, usable |-> FALSE, bound |-> FALSE]

\* accepted: a PipelineResult.  blocked: a BlockingAnswerValidationError,
\* which run.py records.  raised: any other exception, which ends the run.
Outcome == [kind : {"accepted", "blocked", "raised"}, answer : SUBSET Option,
            grounded : BOOLEAN, by : {"nobody", "workflow", "fallback"}]
Running == [kind |-> "none", answer |-> {}, grounded |-> FALSE, by |-> "nobody"]
Ended(kind) == [Running EXCEPT !.kind = kind]

WorkflowTypeOK ==
  /\ GapTypeOK
  /\ pc \in {"start", "prepare", "assemble", "budget", "orchestrate", "solve", "contract",
             "verify", "override", "assess", "emit", "budget_stop", "failed", "fallback", "done"}
  /\ enforce \in {"unread", "on", "off"}
  /\ prepared \in {"nothing", "classified", "bundled"}
  /\ result \in Result /\ SolverResult(format, result)
  /\ check \in SelfCheck
  /\ typed \in Typed
  /\ final \in SUBSET Option
  /\ solves \in 0..2
  /\ stopped \in BOOLEAN
  /\ outcome \in Outcome \cup {Running}

-----------------------------------------------------------------------------
\* The controller's variables outside a call of it.
Idle == GapFresh /\ bridge = "anchored" /\ retrievable = {}

ControllerReturns ==
  /\ state' = "COMPILE_REQUIREMENTS"
  /\ bridge' = "anchored" /\ retrievable' = {} /\ UNCHANGED format
  /\ hits' = [r \in {1, 2} |-> NoHits]
  /\ facts' = {} /\ first' = Open /\ need' = {} /\ status' = Open /\ answer' = {}

WorkflowInit ==
  /\ Idle
  /\ format \in Format
  /\ pc = "start"
  /\ enforce = "unread"
  /\ prepared = "nothing"
  /\ result = NoResult
  /\ check = NoCheck
  /\ typed = NoTyped
  /\ final = {}
  /\ solves = 0
  /\ stopped = FALSE
  /\ outcome = Running

Block ==
  /\ pc' = "done"
  /\ outcome' = Ended("blocked")
  /\ UNCHANGED <<enforce, prepared, result, check, typed, final, solves, stopped>>

Goto(next) ==
  /\ pc' = next
  /\ UNCHANGED local

ReadEnforce == enforce' \in IF enforce = "unread" THEN {"on", "off"} ELSE {enforce}

-----------------------------------------------------------------------------
(* The main path                                                           *)

\* A freeform question without a usable submission slot contract.
CheckSlotContract ==
  /\ pc = "start"
  /\ \/ Goto("prepare")
     \/ format = "freeform" /\ Block
  /\ UNCHANGED gapVars

Classify ==
  /\ pc = "prepare"
  /\ \/ pc' = "assemble" /\ prepared' = "classified"
     \/ pc' = "failed" /\ UNCHANGED prepared
  /\ UNCHANGED <<enforce, result, check, typed, final, solves, stopped, outcome, gapVars>>

\* retrieve, assemble and the prompt budget estimate.
Assemble ==
  /\ pc = "assemble"
  /\ \/ pc' = "budget" /\ prepared' = "bundled"
     \/ pc' = "failed" /\ UNCHANGED prepared
  /\ UNCHANGED <<enforce, result, check, typed, final, solves, stopped, outcome, gapVars>>

CheckPromptBudget ==
  /\ pc = "budget"
  /\ \/ pc' \in {"solve", "orchestrate"} /\ UNCHANGED stopped
     \/ pc' = "budget_stop" /\ stopped' = TRUE
  /\ IF pc' = "orchestrate"
       THEN /\ bridge' \in Bridge
            /\ retrievable' \in SUBSET Option
            /\ format = "freeform" => retrievable' = {}
            /\ UNCHANGED <<state, format, work>>
       ELSE UNCHANGED gapVars
  /\ UNCHANGED <<enforce, prepared, result, check, typed, final, solves, outcome>>

Orchestrate ==
  /\ pc = "orchestrate"
  /\ GapNext
  /\ UNCHANGED <<pc, local>>

\* A closed question needs no provider; an open one is blocked in
\* authoritative mode and left to the solver in advisory mode.
OrchestratorAnswers ==
  /\ pc = "orchestrate"
  /\ state = "COMPLETED"
  /\ result' = [NoResult EXCEPT !.answer = answer, !.lineage = FALSE]
  /\ pc' = "contract"
  /\ ControllerReturns
  /\ UNCHANGED <<enforce, prepared, check, typed, final, solves, stopped, outcome>>

OrchestratorOpen ==
  /\ pc = "orchestrate"
  /\ state = "BLOCKED"
  /\ Block \/ Goto("solve")
  /\ ControllerReturns

BugOrchestratorRetried ==
  /\ pc = "orchestrate"
  /\ state \notin {"COMPLETED", "BLOCKED"}
  /\ UNCHANGED <<pc, local>>
  /\ ControllerReturns

OrchestratorRaises ==
  /\ pc = "orchestrate"
  /\ state \notin {"COMPLETED", "BLOCKED"}
  /\ Goto("failed")
  /\ ControllerReturns

Solve ==
  /\ pc = "solve"
  /\ solves' = solves + 1
  /\ \/ /\ result' \in {r \in Result : SolverResult(format, r)}
        /\ pc' = "contract"
        /\ UNCHANGED <<stopped, outcome>>
     \/ /\ pc' = "failed" \* any exception but the two below
        /\ UNCHANGED <<result, stopped, outcome>>
     \/ /\ pc' = "budget_stop" \* ProviderCallBudgetExceeded
        /\ stopped' = TRUE
        /\ UNCHANGED <<result, outcome>>
     \/ /\ pc' = "done" \* LLMProviderBudgetExhausted
        /\ stopped' = TRUE
        /\ outcome' = Ended("raised")
        /\ UNCHANGED result
  /\ UNCHANGED <<enforce, prepared, check, typed, final, gapVars>>

CheckContract ==
  /\ pc = "contract"
  /\ IF format = "freeform"
       THEN IF result.usable THEN Goto("assess") ELSE Block
       ELSE IF ValidAnswer(format, result.answer)
              THEN /\ pc' = "verify" /\ final' = result.answer
                   /\ UNCHANGED <<enforce, prepared, result, check, typed, solves, stopped, outcome>>
              ELSE Block
  /\ UNCHANGED gapVars

\* The self-check, where one is configured, and the correction it may make.
Verify ==
  /\ pc = "verify"
  /\ \/ /\ check' \in {NoCheck} \cup {c \in SelfCheck : c.made}
        /\ \/ UNCHANGED final
           \/ /\ check'.made /\ Corrects(result.answer, check'.verdict)
              /\ final' = SelfCheckProposal(result.answer, check'.verdict)
        /\ pc' = "override"
     \/ pc' = "failed" /\ UNCHANGED <<check, final>>
  /\ UNCHANGED <<enforce, prepared, result, typed, solves, stopped, outcome, gapVars>>

Override ==
  /\ pc = "override"
  /\ ReadEnforce
  /\ \/ /\ enforce' = "off"
        /\ pc' = "assess"
        /\ UNCHANGED <<typed, final>>
     \/ /\ enforce' = "on"
        /\ typed' \in {t \in Typed : TypedEvidence(format, result, t)}
        /\ final' = IF typed'.override THEN Selected(typed'.verdict) ELSE final
        /\ pc' = "assess"
     \/ enforce' = "on" /\ pc' = "failed" /\ UNCHANGED <<typed, final>>
  /\ UNCHANGED <<prepared, result, check, solves, stopped, outcome, gapVars>>

BugAssessesSolver == result.answer

\* What assess_final_state is asked about: the answer as it now is.
Assessed == final

MayBeBlocked(crossDoc, retrieved, cited) ==
  IF format = "freeform" THEN FreeformBlocked(result)
  ELSE Blocked(result, check, typed, Assessed, crossDoc, retrieved, cited)

\* Without the assessment only an llm_error blocks.  With it, what the
\* calculation or the document scope of a B question objects to may block
\* besides.
Passes ==
  IF enforce' = "off" THEN result.source # "error"
  ELSE \E crossDoc, retrieved, cited \in BOOLEAN : ~MayBeBlocked(crossDoc, retrieved, cited)

AssessFinalState ==
  /\ pc = "assess"
  /\ ReadEnforce
  /\ \/ Passes /\ pc' = "emit" /\ UNCHANGED outcome
     \/ /\ enforce' = "on" \/ result.source = "error"
        /\ pc' = "done" /\ outcome' = Ended("blocked")
     \/ enforce' = "on" /\ pc' = "failed" /\ UNCHANGED outcome
  /\ UNCHANGED <<prepared, result, check, typed, final, solves, stopped, gapVars>>

Emit ==
  /\ pc = "emit"
  /\ IF format = "freeform" \/ ValidAnswer(format, final)
       THEN /\ pc' = "done"
            /\ outcome' = [kind |-> "accepted", answer |-> final, grounded |-> TRUE, by |-> "workflow"]
            /\ UNCHANGED <<enforce, prepared, result, check, typed, final, solves, stopped>>
       ELSE Block
  /\ UNCHANGED gapVars

-----------------------------------------------------------------------------
(* The handlers                                                            *)

BugBudgetFallsBack ==
  /\ pc = "budget_stop"
  /\ Block \/ Goto("fallback")
  /\ UNCHANGED gapVars

\* PromptBudgetExceeded and ProviderCallBudgetExceeded: no fallback.
BlockOnBudget ==
  /\ pc = "budget_stop"
  /\ Block
  /\ UNCHANGED gapVars

Raise ==
  /\ pc' = "done"
  /\ outcome' = Ended("raised")
  /\ UNCHANGED <<enforce, prepared, result, check, typed, final, solves, stopped>>

\* Any other exception.  Both ways out classify again what was not
\* classified, and the fallback assembles again, outside its own try.
Fail ==
  /\ pc = "failed"
  /\ \/ Block \/ Goto("fallback")
     \/ prepared # "bundled" /\ Raise
  /\ UNCHANGED gapVars

\* The fallback solver's answer is checked against the contract only; its
\* exceptions, the budget's included, block the question.
FallbackAnswer(r) ==
  IF format = "freeform" THEN r.usable ELSE ValidAnswer(format, r.answer)

BugFallbackRetried ==
  /\ pc = "fallback"
  /\ ReadEnforce
  /\ solves' = solves + 1
  /\ \/ pc' = "failed" /\ UNCHANGED <<result, outcome>>
     \/ pc' = "done" /\ outcome' = Ended("blocked") /\ UNCHANGED result
  /\ UNCHANGED <<prepared, check, typed, final, stopped, gapVars>>

Fallback ==
  /\ pc = "fallback"
  /\ pc' = "done"
  /\ ReadEnforce
  /\ solves' = solves + 1
  /\ \/ outcome' = Ended("blocked") /\ UNCHANGED result
     \/ /\ result' \in {r \in Result : SolverResult(format, r)}
        /\ outcome' = IF FallbackAnswer(result')
                        THEN [kind |-> "accepted", answer |-> result'.answer,
                              grounded |-> TRUE, by |-> "fallback"]
                        ELSE Ended("blocked")
  /\ UNCHANGED <<prepared, check, typed, final, stopped, gapVars>>

Done == pc = "done" /\ UNCHANGED vars

Step ==
  \/ CheckSlotContract \/ Classify \/ Assemble \/ CheckPromptBudget
  \/ Orchestrate \/ OrchestratorAnswers \/ OrchestratorOpen \/ OrchestratorRaises
  \/ Solve \/ CheckContract \/ Verify \/ Override \/ AssessFinalState \/ Emit
  \/ BlockOnBudget \/ Fail \/ Fallback

(* process_one is one thread that runs until it returns or raises, and its *)
(* calls end: the provider calls by the time limits of LLMClient.          *)
WorkflowSpec == WorkflowInit /\ [][Step \/ Done]_vars /\ WF_vars(Step)

-----------------------------------------------------------------------------
(* Properties                                                              *)

(* Whatever changed the answer after the solver (the correction gate, the  *)
(* typed override), an answer the main path emits under production         *)
(* integrity is no dummy, is not cut off, and is what the deciding         *)
(* evidence says of every option: what it supports is selected, and of     *)
(* what is selected only options the calculation grounds lack support.     *)
(* About lines 370-430 and 488-547 of agent/workflow.py.                   *)
EmittedAnswerFollowsEvidence ==
  outcome.by = "workflow" /\ enforce = "on" /\ format # "freeform" =>
    /\ ~Dummy(result) /\ ~result.truncated
    /\ \A v \in Deciding(check, typed) :
         /\ Selected(v) \subseteq outcome.answer
         /\ outcome.answer \subseteq Selected(v) \cup result.grounded
         /\ \A o \in Option : v[o] = "contradicted" => o \notin outcome.answer

(* After a budget exception of the main path no solver is asked again: the *)
(* generic handler with its fallback never sees one.  About lines 640-657. *)
BudgetStopsAreFinal == [][stopped => UNCHANGED solves]_vars

(* An answer reported as grounded under production integrity was given by  *)
(* a model or computed, never the dummy of a missing or failing client     *)
(* (solvers/direct.py:32-33).                                              *)
GroundedIsNeverADummy ==
  outcome.kind = "accepted" /\ outcome.grounded /\ enforce = "on" => ~Dummy(result)

(* Every question ends: whatever raises where, process_one returns or      *)
(* raises.                                                                 *)
EveryQuestionEnds == <>(pc = "done")
=============================================================================
