---------------------------- MODULE Intelligence ----------------------------
(***************************************************************************)
(* One request going through FullIntelligenceIntegration.run               *)
(* (intelligence/full_integration.py): the five stages of                  *)
(* DefaultIntelligenceOrchestrator, the response, the command to the agent *)
(* and, in a call that brings execution feedback, what is made of it.  The *)
(* caller calls run again when it has feedback; every call goes through    *)
(* all the stages from the start.  Another thread may cancel the request   *)
(* at any moment.                                                          *)
(*                                                                         *)
(* Every stage is an operation run by IntelligenceFailureBoundary.run      *)
(* (intelligence/failure.py): the token is looked at, the operation runs,  *)
(* and an exception becomes FAILED, or CANCELLED if the token is set by    *)
(* then.  The stages are the default pipelines; what they are given (rules,*)
(* generators, validators, the agent's channels) is external and may       *)
(* answer anything of the declared type, or raise.                         *)
(***************************************************************************)
EXTENDS Naturals

CONSTANTS
  MaxCalls,       \* bound on the calls of run for the request
  MaxCandidates,  \* bound on the intent candidates a reasoner returns
  NumSteps,       \* steps of the plan the agent executes
  AnyValidator    \* FALSE: stage 9.5.5 uses SemanticValidator.  TRUE: another
                  \* SemanticValidatorContract, whose verdict may be wrong.

ASSUME BoundsAssumption ==
  MaxCalls \in Nat /\ MaxCandidates \in Nat /\ NumSteps \in Nat \ {0}
ASSUME ValidatorAssumption == AnyValidator \in BOOLEAN

OrchestratorStages ==
  {"reasoning_to_intent", "intent_to_decision", "decision_to_proposal",
   "semantic_validation", "agent_decision_handoff"}

Stages == OrchestratorStages \cup
  {"response_generation", "agent_handoff", "agent_feedback",
   "result_interpretation", "memory_feedback"}

\* Stages given to the constructors as a protocol, not as a class: a call of
\* such a stage may return something of another type.
ProtocolStages == OrchestratorStages \cup {"response_generation"}

\* A ReasoningResult, by how many intent candidates it holds: nothing else in
\* it is looked at.
Reasonings == 0 .. MaxCandidates

\* Decision: its kind ("answer" stands for the three kinds that run nothing)
\* and whether its intent_id is that of the intent.
Decisions == [kind : {"use_workflow", "answer"}, ofIntent : BOOLEAN]

\* Proposal: a WorkflowProposal or another one, and whether its decision_id is
\* that of the decision.
NoProposal == [class |-> "none", ofDecision |-> FALSE]
Proposals  == [class : {"workflow", "plan"}, ofDecision : BOOLEAN] \cup {NoProposal}
NoDecision == [kind |-> "none", ofIntent |-> FALSE]

\* ExecutionFeedback: the status of every step of the plan that has a result.
\* "unfinished" is PENDING or RUNNING.  In Malformed feedback the results are
\* of another plan, of an unknown step, or two of one step.
Steps      == 1 .. NumSteps
StepResult == {"completed", "failed", "cancelled", "unfinished", "missing"}
NoFeedback == [s \in Steps |-> "none"]
Malformed  == [s \in Steps |-> "malformed"]
Feedbacks  == [Steps -> StepResult] \cup {Malformed}

\* AgentCommandReceipt, by its field "accepted".
Receipts == {"accepted", "rejected"}

\* ResultInterpretation, by its status.
Interpretations == {"completed", "failed", "cancelled", "incomplete"}

NoIndex == MaxCandidates

VARIABLES
  cancelled,       \* the threading.Event behind the token of the request
  calls,           \* how often run was called
  stage,           \* the stage the call is at, "idle" between calls
  inside,          \* the boundary has let the operation of that stage start
  candidateIndex,  \* the constructor's candidate_index, NoIndex for None
  decision,        \* the call's Decision
  proposal,        \* and Proposal
  orchestration,   \* its IntelligenceOrchestrationResult
  receipt,         \* the agent's answer to its command
  feedback,        \* its argument execution_feedback
  interpretation,  \* the status of its ResultInterpretation
  produced,        \* history: what its stages produced so far
  answer,          \* the FullIntelligenceResult of the last call
  delivered,       \* history: the commands that reached the agent
  cancelPoint      \* history: where the call was when cancel() came

vars == <<cancelled, calls, stage, inside, candidateIndex, decision, proposal,
          orchestration, receipt, feedback, interpretation, produced, answer, delivered, cancelPoint>>

thoughtVars == <<decision, proposal>>
agentVars   == <<receipt, feedback, delivered>>
cancelVars  == <<cancelled, cancelPoint>>

NoOrchestration == [status |-> "none", stage |-> "none", carries |-> {}]
NotCancelled    == [call |-> 0, stage |-> "none", inside |-> FALSE]
NoAnswer        == [status |-> "none", stage |-> "none", carries |-> {}]

-----------------------------------------------------------------------------
(* What the stages compute                                                 *)

\* ReasoningResolver.resolve
Resolve(candidates) ==
  CASE candidates = 0                             -> "unresolved"
    [] candidates > 0 /\ candidateIndex # NoIndex ->
         IF candidateIndex < candidates THEN "ready" ELSE "IndexError"
    [] candidates = 1 /\ candidateIndex = NoIndex -> "ready"
    [] candidates > 1 /\ candidateIndex = NoIndex -> "clarification_required"

\* IntentSelector.select, with the index ReasoningResolver.resolve answered: 0
\* for the only candidate.
Selects(candidates) ==
  LET index == IF candidateIndex = NoIndex THEN 0 ELSE candidateIndex
  IN  index < candidates

\* What IntentDecisionPipeline.run returns: any Decision of the generator.  It
\* does not compare the decision's intent_id with the intent's.
GeneratedDecisions == Decisions

\* SemanticValidator.validate
Issues(d, p) ==
  { i \in {"INTENT_MISMATCH", "REQUIRED_PROPOSAL_MISSING", "PROPOSAL_DECISION_MISMATCH",
           "PROPOSAL_KIND_MISMATCH", "UNEXPECTED_PROPOSAL"} :
      \/ i = "INTENT_MISMATCH" /\ ~d.ofIntent
      \/ i = "REQUIRED_PROPOSAL_MISSING" /\ d.kind = "use_workflow" /\ p = NoProposal
      \/ i = "PROPOSAL_DECISION_MISMATCH"
         /\ d.kind = "use_workflow" /\ p # NoProposal /\ ~p.ofDecision
      \/ i = "PROPOSAL_KIND_MISMATCH"
         /\ d.kind = "use_workflow" /\ p # NoProposal /\ p.class # "workflow"
      \/ i = "UNEXPECTED_PROPOSAL" /\ d.kind # "use_workflow" /\ p # NoProposal }

\* The answers the validator of stage 9.5.5 may give.
Verdicts == IF AnyValidator THEN BOOLEAN ELSE {Issues(decision, proposal) = {}}

\* DecisionProposalPipeline.run accepts a WorkflowProposal for USE_WORKFLOW
\* and nothing for the other kinds.
ProposalFits(d, p) ==
  IF d.kind = "use_workflow" THEN p.class = "workflow" ELSE p = NoProposal

\* DecisionAdapter.to_agent_decision validates again, whatever stage 9.5.5
\* said, and translates a workflow decision only with a workflow proposal.
Adapts(d, p) ==
  /\ Issues(d, p) = {}
  /\ d.kind = "use_workflow" => p.class = "workflow"

\* Wrong on purpose: a step without a result is not missed.
Interpretation_IgnoresMissing(results) ==
  LET some(kinds) == \E s \in Steps : results[s] \in kinds
  IN  IF some({"failed"}) THEN "failed"
      ELSE IF some({"cancelled"}) THEN "cancelled"
      ELSE IF some({"unfinished"}) THEN "incomplete"
      ELSE "completed"

\* DefaultResultInterpreter.interpret
Interpretation(results) ==
  LET some(kinds) == \E s \in Steps : results[s] \in kinds
  IN  IF some({"failed"}) THEN "failed"
      ELSE IF some({"cancelled"}) THEN "cancelled"
      ELSE IF some({"unfinished", "missing"}) THEN "incomplete"
      ELSE "completed"

\* Wrong on purpose: the agent's receipt is dropped when its feedback fails.
Carries_DropsReceipt(at) ==
  CASE at = "reasoning_to_intent"    -> {}
    [] at = "intent_to_decision"     -> {"intent"}
    [] at = "decision_to_proposal"   -> {"intent", "decision"}
    [] at \in {"semantic_validation", "agent_decision_handoff"} ->
         {"intent", "decision", "proposal"}
    [] at = "response_generation"    -> orchestration.carries
    [] at \in {"agent_handoff", "agent_feedback"} -> orchestration.carries \cup {"response"}
    [] at = "result_interpretation"  ->
         orchestration.carries \cup {"response", "command", "feedback"}
    [] at = "memory_feedback"        ->
         orchestration.carries \cup {"response", "command", "feedback", "interpretation"}

\* What the CANCELLED and FAILED results a stage returns carry with them.
Carries(at) ==
  CASE at = "reasoning_to_intent"    -> {}
    [] at = "intent_to_decision"     -> {"intent"}
    [] at = "decision_to_proposal"   -> {"intent", "decision"}
    [] at \in {"semantic_validation", "agent_decision_handoff"} ->
         {"intent", "decision", "proposal"}
    [] at = "response_generation"    -> orchestration.carries
    [] at = "agent_handoff"          -> orchestration.carries \cup {"response"}
    [] at = "agent_feedback"         -> orchestration.carries \cup {"response", "command"}
    [] at = "result_interpretation"  ->
         orchestration.carries \cup {"response", "command", "feedback"}
    [] at = "memory_feedback"        ->
         orchestration.carries \cup {"response", "command", "feedback", "interpretation"}

-----------------------------------------------------------------------------
(* How a stage ends                                                        *)

At(s) == stage = s /\ inside

Proceed(next, part) ==
  /\ stage' = next /\ inside' = FALSE
  /\ produced' = produced \cup {part}

\* run returns.
Answer(status, at, parts) ==
  /\ stage' = "idle" /\ inside' = FALSE
  /\ answer' = [status |-> status, stage |-> at, carries |-> parts]

\* orchestrate returns, and the response is generated whatever its status.
Orchestrated(status, at, parts) ==
  /\ stage' = "response_generation" /\ inside' = FALSE
  /\ orchestration' = [status |-> status, stage |-> at, carries |-> parts]

\* The stage cannot go on: its boundary, or the check of what it returned,
\* makes the orchestrator or the integration return.
Stop(status) ==
  IF stage \in OrchestratorStages
  THEN Orchestrated(status, stage, Carries(stage)) /\ UNCHANGED answer
  ELSE Answer(status, stage, Carries(stage)) /\ UNCHANGED orchestration

-----------------------------------------------------------------------------
(* The caller                                                              *)

\* CancellationSource.cancel from another thread.
Cancel ==
  /\ ~cancelled
  /\ cancelled' = TRUE
  /\ cancelPoint' = [call |-> calls, stage |-> stage, inside |-> inside]
  /\ UNCHANGED <<calls, stage, inside, candidateIndex, thoughtVars, orchestration,
                 agentVars, interpretation, produced, answer>>

\* The caller calls run, with or without feedback: nothing ties the feedback
\* to a command, so it may come in the first call as well.
Call ==
  /\ stage = "idle" /\ calls < MaxCalls
  /\ calls' = calls + 1
  /\ feedback' \in Feedbacks \cup {NoFeedback}
  /\ decision' = NoDecision /\ proposal' = NoProposal
  /\ orchestration' = NoOrchestration /\ receipt' = "none"
  /\ interpretation' = "none" /\ produced' = {}
  /\ IF cancelled
     THEN Answer("cancelled", "orchestration", {})
     ELSE stage' = "reasoning_to_intent" /\ UNCHANGED <<inside, answer>>
  /\ UNCHANGED <<cancelVars, candidateIndex, delivered>>

-----------------------------------------------------------------------------
(* The failure boundary around every stage                                 *)

\* Wrong on purpose: the token is not looked at before the operation starts.
EnterStage_IgnoresToken ==
  /\ stage \in Stages /\ ~inside
  /\ inside' = TRUE
  /\ UNCHANGED <<cancelVars, calls, stage, candidateIndex, thoughtVars, orchestration,
                 agentVars, interpretation, produced, answer>>

EnterStage ==
  /\ stage \in Stages /\ ~inside /\ ~cancelled
  /\ inside' = TRUE
  /\ UNCHANGED <<cancelVars, calls, stage, candidateIndex, thoughtVars, orchestration,
                 agentVars, interpretation, produced, answer>>

StageCancelled ==
  /\ stage \in Stages /\ ~inside /\ cancelled
  /\ Stop("cancelled")
  /\ UNCHANGED <<cancelVars, calls, candidateIndex, thoughtVars, agentVars,
                 interpretation, produced>>

\* The operation raises.  (agent_handoff: see SendRaises.)
StageRaises ==
  /\ stage \in Stages \ {"agent_handoff"} /\ inside
  /\ Stop(IF cancelled THEN "cancelled" ELSE "failed")
  /\ UNCHANGED <<cancelVars, calls, candidateIndex, thoughtVars, agentVars,
                 interpretation, produced>>

\* The operation returns something of another type.
StageReturnsOther ==
  /\ stage \in ProtocolStages /\ inside
  /\ Stop("failed")
  /\ UNCHANGED <<cancelVars, calls, candidateIndex, thoughtVars, agentVars,
                 interpretation, produced>>

-----------------------------------------------------------------------------
(* The stages of orchestrate                                               *)

Reason ==
  /\ At("reasoning_to_intent")
  /\ \E candidates \in Reasonings : Resolve(candidates) = "ready" /\ Selects(candidates)
  /\ Proceed("intent_to_decision", "intent")
  /\ UNCHANGED <<cancelVars, calls, candidateIndex, thoughtVars, orchestration,
                 agentVars, interpretation, answer>>

ReasonBlocked ==
  /\ At("reasoning_to_intent")
  /\ \E candidates \in Reasonings :
       Resolve(candidates) \in {"unresolved", "clarification_required"}
  /\ Orchestrated("blocked", stage, {})
  /\ UNCHANGED <<cancelVars, calls, candidateIndex, thoughtVars, agentVars,
                 interpretation, produced, answer>>

Decide ==
  /\ At("intent_to_decision")
  /\ decision' \in GeneratedDecisions
  /\ Proceed("decision_to_proposal", "decision")
  /\ UNCHANGED <<cancelVars, calls, candidateIndex, proposal, orchestration,
                 agentVars, interpretation, answer>>

Propose ==
  /\ At("decision_to_proposal")
  /\ proposal' \in Proposals
  /\ ProposalFits(decision, proposal')
  /\ Proceed("semantic_validation", "proposal")
  /\ UNCHANGED <<cancelVars, calls, candidateIndex, decision, orchestration,
                 agentVars, interpretation, answer>>

Validate ==
  /\ At("semantic_validation")
  /\ TRUE \in Verdicts
  /\ stage' = "agent_decision_handoff" /\ inside' = FALSE
  /\ UNCHANGED <<cancelVars, calls, candidateIndex, thoughtVars, orchestration,
                 agentVars, interpretation, produced, answer>>

ValidateRejects ==
  /\ At("semantic_validation")
  /\ FALSE \in Verdicts
  /\ Orchestrated("blocked", stage, {"intent", "decision", "proposal"})
  /\ UNCHANGED <<cancelVars, calls, candidateIndex, thoughtVars, agentVars,
                 interpretation, produced, answer>>

\* Wrong on purpose: the adapter relies on the verdict of stage 9.5.5.
Handoff_NoCheck ==
  /\ At("agent_decision_handoff")
  /\ Orchestrated("completed", "complete",
                  {"intent", "decision", "proposal", "agent_decision"})
  /\ produced' = produced \cup {"agent_decision"}
  /\ UNCHANGED <<cancelVars, calls, candidateIndex, thoughtVars, agentVars,
                 interpretation, answer>>

\* AgentDecisionHandoffPipeline.run: the adapter raises if it cannot adapt.
Handoff ==
  /\ At("agent_decision_handoff")
  /\ Adapts(decision, proposal)
  /\ Orchestrated("completed", "complete",
                  {"intent", "decision", "proposal", "agent_decision"})
  /\ produced' = produced \cup {"agent_decision"}
  /\ UNCHANGED <<cancelVars, calls, candidateIndex, thoughtVars, agentVars,
                 interpretation, answer>>

-----------------------------------------------------------------------------
(* The stages of run after orchestration                                   *)
(*                                                                         *)
(* run also has returns for an orchestration that fails as a whole, is of  *)
(* another type, or completed without an AgentDecision.                    *)
(* DefaultIntelligenceOrchestrator gives it none of these: each of its     *)
(* stages is in a boundary of its own, and Handoff alone completes.        *)

\* The response is there, and an orchestration that did not complete ends
\* here: status_map keeps its status.
RespondTerminal ==
  /\ At("response_generation")
  /\ orchestration.status # "completed"
  /\ Answer(orchestration.status, "orchestration_terminal",
            orchestration.carries \cup {"response"})
  /\ produced' = produced \cup {"response"}
  /\ UNCHANGED <<cancelVars, calls, candidateIndex, thoughtVars, orchestration,
                 agentVars, interpretation>>

Respond ==
  /\ At("response_generation")
  /\ orchestration.status = "completed"
  /\ Proceed("agent_handoff", "response")
  /\ UNCHANGED <<cancelVars, calls, candidateIndex, thoughtVars, orchestration,
                 agentVars, interpretation, answer>>

\* The command as the agent gets it.
Command == [call |-> calls, late |-> cancelled, decision |-> decision, proposal |-> proposal]

\* Wrong on purpose: a command the agent rejects leaves no trace in the answer.
Send_RejectionUnreported ==
  /\ At("agent_handoff")
  /\ delivered' = delivered \cup {Command}
  /\ receipt' \in Receipts
  /\ produced' = produced \cup {"command"}
  /\ LET parts == orchestration.carries \cup {"response", "command"}
     IN  \/ /\ receipt' = "rejected"
            /\ Answer("agent_rejected", "agent_handoff", orchestration.carries \cup {"response"})
         \/ /\ receipt' = "accepted" /\ feedback = NoFeedback
            /\ Answer("waiting_for_execution", "waiting_for_execution", parts)
         \/ /\ receipt' = "accepted" /\ feedback # NoFeedback
            /\ stage' = "agent_feedback" /\ inside' = FALSE /\ UNCHANGED answer
  /\ UNCHANGED <<cancelVars, calls, candidateIndex, thoughtVars, orchestration,
                 feedback, interpretation>>

\* AgentIntelligenceBridge.send returns the agent's receipt.
Send ==
  /\ At("agent_handoff")
  /\ delivered' = delivered \cup {Command}
  /\ receipt' \in Receipts
  /\ produced' = produced \cup {"command"}
  /\ LET parts == orchestration.carries \cup {"response", "command"}
     IN  \/ receipt' = "rejected" /\ Answer("agent_rejected", "agent_handoff", parts)
         \/ /\ receipt' = "accepted" /\ feedback = NoFeedback
            /\ Answer("waiting_for_execution", "waiting_for_execution", parts)
         \/ /\ receipt' = "accepted" /\ feedback # NoFeedback
            /\ stage' = "agent_feedback" /\ inside' = FALSE /\ UNCHANGED answer
  /\ UNCHANGED <<cancelVars, calls, candidateIndex, thoughtVars, orchestration,
                 feedback, interpretation>>

\* The channel raises before or after the agent got the command, or its
\* receipt is of another type or for another decision.
SendRaises ==
  /\ At("agent_handoff")
  /\ delivered' \in {delivered, delivered \cup {Command}}
  /\ Stop(IF cancelled THEN "cancelled" ELSE "failed")
  /\ UNCHANGED <<cancelVars, calls, candidateIndex, thoughtVars, receipt, feedback,
                 interpretation, produced>>

\* AgentIntelligenceBridge.receive; the receipt's "accepted" is not looked at.
Receive ==
  /\ At("agent_feedback")
  /\ Proceed("result_interpretation", "feedback")
  /\ UNCHANGED <<cancelVars, calls, candidateIndex, thoughtVars, orchestration,
                 agentVars, interpretation, answer>>

Interpret ==
  /\ At("result_interpretation")
  /\ feedback # Malformed
  /\ interpretation' = Interpretation(feedback)
  /\ Proceed("memory_feedback", "interpretation")
  /\ UNCHANGED <<cancelVars, calls, candidateIndex, thoughtVars, orchestration,
                 agentVars, answer>>

\* Wrong on purpose: the status of the interpretation is passed on as it is.
Remember_RawStatus ==
  /\ At("memory_feedback")
  /\ Answer(interpretation, "complete",
            orchestration.carries \cup {"response", "command", "feedback", "interpretation",
                                        "memory_feedback"})
  /\ produced' = produced \cup {"memory_feedback"}
  /\ UNCHANGED <<cancelVars, calls, candidateIndex, thoughtVars, orchestration,
                 agentVars, interpretation>>

Remember ==
  /\ At("memory_feedback")
  /\ Answer(IF interpretation = "incomplete" THEN "execution_incomplete" ELSE interpretation,
            "complete",
            orchestration.carries \cup {"response", "command", "feedback", "interpretation",
                                        "memory_feedback"})
  /\ produced' = produced \cup {"memory_feedback"}
  /\ UNCHANGED <<cancelVars, calls, candidateIndex, thoughtVars, orchestration,
                 agentVars, interpretation>>

\* The caller makes no more calls.
Ended == stage = "idle" /\ UNCHANGED vars

-----------------------------------------------------------------------------

Init ==
  /\ cancelled = FALSE
  /\ calls = 0
  /\ stage = "idle" /\ inside = FALSE
  /\ candidateIndex \in 0 .. NoIndex
  /\ decision = NoDecision /\ proposal = NoProposal
  /\ orchestration = NoOrchestration
  /\ receipt = "none" /\ feedback = NoFeedback /\ interpretation = "none"
  /\ produced = {} /\ answer = NoAnswer /\ delivered = {} /\ cancelPoint = NotCancelled

Boundary == EnterStage \/ StageCancelled \/ StageRaises \/ StageReturnsOther

Orchestrate ==
  \/ Reason \/ ReasonBlocked
  \/ Decide \/ Propose
  \/ Validate \/ ValidateRejects
  \/ Handoff

Integrate ==
  \/ RespondTerminal \/ Respond
  \/ Send \/ SendRaises
  \/ Receive \/ Interpret \/ Remember

Next == Cancel \/ Call \/ Boundary \/ Orchestrate \/ Integrate \/ Ended

Spec == Init /\ [][Next]_vars
=============================================================================
