------------------------- MODULE Intelligence_proofs ------------------------
(***************************************************************************)
(* Proofs about Intelligence, for every number of calls, of candidates and *)
(* of steps, and for any validator.                                        *)
(*                                                                         *)
(* The argument: what a call has produced is a function of the stage it is *)
(* at, which is what that stage's returns carry; a completed orchestration *)
(* has passed the adapter's own validation, and its decision and proposal  *)
(* stay what they were until the next call; and a token that is set inside *)
(* a stage was set in that stage, because none is entered afterwards.      *)
(* Nothing reaches the agent in a call before its handoff, and what comes  *)
(* after it carries the command; the status of an answer was made of the   *)
(* receipt and the feedback the call still has.                            *)
(***************************************************************************)
EXTENDS IntelligenceProps, TLAPS

-----------------------------------------------------------------------------
(* The inductive invariant, in named parts                                 *)

Consistent(d, p) ==
  /\ d.ofIntent
  /\ IF d.kind = "use_workflow" THEN p = [class |-> "workflow", ofDecision |-> TRUE]
                                ELSE p = NoProposal

\* A completed orchestration has a consistent decision and proposal, and
\* nothing else gets to the agent.
ConsistentInv ==
  /\ CommandsAreConsistent
  /\ orchestration.status = "completed" => decision \in Decisions /\ Consistent(decision, proposal)
  /\ stage = "agent_handoff" => orchestration.status = "completed"

\* The decision is made once the second stage is passed, and there is no
\* orchestration result before the last one.
DecisionInv ==
  /\ stage \in {"decision_to_proposal", "semantic_validation", "agent_decision_handoff"} =>
       decision \in Decisions
  /\ stage \in OrchestratorStages => orchestration.status = "none"

\* A token set inside a stage was set in that stage.
LateInv ==
  /\ OneLateCommand
  /\ cancelled /\ inside =>
       cancelPoint = [call |-> calls, stage |-> stage, inside |-> TRUE]
  /\ ~cancelled => \A c \in delivered : ~c.late
  /\ stage = "idle" => ~inside

\* What a call has produced is what its stage's returns carry.
ProducedInv ==
  /\ stage \in Stages => produced = Carries(stage)
  /\ NothingIsLost

\* No command of this call reached the agent before the handoff, none of a
\* later call ever.
DeliveredInv ==
  /\ \A c \in delivered : c.call <= calls
  /\ stage \in OrchestratorStages \cup {"response_generation", "agent_handoff"} => Current = {}
  /\ DeliveryIsVisible

\* The stages after the handoff have an accepted receipt and feedback, and
\* what was made of the feedback goes with it.
EarnedInv ==
  /\ orchestration.status = "cancelled" => cancelled
  /\ orchestration.status = "blocked" => "agent_decision" \notin orchestration.carries
  /\ stage \in {"agent_feedback", "result_interpretation", "memory_feedback"} =>
       receipt = "accepted" /\ feedback \in Feedbacks
  /\ stage = "memory_feedback" =>
       feedback \in [Steps -> StepResult] /\ interpretation = Interpretation(feedback)
  /\ StatusIsEarned

IInv == TypeOK /\ DecisionInv /\ ConsistentInv /\ LateInv /\ ProducedInv /\ DeliveredInv /\ EarnedInv

-----------------------------------------------------------------------------
(* What the stages compute                                                 *)

\* A decision and a proposal the validator finds no issue with are consistent.
LEMMA NoIssues ==
  ASSUME NEW d \in Decisions, NEW p \in Proposals, Issues(d, p) = {}
  PROVE  Consistent(d, p)
<1>1. d.ofIntent
  BY DEF Issues
<1>2. ASSUME d.kind = "use_workflow"
      PROVE  p = [class |-> "workflow", ofDecision |-> TRUE]
  <2>1. p # NoProposal /\ p.ofDecision /\ p.class = "workflow"
    BY <1>2 DEF Issues
  <2>. QED
    BY <2>1 DEF Proposals
<1>3. ASSUME d.kind # "use_workflow"
      PROVE  p = NoProposal
  BY <1>3 DEF Issues
<1>. QED
  BY <1>1, <1>2, <1>3 DEF Consistent

\* The interpretation of results is one of four.
LEMMA InterpretationType ==
  ASSUME NEW f
  PROVE  Interpretation(f) \in Interpretations
BY DEF Interpretation, Interpretations

\* What a return carries are parts of an answer.
LEMMA CarriesType ==
  ASSUME TypeOK, stage \in Stages
  PROVE  Carries(stage) \subseteq Parts
BY DEF TypeOK, Carries, Stages, OrchestratorStages, Parts


-----------------------------------------------------------------------------
(* Type correctness                                                        *)

\* The names used for stages, statuses and parts are of those sets.
LEMMA Names ==
  /\ {"reasoning_to_intent", "intent_to_decision", "decision_to_proposal",
      "semantic_validation", "agent_decision_handoff", "response_generation",
      "agent_handoff", "agent_feedback", "result_interpretation", "memory_feedback"} \subseteq Stages
  /\ Stages \subseteq Places /\ OrchestratorStages \subseteq Stages /\ ProtocolStages \subseteq Stages
  /\ {"none", "orchestration", "orchestration_terminal", "waiting_for_execution",
      "complete"} \subseteq Places
  /\ {"none", "completed", "blocked", "failed", "cancelled"} \subseteq OrchestrationStatus
  /\ OrchestrationStatus \subseteq FullStatus
  /\ {"waiting_for_execution", "agent_rejected", "execution_incomplete"} \subseteq FullStatus
  /\ {"intent", "decision", "proposal", "agent_decision", "response", "command",
      "feedback", "interpretation", "memory_feedback"} \subseteq Parts
  /\ "idle" \notin Stages
BY DEF Stages, OrchestratorStages, ProtocolStages, Places, Parts, OrchestrationStatus, FullStatus

\* A stage that stops leaves the results it returns within their types.
LEMMA StopType ==
  ASSUME TypeOK, stage \in Stages, NEW status \in {"cancelled", "failed"}, Stop(status)
  PROVE  /\ stage' \in Stages \cup {"idle"} /\ inside' \in BOOLEAN
         /\ orchestration' \in [status : OrchestrationStatus, stage : Places, carries : SUBSET Parts]
         /\ answer' \in [status : FullStatus, stage : Places, carries : SUBSET Parts]
<1>1. Carries(stage) \in SUBSET Parts /\ stage \in Places
  BY CarriesType, Names
<1>2. CASE stage \in OrchestratorStages
  <2>1. orchestration' = [status |-> status, stage |-> stage, carries |-> Carries(stage)]
    BY <1>2 DEF Stop, Orchestrated
  <2>2. stage' = "response_generation" /\ inside' = FALSE /\ answer' = answer
    BY <1>2 DEF Stop, Orchestrated
  <2>3. status \in OrchestrationStatus
    BY DEF OrchestrationStatus
  <2>. QED
    BY <1>1, <2>1, <2>2, <2>3, Names DEF TypeOK
<1>3. CASE stage \notin OrchestratorStages
  <2>1. answer' = [status |-> status, stage |-> stage, carries |-> Carries(stage)]
    BY <1>3 DEF Stop, Answer
  <2>2. stage' = "idle" /\ inside' = FALSE /\ orchestration' = orchestration
    BY <1>3 DEF Stop, Answer
  <2>3. status \in FullStatus
    BY DEF OrchestrationStatus, FullStatus
  <2>. QED
    BY <1>1, <2>1, <2>2, <2>3 DEF TypeOK
<1>. QED
  BY <1>2, <1>3

\* What a call would send is a command.
LEMMA CommandType == TypeOK => Command \in Commands
BY DEF TypeOK, Command, Commands

\* Every action keeps every variable within its type.
LEMMA TypeInductive == TypeOK /\ [Next]_vars => TypeOK'
<1>. SUFFICES ASSUME TypeOK, [Next]_vars PROVE TypeOK'
  OBVIOUS
<1>. USE BoundsAssumption, Names DEF TypeOK, At, Proceed, Answer, Orchestrated, thoughtVars,
     agentVars, cancelVars
<1>0. stage \in Stages => Carries(stage) \subseteq Parts
  BY CarriesType
<1>1. CASE Cancel
  BY <1>1 DEF Cancel
<1>2. CASE Call
  <2>1. /\ calls' \in 0 .. MaxCalls
        /\ feedback' \in Feedbacks \cup {NoFeedback}
        /\ UNCHANGED <<cancelVars, candidateIndex, delivered>>
    BY <1>2 DEF Call
  <2>2. /\ decision' \in Decisions \cup {NoDecision} /\ proposal' \in Proposals
        /\ receipt' = "none" /\ interpretation' = "none" /\ produced' = {}
    BY <1>2 DEF Call, Proposals
  <2>3. orchestration' \in [status : OrchestrationStatus, stage : Places, carries : SUBSET Parts]
    BY <1>2 DEF Call, NoOrchestration
  <2>4. /\ stage' \in Stages \cup {"idle"} /\ inside' \in BOOLEAN
        /\ answer' \in [status : FullStatus, stage : Places, carries : SUBSET Parts]
    <3>1. CASE cancelled
      <4>1. stage' = "idle" /\ inside' = FALSE
            /\ answer' = [status |-> "cancelled", stage |-> "orchestration", carries |-> {}]
        BY <1>2, <3>1 DEF Call
      <4>. QED
        BY <4>1
    <3>2. CASE ~cancelled
      BY <1>2, <3>2 DEF Call
    <3>. QED
      BY <3>1, <3>2
  <2>. QED
    BY <2>1, <2>2, <2>3, <2>4
<1>3. CASE EnterStage
  BY <1>3 DEF EnterStage
<1>4. CASE StageCancelled
  <2>1. stage \in Stages /\ Stop("cancelled")
    BY <1>4 DEF StageCancelled
  <2>2. UNCHANGED <<cancelVars, calls, candidateIndex, thoughtVars, agentVars,
                    interpretation, produced>>
    BY <1>4 DEF StageCancelled
  <2>. QED
    BY <2>1, <2>2, StopType
<1>5. CASE StageRaises
  <2>1. stage \in Stages /\ Stop(IF cancelled THEN "cancelled" ELSE "failed")
    BY <1>5 DEF StageRaises
  <2>2. UNCHANGED <<cancelVars, calls, candidateIndex, thoughtVars, agentVars,
                    interpretation, produced>>
    BY <1>5 DEF StageRaises
  <2>. QED
    BY <2>1, <2>2, StopType
<1>6. CASE StageReturnsOther
  <2>1. stage \in Stages /\ Stop("failed")
    BY <1>6 DEF StageReturnsOther
  <2>2. UNCHANGED <<cancelVars, calls, candidateIndex, thoughtVars, agentVars,
                    interpretation, produced>>
    BY <1>6 DEF StageReturnsOther
  <2>. QED
    BY <2>1, <2>2, StopType
<1>7. CASE Reason
  BY <1>7 DEF Reason
<1>8. CASE ReasonBlocked
  BY <1>8 DEF ReasonBlocked
<1>9. CASE Decide
  BY <1>9 DEF Decide, GeneratedDecisions
<1>10. CASE Propose
  BY <1>10 DEF Propose
<1>11. CASE Validate
  BY <1>11 DEF Validate
<1>12. CASE ValidateRejects
  BY <1>12 DEF ValidateRejects
<1>13. CASE Handoff
  BY <1>13 DEF Handoff
<1>14. CASE RespondTerminal
  BY <1>14 DEF RespondTerminal
<1>15. CASE Respond
  BY <1>15 DEF Respond
<1>16. CASE Send
  <2>1. /\ delivered' \subseteq Commands /\ receipt' \in Receipts \cup {"none"}
        /\ produced' \subseteq Parts
        /\ UNCHANGED <<cancelVars, calls, candidateIndex, thoughtVars, orchestration,
                       feedback, interpretation>>
    BY <1>16, CommandType DEF Send, Receipts
  <2>2. orchestration.carries \cup {"response", "command"} \in SUBSET Parts
    OBVIOUS
  <2>3. /\ stage' \in Stages \cup {"idle"} /\ inside' \in BOOLEAN
        /\ answer' \in [status : FullStatus, stage : Places, carries : SUBSET Parts]
    <3>1. CASE Answer("agent_rejected", "agent_handoff",
                      orchestration.carries \cup {"response", "command"})
      BY <2>2, <3>1
    <3>2. CASE Answer("waiting_for_execution", "waiting_for_execution",
                      orchestration.carries \cup {"response", "command"})
      BY <2>2, <3>2
    <3>3. CASE stage' = "agent_feedback" /\ inside' = FALSE /\ UNCHANGED answer
      BY <3>3
    <3>. QED
      BY <1>16, <3>1, <3>2, <3>3 DEF Send
  <2>. QED
    BY <2>1, <2>3
<1>17. CASE SendRaises
  <2>1. stage \in Stages /\ Stop(IF cancelled THEN "cancelled" ELSE "failed")
    BY <1>17 DEF SendRaises
  <2>2. /\ delivered' \subseteq Commands
        /\ UNCHANGED <<cancelVars, calls, candidateIndex, thoughtVars, receipt, feedback,
                       interpretation, produced>>
    BY <1>17, CommandType DEF SendRaises
  <2>. QED
    BY <2>1, <2>2, StopType
<1>18. CASE Receive
  BY <1>18 DEF Receive
<1>19. CASE Interpret
  BY <1>19, InterpretationType DEF Interpret
<1>20. CASE Remember
  <2>. DEFINE status == IF interpretation = "incomplete" THEN "execution_incomplete" ELSE interpretation
             parts == orchestration.carries \cup {"response", "command", "feedback",
                                                  "interpretation", "memory_feedback"}
  <2>1. status \in FullStatus
    BY DEF Interpretations, FullStatus, OrchestrationStatus
  <2>2. parts \in SUBSET Parts /\ produced' \in SUBSET Parts
    BY <1>20 DEF Remember, Parts
  <2>3. /\ stage' = "idle" /\ inside' = FALSE
        /\ answer' = [status |-> status, stage |-> "complete", carries |-> parts]
    BY ONLY <1>20 DEF Remember, Answer
  <2>4. /\ cancelled' = cancelled /\ calls' = calls /\ candidateIndex' = candidateIndex
        /\ decision' = decision /\ proposal' = proposal /\ orchestration' = orchestration
        /\ receipt' = receipt /\ feedback' = feedback /\ interpretation' = interpretation
        /\ delivered' = delivered /\ cancelPoint' = cancelPoint
    BY ONLY <1>20 DEF Remember, cancelVars, thoughtVars, agentVars
  <2>. HIDE DEF status, parts
  <2>5. answer' \in [status : FullStatus, stage : Places, carries : SUBSET Parts]
    BY <2>1, <2>2, <2>3 DEF Places
  <2>. QED
    BY <2>2, <2>3, <2>4, <2>5
<1>21. CASE Ended \/ UNCHANGED vars
  BY <1>21 DEF Ended, vars
<1>. HIDE DEF TypeOK
<1>22. CASE Boundary
  BY <1>3, <1>4, <1>5, <1>6, <1>22 DEF Boundary
<1>23. CASE Orchestrate
  BY <1>7, <1>8, <1>9, <1>10, <1>11, <1>12, <1>13, <1>23 DEF Orchestrate
<1>24. CASE Integrate
  BY <1>14, <1>15, <1>16, <1>17, <1>18, <1>19, <1>20, <1>24 DEF Integrate
<1>. QED
  BY <1>1, <1>2, <1>21, <1>22, <1>23, <1>24 DEF Next

-----------------------------------------------------------------------------
(* Safety                                                                  *)

\* Between orchestration and the next call, decision, proposal and
\* orchestration stay what they are, and only Send and SendRaises deliver.
LEMMA ConsistentInductive ==
  TypeOK /\ DecisionInv /\ ConsistentInv /\ [Next]_vars => DecisionInv' /\ ConsistentInv'
<1>. SUFFICES ASSUME TypeOK, DecisionInv, ConsistentInv, [Next]_vars
              PROVE  DecisionInv' /\ ConsistentInv'
  OBVIOUS
<1>. USE DEF DecisionInv, ConsistentInv, CommandsAreConsistent, Consistent, At, Proceed, Answer,
             thoughtVars, agentVars, OrchestratorStages
<1>1. CASE Cancel \/ EnterStage \/ UNCHANGED vars
  BY <1>1 DEF Cancel, EnterStage, vars
<1>2. CASE Call
  BY <1>2 DEF Call, NoOrchestration
<1>3. CASE StageCancelled \/ StageRaises \/ StageReturnsOther
  <2>1. UNCHANGED <<thoughtVars, agentVars>>
    BY <1>3 DEF StageCancelled, StageRaises, StageReturnsOther
  <2>2. PICK status \in {"cancelled", "failed"} : Stop(status)
    BY <1>3 DEF StageCancelled, StageRaises, StageReturnsOther
  <2>3. \/ stage' = "response_generation" /\ orchestration'.status = status
        \/ stage' = "idle" /\ orchestration' = orchestration
    BY <2>2 DEF Stop, Orchestrated
  <2>. QED
    BY <2>1, <2>3
<1>4. CASE Reason \/ Decide \/ Propose \/ Validate
  BY <1>4 DEF Reason, Decide, GeneratedDecisions, Propose, Validate
<1>5. CASE ReasonBlocked \/ ValidateRejects
  <2>1. /\ stage' = "response_generation" /\ orchestration'.status = "blocked"
        /\ UNCHANGED delivered
    <3>1. CASE ReasonBlocked
      BY <3>1 DEF ReasonBlocked, Orchestrated
    <3>2. CASE ValidateRejects
      BY <3>2 DEF ValidateRejects, Orchestrated
    <3>. QED
      BY <1>5, <3>1, <3>2
  <2>. QED
    BY <2>1
<1>6. CASE Handoff
  <2>1. decision \in Decisions /\ Consistent(decision, proposal)
    BY <1>6, NoIssues DEF Handoff, Adapts, TypeOK
  <2>. QED
    BY <1>6, <2>1 DEF Handoff, Orchestrated
<1>7. CASE RespondTerminal \/ Respond \/ Receive \/ Interpret \/ Remember
  BY <1>7 DEF RespondTerminal, Respond, Receive, Interpret, Remember
<1>8. CASE Send \/ SendRaises
  <2>1. Consistent(Command.decision, Command.proposal)
    BY <1>8 DEF Send, SendRaises, Command
  <2>2. delivered' \in {delivered, delivered \cup {Command}} /\ UNCHANGED <<thoughtVars, orchestration>>
    BY <1>8 DEF Send, SendRaises, Stop
  <2>3. stage' \in {"idle", "agent_feedback"}
    BY <1>8 DEF Send, SendRaises, Stop
  <2>. QED
    BY <2>1, <2>2, <2>3
<1>. QED
  BY <1>1, <1>2, <1>3, <1>4, <1>5, <1>6, <1>7, <1>8
     DEF Next, Boundary, Orchestrate, Integrate, Ended

\* A stage is entered only while the token is not set, and left with inside
\* FALSE, so a token set inside a stage was set in that stage of that call.
LEMMA LateInductive == TypeOK /\ LateInv /\ [Next]_vars => LateInv'
<1>. SUFFICES ASSUME TypeOK, LateInv, [Next]_vars PROVE LateInv'
  OBVIOUS
<1>. USE DEF LateInv, OneLateCommand, At, Proceed, Answer, Orchestrated, thoughtVars, agentVars,
             cancelVars
<1>1. CASE Cancel
  BY <1>1 DEF Cancel
<1>2. CASE EnterStage
  BY <1>2 DEF EnterStage, Stages, OrchestratorStages
<1>3. CASE Call
  BY <1>3 DEF Call
<1>4. CASE StageCancelled \/ StageRaises \/ StageReturnsOther
  <2>1. inside' = FALSE /\ UNCHANGED <<cancelVars, delivered>>
    BY <1>4 DEF StageCancelled, StageRaises, StageReturnsOther, Stop
  <2>. QED
    BY <2>1
<1>5. CASE Orchestrate
  <2>1. inside' = FALSE /\ UNCHANGED <<cancelVars, delivered>>
    BY <1>5 DEF Orchestrate, Reason, ReasonBlocked, Decide, Propose, Validate, ValidateRejects, Handoff
  <2>. QED
    BY <2>1
<1>6. CASE RespondTerminal \/ Respond \/ Receive \/ Interpret \/ Remember
  <2>1. inside' = FALSE /\ UNCHANGED <<cancelVars, delivered>>
    BY <1>6 DEF RespondTerminal, Respond, Receive, Interpret, Remember
  <2>. QED
    BY <2>1
<1>7. CASE Send \/ SendRaises
  <2>1. /\ inside' = FALSE /\ UNCHANGED cancelVars
        /\ delivered' \in {delivered, delivered \cup {Command}}
    BY <1>7 DEF Send, SendRaises, Stop
  <2>2. /\ Command.call = calls /\ Command.late = cancelled
        /\ stage = "agent_handoff" /\ inside
    BY <1>7 DEF Send, SendRaises, Command
  <2>. QED
    BY <2>1, <2>2
<1>8. CASE UNCHANGED vars
  BY <1>8 DEF vars
<1>. QED
  BY <1>1, <1>2, <1>3, <1>4, <1>5, <1>6, <1>7, <1>8 DEF Next, Boundary, Integrate, Ended

\* Every stage adds its own part to what the call produced, and what a call
\* returns carries it all.
LEMMA ProducedInductive ==
  TypeOK /\ DecisionInv /\ LateInv /\ ProducedInv /\ [Next]_vars => ProducedInv'
<1>. SUFFICES ASSUME TypeOK, DecisionInv, LateInv, ProducedInv, [Next]_vars PROVE ProducedInv'
  OBVIOUS
<1>. USE Names DEF ProducedInv, NothingIsLost, Answered, Carries, At, Proceed, Answer, Orchestrated,
     thoughtVars, agentVars
<1>1. CASE Cancel \/ EnterStage \/ UNCHANGED vars
  BY <1>1 DEF Cancel, EnterStage, vars
<1>2. CASE Call
  BY <1>2 DEF Call
<1>3. CASE StageCancelled \/ StageRaises \/ StageReturnsOther \/ SendRaises
  <2>. HIDE DEF Carries
  <2>1. stage \in Stages /\ UNCHANGED produced /\ produced = Carries(stage)
    BY <1>3 DEF StageCancelled, StageRaises, StageReturnsOther, SendRaises
  <2>2. PICK status \in {"cancelled", "failed"} : Stop(status)
    BY <1>3 DEF StageCancelled, StageRaises, StageReturnsOther, SendRaises
  <2>3. CASE stage \in OrchestratorStages
    <3>1. stage' = "response_generation" /\ orchestration'.carries = Carries(stage)
      BY <2>2, <2>3 DEF Stop
    <3>2. Carries(stage)' = orchestration'.carries
      BY <3>1 DEF Carries
    <3>. QED
      BY <2>1, <3>1, <3>2
  <2>4. CASE stage \notin OrchestratorStages
    <3>1. stage' = "idle" /\ answer'.carries = Carries(stage)
      BY <2>2, <2>4 DEF Stop
    <3>. QED
      BY <2>1, <3>1
  <2>. QED
    BY <2>3, <2>4
<1>4. CASE Reason
  BY <1>4 DEF Reason
<1>5. CASE Decide
  BY <1>5 DEF Decide
<1>6. CASE Propose
  BY <1>6 DEF Propose
<1>7. CASE Validate
  BY <1>7 DEF Validate
<1>8. CASE ReasonBlocked \/ ValidateRejects
  <2>1. CASE ReasonBlocked
    BY <2>1 DEF ReasonBlocked
  <2>2. CASE ValidateRejects
    BY <2>2 DEF ValidateRejects
  <2>. QED
    BY <1>8, <2>1, <2>2
<1>9. CASE Handoff
  BY <1>9 DEF Handoff
<1>10. CASE RespondTerminal
  BY <1>10 DEF RespondTerminal
<1>11. CASE Respond
  BY <1>11 DEF Respond
<1>12. CASE Send
  BY <1>12 DEF Send
<1>13. CASE Receive
  BY <1>13 DEF Receive
<1>14. CASE Interpret
  BY <1>14 DEF Interpret
<1>15. CASE Remember
  BY <1>15 DEF Remember
<1>. QED
  BY <1>1, <1>2, <1>3, <1>4, <1>5, <1>6, <1>7, <1>8, <1>9, <1>10, <1>11, <1>12, <1>13, <1>14, <1>15
     DEF Next, Boundary, Orchestrate, Integrate, Ended

\* A call has sent nothing before its handoff, and all that comes after the
\* handoff carries the command.
LEMMA DeliveredInductive ==
  TypeOK /\ DecisionInv /\ DeliveredInv /\ [Next]_vars => DeliveredInv'
<1>. SUFFICES ASSUME TypeOK, DecisionInv, DeliveredInv, [Next]_vars PROVE DeliveredInv'
  OBVIOUS
<1>. USE Names DEF DeliveredInv, DeliveryIsVisible, Answered, At, Proceed, Answer, Orchestrated,
     thoughtVars, agentVars
<1>0. calls \in Nat /\ \A c \in delivered : c.call \in Nat
  <2>1. calls \in 0 .. MaxCalls /\ \A c \in delivered : c.call \in 0 .. MaxCalls
    BY DEF TypeOK, Commands
  <2>. QED
    BY <2>1, BoundsAssumption
<1>1. CASE Cancel \/ EnterStage \/ UNCHANGED vars
  <2>1. UNCHANGED <<stage, calls, delivered, answer>>
    BY <1>1 DEF Cancel, EnterStage, vars
  <2>. QED
    BY <2>1 DEF Current
<1>2. CASE Call
  <2>1. calls' = calls + 1 /\ UNCHANGED delivered
    BY <1>2 DEF Call
  <2>2. \A c \in delivered : c.call <= calls' /\ c.call # calls'
    BY <1>0, <2>1
  <2>3. Current' = {}
    BY <2>1, <2>2 DEF Current
  <2>4. stage' \in {"reasoning_to_intent", "idle"}
    BY <1>2 DEF Call
  <2>. QED
    BY <2>1, <2>2, <2>3, <2>4
<1>3. CASE StageCancelled \/ StageRaises \/ StageReturnsOther
  <2>1. stage \in Stages /\ stage # "idle" /\ UNCHANGED <<calls, delivered>>
    BY <1>3 DEF StageCancelled, StageRaises, StageReturnsOther
  <2>2. PICK status \in {"cancelled", "failed"} : Stop(status)
    BY <1>3 DEF StageCancelled, StageRaises, StageReturnsOther
  <2>3. Current' = Current
    BY <2>1 DEF Current
  <2>4. CASE stage \in OrchestratorStages
    <3>1. stage' = "response_generation"
      BY <2>2, <2>4 DEF Stop
    <3>. QED
      BY <2>1, <2>3, <2>4, <3>1
  <2>5. CASE stage \in {"response_generation", "agent_handoff"}
    <3>1. stage' = "idle"
      BY <2>2, <2>5 DEF Stop, OrchestratorStages
    <3>. QED
      BY <2>1, <2>3, <2>5, <3>1 DEF OrchestratorStages
  <2>6. CASE stage \in {"agent_feedback", "result_interpretation", "memory_feedback"}
    <3>1. stage' = "idle" /\ answer'.carries = Carries(stage)
      BY <2>2, <2>6 DEF Stop, OrchestratorStages
    <3>2. "command" \in Carries(stage)
      BY <2>6 DEF Carries
    <3>. QED
      BY <2>1, <3>1, <3>2 DEF OrchestratorStages
  <2>. QED
    BY <2>1, <2>4, <2>5, <2>6 DEF Stages
<1>4. CASE Orchestrate
  <2>1. /\ stage \in OrchestratorStages
        /\ stage' \in OrchestratorStages \cup {"response_generation"}
        /\ UNCHANGED <<calls, delivered>>
    BY <1>4 DEF Orchestrate, Reason, ReasonBlocked, Decide, Propose, Validate, ValidateRejects,
         Handoff, OrchestratorStages
  <2>2. Current' = {}
    BY <2>1 DEF Current
  <2>. QED
    BY <2>1, <2>2
<1>5. CASE RespondTerminal \/ Respond
  <2>1. /\ stage = "response_generation" /\ stage' \in {"idle", "agent_handoff"}
        /\ UNCHANGED <<calls, delivered>>
    BY <1>5 DEF RespondTerminal, Respond
  <2>2. Current' = {}
    BY <2>1 DEF Current
  <2>. QED
    BY <2>1, <2>2
<1>6. CASE Send
  <2>1. /\ delivered' = delivered \cup {Command} /\ UNCHANGED calls
        /\ stage' \in {"idle", "agent_feedback"}
        /\ stage' = "idle" => "command" \in answer'.carries
    BY <1>6 DEF Send
  <2>2. \A c \in delivered' : c.call <= calls'
    BY <1>0, <2>1 DEF Command
  <2>. QED
    BY <2>1, <2>2 DEF OrchestratorStages
<1>7. CASE SendRaises
  <2>1. /\ delivered' \in {delivered, delivered \cup {Command}} /\ UNCHANGED calls
        /\ stage' = "idle" /\ answer'.stage = "agent_handoff"
        /\ answer'.status \in {"cancelled", "failed"}
    BY <1>7 DEF SendRaises, Stop, OrchestratorStages
  <2>2. \A c \in delivered' : c.call <= calls'
    BY <1>0, <2>1 DEF Command
  <2>. QED
    BY <2>1, <2>2 DEF OrchestratorStages
<1>8. CASE Receive \/ Interpret
  <2>1. stage' \in {"result_interpretation", "memory_feedback"} /\ UNCHANGED <<calls, delivered>>
    BY <1>8 DEF Receive, Interpret
  <2>. QED
    BY <2>1 DEF OrchestratorStages
<1>9. CASE Remember
  <2>1. stage' = "idle" /\ "command" \in answer'.carries /\ UNCHANGED <<calls, delivered>>
    BY <1>9 DEF Remember
  <2>. QED
    BY <2>1 DEF OrchestratorStages
<1>. QED
  BY <1>1, <1>2, <1>3, <1>4, <1>5, <1>6, <1>7, <1>8, <1>9 DEF Next, Boundary, Integrate, Ended

\* What the four interpretations say about the feedback they were made of.
LEMMA InterpretationMeaning ==
  ASSUME NEW f \in [Steps -> StepResult]
  PROVE  /\ Interpretation(f) = "completed" => \A s \in Steps : f[s] = "completed"
         /\ Interpretation(f) = "incomplete" =>
              /\ \A s \in Steps : f[s] \notin {"failed", "cancelled"}
              /\ \E s \in Steps : f[s] # "completed"
         /\ Interpretation(f) = "cancelled" => \E s \in Steps : f[s] = "cancelled"
BY DEF Interpretation, StepResult

\* Each status is given where its reason is at hand, and the receipt, the
\* feedback and what was produced stay until the next call.
LEMMA EarnedInductive ==
  TypeOK /\ DecisionInv /\ ProducedInv /\ DeliveredInv /\ EarnedInv /\ [Next]_vars => EarnedInv'
<1>. SUFFICES ASSUME TypeOK, DecisionInv, ProducedInv, DeliveredInv, EarnedInv, [Next]_vars
              PROVE  EarnedInv'
  OBVIOUS
<1>. USE Names DEF EarnedInv, Answered, At, Proceed, Answer, Orchestrated,
     thoughtVars, agentVars, cancelVars
<1>1. CASE Cancel \/ EnterStage \/ UNCHANGED vars
  <2>1. /\ UNCHANGED <<stage, calls, orchestration, agentVars, interpretation, produced, answer>>
        /\ cancelled => cancelled'
    BY <1>1 DEF Cancel, EnterStage, vars
  <2>. QED
    BY <2>1 DEF StatusIsEarned, Current
<1>2. CASE Call
  <2>1. /\ orchestration'.status = "none" /\ UNCHANGED cancelVars
        /\ \/ stage' = "reasoning_to_intent"
           \/ stage' = "idle" /\ cancelled /\ answer'.status = "cancelled"
    BY <1>2 DEF Call, NoOrchestration
  <2>. QED
    BY <2>1 DEF StatusIsEarned
<1>3. CASE StageCancelled \/ StageRaises \/ StageReturnsOther \/ SendRaises
  <2>1. stage \in Stages /\ UNCHANGED cancelVars
    BY <1>3 DEF StageCancelled, StageRaises, StageReturnsOther, SendRaises
  <2>2. PICK status \in {"cancelled", "failed"} : Stop(status) /\ (status = "cancelled" => cancelled)
    BY <1>3 DEF StageCancelled, StageRaises, StageReturnsOther, SendRaises
  <2>3. \/ /\ stage' = "response_generation"
           /\ orchestration'.status = status
        \/ stage' = "idle" /\ orchestration' = orchestration /\ answer'.status = status
    BY <2>2 DEF Stop
  <2>. QED
    BY <2>1, <2>2, <2>3 DEF StatusIsEarned
<1>4. CASE Reason \/ Decide \/ Propose \/ Validate \/ Respond
  <2>1. /\ UNCHANGED <<orchestration, cancelVars>>
        /\ stage' \in OrchestratorStages \cup {"agent_handoff"}
    BY <1>4 DEF Reason, Decide, Propose, Validate, Respond, OrchestratorStages
  <2>. QED
    BY <2>1 DEF StatusIsEarned, OrchestratorStages
<1>5. CASE ReasonBlocked \/ ValidateRejects \/ Handoff
  <2>1. stage' = "response_generation"
    BY <1>5 DEF ReasonBlocked, ValidateRejects, Handoff
  <2>2. \/ orchestration'.status = "completed"
        \/ orchestration'.status = "blocked" /\ "agent_decision" \notin orchestration'.carries
    <3>1. CASE ReasonBlocked
      BY <3>1 DEF ReasonBlocked
    <3>2. CASE ValidateRejects
      BY <3>2 DEF ValidateRejects
    <3>3. CASE Handoff
      BY <3>3 DEF Handoff
    <3>. QED
      BY <1>5, <3>1, <3>2, <3>3
  <2>. QED
    BY <2>1, <2>2 DEF StatusIsEarned
<1>6. CASE RespondTerminal
  <2>1. /\ stage = "response_generation" /\ stage' = "idle"
        /\ answer'.status = orchestration.status /\ orchestration.status # "completed"
        /\ produced' = produced \cup {"response"}
        /\ UNCHANGED <<cancelVars, calls, orchestration, delivered>>
    BY <1>6 DEF RespondTerminal
  <2>2. produced = orchestration.carries
    BY <2>1 DEF ProducedInv, Carries
  <2>3. Current' = {}
    BY <2>1 DEF DeliveredInv, Current
  <2>4. orchestration.status \in OrchestrationStatus
    BY DEF TypeOK
  <2>. QED
    BY <2>1, <2>2, <2>3, <2>4 DEF StatusIsEarned, OrchestrationStatus
<1>7. CASE Send
  <2>1. /\ delivered' = delivered \cup {Command}
        /\ UNCHANGED <<cancelVars, calls, orchestration, feedback>>
    BY <1>7 DEF Send
  <2>2. Current' # {}
    <3>1. Command \in delivered' /\ Command.call = calls'
      BY <2>1 DEF Command
    <3>. QED
      BY <3>1 DEF Current
  <2>3. \/ /\ stage' = "idle" /\ answer'.status = "agent_rejected" /\ receipt' = "rejected"
        \/ /\ stage' = "idle" /\ answer'.status = "waiting_for_execution"
           /\ receipt' = "accepted" /\ feedback = NoFeedback
        \/ /\ stage' = "agent_feedback" /\ receipt' = "accepted" /\ feedback # NoFeedback
    BY <1>7 DEF Send
  <2>. QED
    BY <2>1, <2>2, <2>3 DEF StatusIsEarned, TypeOK
<1>8. CASE Receive
  <2>1. /\ stage' = "result_interpretation" /\ stage = "agent_feedback"
        /\ UNCHANGED <<cancelVars, orchestration, receipt, feedback>>
    BY <1>8 DEF Receive
  <2>. QED
    BY <2>1 DEF StatusIsEarned
<1>9. CASE Interpret
  <2>1. /\ stage' = "memory_feedback" /\ stage = "result_interpretation"
        /\ feedback # Malformed /\ interpretation' = Interpretation(feedback)
        /\ UNCHANGED <<cancelVars, orchestration, receipt, feedback>>
    BY <1>9 DEF Interpret
  <2>. QED
    BY <2>1 DEF StatusIsEarned, Feedbacks
<1>10. CASE Remember
  <2>1. /\ stage = "memory_feedback" /\ stage' = "idle"
        /\ answer'.status =
             (IF interpretation = "incomplete" THEN "execution_incomplete" ELSE interpretation)
        /\ UNCHANGED <<cancelVars, calls, orchestration, receipt, feedback, delivered>>
    BY <1>10 DEF Remember
  <2>2. /\ feedback \in [Steps -> StepResult] /\ interpretation = Interpretation(feedback)
        /\ receipt = "accepted"
    BY <2>1
  <2>3. interpretation \in Interpretations
    BY <2>2, InterpretationType
  <2>. QED
    BY <2>1, <2>2, <2>3, InterpretationMeaning DEF StatusIsEarned, Interpretations
<1>. QED
  BY <1>1, <1>2, <1>3, <1>4, <1>5, <1>6, <1>7, <1>8, <1>9, <1>10
     DEF Next, Boundary, Orchestrate, Integrate, Ended

-----------------------------------------------------------------------------
(* The inductive invariant and what follows from it                        *)

\* A session starts idle, with nothing produced and nothing delivered.
LEMMA InitIInv == Init => IInv
<1>. SUFFICES ASSUME Init PROVE IInv
  OBVIOUS
<1>. USE Names DEF Init
<1>1. TypeOK
  <2>1. /\ calls \in 0 .. MaxCalls /\ candidateIndex \in 0 .. NoIndex
        /\ cancelPoint \in [call : 0 .. MaxCalls, stage : Stages \cup {"idle", "none"},
                           inside : BOOLEAN]
    BY BoundsAssumption DEF NotCancelled
  <2>2. /\ orchestration \in [status : OrchestrationStatus, stage : Places, carries : SUBSET Parts]
        /\ answer \in [status : FullStatus, stage : Places, carries : SUBSET Parts]
    BY DEF NoOrchestration, NoAnswer
  <2>3. decision \in Decisions \cup {NoDecision} /\ proposal \in Proposals
    BY DEF Proposals
  <2>. QED
    BY <2>1, <2>2, <2>3 DEF TypeOK
<1>2. DecisionInv
  BY DEF DecisionInv, NoOrchestration, OrchestratorStages
<1>3. ConsistentInv
  BY DEF ConsistentInv, CommandsAreConsistent, NoOrchestration
<1>4. LateInv
  BY DEF LateInv, OneLateCommand
<1>5. ProducedInv
  BY DEF ProducedInv, NothingIsLost, Answered
<1>6. DeliveredInv
  BY DEF DeliveredInv, DeliveryIsVisible, Answered, OrchestratorStages
<1>7. EarnedInv
  BY DEF EarnedInv, StatusIsEarned, Answered, NoOrchestration
<1>. QED
  BY <1>1, <1>2, <1>3, <1>4, <1>5, <1>6, <1>7 DEF IInv

\* Every step keeps the inductive invariant.
LEMMA StepIInv == IInv /\ [Next]_vars => IInv'
BY TypeInductive, ConsistentInductive, LateInductive, ProducedInductive, DeliveredInductive,
   EarnedInductive DEF IInv

\* The inductive invariant holds in every reachable state of a session.
THEOREM Invariance == Spec => []IInv
<1>1. Init => IInv
  BY InitIInv
<1>2. IInv /\ [Next]_vars => IInv'
  BY StepIInv
<1>. QED
  BY <1>1, <1>2, PTL DEF Spec

\* Every variable of a session keeps its type.
THEOREM TypeCorrect == Spec => []TypeOK
<1>1. IInv => TypeOK
  BY DEF IInv
<1>. QED
  BY <1>1, Invariance, PTL

\* No command ever reaches the agent with a decision about another intent, or
\* with a proposal its decision does not call for, whatever the validator says.
THEOREM ConsistentCommands == Spec => []CommandsAreConsistent
<1>1. IInv => CommandsAreConsistent
  BY DEF IInv, ConsistentInv
<1>. QED
  BY <1>1, Invariance, PTL

\* At most the command that was being sent reaches the agent after cancel().
THEOREM LateCommandBound == Spec => []OneLateCommand
<1>1. IInv => OneLateCommand
  BY DEF IInv, LateInv
<1>. QED
  BY <1>1, Invariance, PTL

\* Every answer carries every part the call produced before it stopped.
THEOREM AnswersComplete == Spec => []NothingIsLost
<1>1. IInv => NothingIsLost
  BY DEF IInv, ProducedInv
<1>. QED
  BY <1>1, Invariance, PTL

\* The caller learns of every command that reached the agent.
THEOREM VisibleDelivery == Spec => []DeliveryIsVisible
<1>1. IInv => DeliveryIsVisible
  BY DEF IInv, DeliveredInv
<1>. QED
  BY <1>1, Invariance, PTL

\* The status of every answer is earned by the receipt, the feedback and the
\* token of its call, for feedback about any number of steps.
THEOREM EarnedStatus == Spec => []StatusIsEarned
<1>1. IInv => StatusIsEarned
  BY DEF IInv, EarnedInv
<1>. QED
  BY <1>1, Invariance, PTL
=============================================================================
