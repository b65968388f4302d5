-------------------------- MODULE IntelligenceProps -------------------------
(***************************************************************************)
(* What must be true of FullIntelligenceIntegration.run.                   *)
(***************************************************************************)
EXTENDS Intelligence

Parts == {"intent", "decision", "proposal", "agent_decision", "response", "command",
          "feedback", "interpretation", "memory_feedback"}

OrchestrationStatus == {"none", "completed", "blocked", "failed", "cancelled"}
FullStatus == OrchestrationStatus \cup
  {"waiting_for_execution", "agent_rejected", "execution_incomplete"}
Places == Stages \cup
  {"none", "orchestration", "orchestration_terminal", "waiting_for_execution", "complete"}

Commands == [call : 0 .. MaxCalls, late : BOOLEAN, decision : Decisions \cup {NoDecision},
             proposal : Proposals]

\* Every variable holds a value of its type.
TypeOK ==
  /\ cancelled \in BOOLEAN
  /\ calls \in 0 .. MaxCalls
  /\ stage \in Stages \cup {"idle"}
  /\ inside \in BOOLEAN
  /\ candidateIndex \in 0 .. NoIndex
  /\ decision \in Decisions \cup {NoDecision}
  /\ proposal \in Proposals
  /\ orchestration \in [status : OrchestrationStatus, stage : Places, carries : SUBSET Parts]
  /\ receipt \in Receipts \cup {"none"}
  /\ feedback \in Feedbacks \cup {NoFeedback}
  /\ interpretation \in Interpretations \cup {"none"}
  /\ produced \subseteq Parts
  /\ answer \in [status : FullStatus, stage : Places, carries : SUBSET Parts]
  /\ delivered \subseteq Commands
  /\ cancelPoint \in [call : 0 .. MaxCalls, stage : Stages \cup {"idle", "none"}, inside : BOOLEAN]

Answered == stage = "idle" /\ calls > 0

\* The command of the current call, if it reached the agent.
Current == { c \in delivered : c.call = calls }

-----------------------------------------------------------------------------
(* Safety                                                                  *)

\* Whatever the generators and the validator of stage 9.5.5 answer, the agent
\* only ever gets a command whose decision belongs to the call's intent, with
\* a workflow proposed for that very decision when it runs one.
CommandsAreConsistent ==
  \A c \in delivered :
    /\ c.decision.ofIntent
    /\ IF c.decision.kind = "use_workflow"
       THEN c.proposal = [class |-> "workflow", ofDecision |-> TRUE]
       ELSE c.proposal = NoProposal

\* A command reaches the agent after the request was cancelled only if
\* cancel() came when the handoff of that very call was under way: over all
\* the calls made for the request, at most one.
OneLateCommand ==
  \A c \in delivered : c.late =>
    cancelPoint = [call |-> c.call, stage |-> "agent_handoff", inside |-> TRUE]

\* An answer carries everything the call produced until then, the agent's
\* receipt first of all, at whichever of the stages the call stopped; and it
\* carries nothing the call did not produce.
NothingIsLost == Answered => answer.carries = produced

\* The caller learns of every command that reached the agent: the answer
\* carries the receipt, or it names the handoff as the stage that failed or
\* was cancelled.  In every other case the agent got no command.
DeliveryIsVisible ==
  Answered /\ Current # {} =>
    \/ "command" \in answer.carries
    \/ answer.status \in {"failed", "cancelled"} /\ answer.stage = "agent_handoff"

\* The status of an answer is earned by what happened in the call.
StatusIsEarned ==
  Answered =>
    /\ answer.status = "completed" =>
         receipt = "accepted" /\ \A s \in Steps : feedback[s] = "completed"
    /\ answer.status = "waiting_for_execution" =>
         receipt = "accepted" /\ Current # {} /\ feedback = NoFeedback
    /\ answer.status = "execution_incomplete" =>
         /\ \A s \in Steps : feedback[s] \notin {"failed", "cancelled"}
         /\ \E s \in Steps : feedback[s] # "completed"
    /\ answer.status = "cancelled" =>
         cancelled \/ \E s \in Steps : feedback[s] = "cancelled"
    /\ answer.status = "agent_rejected" => receipt = "rejected"
    /\ answer.status = "blocked" => Current = {} /\ "agent_decision" \notin produced
=============================================================================
