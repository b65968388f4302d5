---------------------------- MODULE WorkflowRuns ----------------------------
(***************************************************************************)
(* The two callers of DefaultWorkflowRunner (runtime/workflows): a request *)
(* through DefaultAgent.handle (runtime/agents/agent_impl.py) and a job of *)
(* LongRunningWorkflowManager (application/workflows.py), one after the    *)
(* other.  The runner builds a plan and has it executed; the execution is  *)
(* PlanExecution, which the executor implements.  The token of a request   *)
(* may be set by another thread at any moment, and be passed again.        *)
(***************************************************************************)
EXTENDS Naturals

CONSTANTS
  Jobs,          \* job_ids
  NumSteps,      \* steps of the plans that workflows build
  MaxRequests    \* bound on the requests and job runs

ASSUME WorkflowAssumption == MaxRequests \in Nat /\ NumSteps \in Nat \ {0}

VARIABLES
  registered,       \* the keys of LongRunningWorkflowManager._jobs
  requests,         \* how many requests and job runs were made
  client,           \* who serves the current one, "manager" or "agent"
  place,            \* how far it is
  hasToken,         \* a cancellation token was passed
  outcome,          \* what it returned or raised
  deps, status, cancelRequested, phase    \* the execution of its plan

Execution == INSTANCE PlanExecution
Steps     == Execution!Steps

serviceVars   == <<registered, requests, client, hasToken>>
executionVars == <<deps, status, cancelRequested, phase>>
vars == <<serviceVars, place, outcome, executionVars>>

NoResults == [s \in Steps |-> "none"]
Pending   == [s \in Steps |-> "pending"]
Unplanned == [s \in Steps |-> {}]
NoOutcome == [answer |-> "none", results |-> NoResults]

\* The request is over.  Either client hands on the results it was given.
Conclude(answer, results) ==
  /\ place' = "idle"
  /\ outcome' = [answer |-> answer, results |-> results]

-----------------------------------------------------------------------------
(* The caller                                                              *)

\* A second job of the same job_id is refused, which changes nothing.
Register ==
  /\ \E j \in Jobs \ registered : registered' = registered \cup {j}
  /\ UNCHANGED <<requests, client, place, hasToken, outcome, executionVars>>

\* CancellationSource.cancel from another thread, or between two requests.
Cancel ==
  /\ hasToken /\ ~cancelRequested
  /\ Execution!RequestCancel
  /\ UNCHANGED <<serviceVars, place, outcome>>

\* The next request comes with no token or with one that may be set already.
Begin(who) ==
  /\ place = "idle" /\ requests < MaxRequests
  /\ requests' = requests + 1
  /\ client' = who
  /\ hasToken' \in BOOLEAN
  /\ cancelRequested' \in (IF hasToken' THEN BOOLEAN ELSE {FALSE})
  /\ deps' = Unplanned /\ status' = Pending /\ phase' = "executing"
  /\ UNCHANGED registered

\* LongRunningWorkflowManager.run; an unknown job_id is a KeyError.  It looks
\* at the token before it calls the runner.
RunJob ==
  \E job \in Jobs :
    /\ Begin("manager")
    /\ IF job \notin registered THEN Conclude("raised", NoResults)
       ELSE IF cancelRequested' THEN Conclude("cancelled", NoResults)
       ELSE place' = "building" /\ outcome' = NoOutcome

\* DefaultAgent.handle starts with the decision of the intelligence.
Handle ==
  /\ Begin("agent")
  /\ place' = "deciding" /\ outcome' = NoOutcome

-----------------------------------------------------------------------------
(* DefaultAgent.handle                                                     *)

\* decide raises, or returns no AgentDecision.
DecisionFails ==
  /\ place = "deciding"
  /\ Conclude("raised", NoResults)
  /\ UNCHANGED <<serviceVars, executionVars>>

\* decide came back, and the token is looked at.
DecisionCancelled ==
  /\ place = "deciding" /\ cancelRequested
  /\ Conclude("cancelled", NoResults)
  /\ UNCHANGED <<serviceVars, executionVars>>

\* RESPOND, ASK_CLARIFICATION and DECLINE.
Reply ==
  /\ place = "deciding" /\ ~cancelRequested
  /\ Conclude("message", NoResults)
  /\ UNCHANGED <<serviceVars, executionVars>>

\* RUN_WORKFLOW of a workflow the resolver knows; any other is raised.
RunWorkflow ==
  /\ place = "deciding" /\ ~cancelRequested
  /\ \/ place' = "building" /\ UNCHANGED outcome
     \/ Conclude("raised", NoResults)
  /\ UNCHANGED <<serviceVars, executionVars>>

-----------------------------------------------------------------------------
(* DefaultWorkflowRunner.execute                                           *)

\* Wrong on purpose: a dependency on a step that is not there is let through.
BuildPlan_NoReferenceCheck ==
  /\ place = "building"
  /\ place' = "executing"
  /\ deps' \in [Steps -> SUBSET (0 .. NumSteps)]
  /\ UNCHANGED <<serviceVars, outcome, status, cancelRequested, phase>>

\* build_steps returns steps that an ExecutionPlan can be made of.
BuildPlan ==
  /\ place = "building"
  /\ place' = "executing"
  /\ deps' \in Execution!Plans
  /\ UNCHANGED <<serviceVars, outcome, status, cancelRequested, phase>>

\* What an exception becomes: a FAILED run of the manager, without results;
\* the agent lets it go on to its caller.
Raised == Conclude(IF client = "manager" THEN "failed" ELSE "raised", NoResults)

\* build_steps raises, returns nothing, or returns steps that make no plan.
BuildFails ==
  /\ place = "building"
  /\ Raised
  /\ UNCHANGED <<serviceVars, executionVars>>

\* A step of RuntimeExecutor.execute.
Execute ==
  /\ place = "executing"
  /\ \/ \E s \in Steps : Execution!Start(s) \/ Execution!Finish(s) \/ Execution!CancelBlocked(s)
     \/ Execution!CancelRest
     \/ Execution!Answer
     \/ Execution!Abort
  /\ UNCHANGED <<serviceVars, place, outcome>>

-----------------------------------------------------------------------------
(* What becomes of the results                                             *)

SomeStep(kind) == \E s \in Steps : status[s] = kind

\* Wrong on purpose: a run is judged by its last step.
JobStatus_LastStep ==
  IF cancelRequested THEN "cancelled"
  ELSE IF status[NumSteps] = "failed" THEN "failed" ELSE "completed"

\* Wrong on purpose: the results are looked at before the token.
JobStatus_FailuresFirst ==
  IF SomeStep("failed") THEN "failed"
  ELSE IF cancelRequested THEN "cancelled" ELSE "completed"

\* The manager looks at the token again, then at the results.
JobStatus ==
  IF cancelRequested THEN "cancelled"
  ELSE IF SomeStep("failed") THEN "failed" ELSE "completed"

\* Wrong on purpose: a cancelled run returns without its results.
ReturnResults_CancelledEmpty ==
  /\ place = "executing" /\ phase = "answered"
  /\ IF client = "manager"
     THEN Conclude(JobStatus, IF cancelRequested THEN NoResults ELSE status)
     ELSE Conclude("results", status)
  /\ UNCHANGED <<serviceVars, executionVars>>

ReturnResults ==
  /\ place = "executing" /\ phase = "answered"
  /\ Conclude(IF client = "manager" THEN JobStatus ELSE "results", status)
  /\ UNCHANGED <<serviceVars, executionVars>>

\* The executor raised.
ExecutionRaises ==
  /\ place = "executing" /\ phase = "aborted"
  /\ Raised
  /\ UNCHANGED <<serviceVars, executionVars>>

\* No more requests.
Done == place = "idle" /\ requests = MaxRequests /\ UNCHANGED vars

-----------------------------------------------------------------------------

Init ==
  /\ registered = {} /\ requests = 0
  /\ client = "agent" /\ place = "idle" /\ hasToken = FALSE
  /\ outcome = NoOutcome
  /\ deps = Unplanned /\ status = Pending
  /\ cancelRequested = FALSE /\ phase = "executing"

\* The steps of the thread that called.
Serve ==
  \/ DecisionFails \/ DecisionCancelled \/ Reply \/ RunWorkflow
  \/ BuildPlan \/ BuildFails
  \/ Execute
  \/ ReturnResults \/ ExecutionRaises

Next == Register \/ Cancel \/ RunJob \/ Handle \/ Serve \/ Done

Spec == Init /\ [][Next]_vars
=============================================================================
