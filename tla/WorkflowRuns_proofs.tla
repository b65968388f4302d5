------------------------- MODULE WorkflowRuns_proofs ------------------------
(***************************************************************************)
(* Proofs about WorkflowRuns, for plans of every size and any number of    *)
(* jobs and requests.                                                      *)
(*                                                                         *)
(* The argument: nothing runs before a plan is built; as long as nobody    *)
(* asked for a cancellation, a cancelled step means that some step failed; *)
(* and an execution answers only when every step is terminal.  So a run in *)
(* which no step failed and nothing was cancelled has only completed steps.*)
(***************************************************************************)
EXTENDS WorkflowRunsProps, TLAPS

-----------------------------------------------------------------------------
(* The inductive invariant, in named parts                                 *)

\* Nothing has run before the plan of a request is executed.
FreshInv ==
  place \in {"deciding", "building"} => phase = "executing" /\ \A s \in Steps : status[s] = "pending"

\* A step is cancelled only on request or because some step failed.
CauseInv ==
  (\E s \in Steps : status[s] = "cancelled") =>
    cancelRequested \/ \E s \in Steps : status[s] = "failed"

\* An execution has answered when every step is terminal.
AnsweredInv ==
  phase = "answered" => \A s \in Steps : status[s] \in Execution!Terminal

IInv ==
  /\ TypeOK /\ FreshInv /\ CauseInv /\ AnsweredInv
  /\ JobStatusIsEarned /\ WorkIsReported

-----------------------------------------------------------------------------

LEMMA StepsExist == 1 \in Steps
BY WorkflowAssumption DEF Steps, Execution!Steps

\* The sets of names.
LEMMA Names ==
  /\ Execution!ExecutionStatus = {"pending", "running", "completed", "failed", "cancelled"}
  /\ Execution!Terminal = {"completed", "failed", "cancelled"}
BY DEF Execution!ExecutionStatus, Execution!Terminal

\* What the start of a request establishes.
LEMMA BeginFacts ==
  ASSUME TypeOK, NEW who \in {"manager", "agent"}, Begin(who)
  PROVE  /\ requests' \in 0 .. MaxRequests /\ client' = who /\ hasToken' \in BOOLEAN
         /\ registered' = registered /\ cancelRequested' \in BOOLEAN
         /\ deps' = Unplanned /\ status' = Pending /\ phase' = "executing"
<1>1. requests' \in 0 .. MaxRequests
  BY WorkflowAssumption DEF Begin, TypeOK
<1>2. cancelRequested' \in BOOLEAN /\ hasToken' \in BOOLEAN
  <2>1. CASE hasToken'
    BY <2>1 DEF Begin
  <2>2. CASE ~hasToken'
    BY <2>2 DEF Begin
  <2>. QED
    BY <2>1, <2>2
<1>. QED
  BY <1>1, <1>2 DEF Begin

\* What a step of the executor keeps and changes.
LEMMA ExecuteFacts ==
  ASSUME TypeOK, CauseInv, AnsweredInv, Execute
  PROVE  /\ Execution!TypeOK' /\ CauseInv' /\ AnsweredInv'
<1>. USE Names DEF TypeOK, Execution!TypeOK, CauseInv, AnsweredInv, Steps
<1>1. ASSUME NEW s \in Steps, Execution!Start(s)
      PROVE  Execution!TypeOK' /\ CauseInv' /\ AnsweredInv'
  BY <1>1 DEF Execution!Start
<1>2. ASSUME NEW s \in Steps, Execution!Finish(s)
      PROVE  Execution!TypeOK' /\ CauseInv' /\ AnsweredInv'
  <2>1. PICK outcomeOf \in {"completed", "failed"} : status' = [status EXCEPT ![s] = outcomeOf]
    BY <1>2 DEF Execution!Finish
  <2>. QED
    BY <1>2, <2>1 DEF Execution!Finish
<1>3. ASSUME NEW s \in Steps, Execution!CancelBlocked(s)
      PROVE  Execution!TypeOK' /\ CauseInv' /\ AnsweredInv'
  <2>1. PICK d \in deps[s] : status[d] \in {"failed", "cancelled"}
    BY <1>3 DEF Execution!CancelBlocked
  <2>2. d \in Steps
    OBVIOUS
  <2>3. cancelRequested \/ \E t \in Steps : status[t] = "failed"
    BY <2>1, <2>2
  <2>. QED
    BY <1>3, <2>3 DEF Execution!CancelBlocked
<1>4. ASSUME Execution!CancelRest
      PROVE  Execution!TypeOK' /\ CauseInv' /\ AnsweredInv'
  BY <1>4 DEF Execution!CancelRest
<1>5. ASSUME Execution!Answer
      PROVE  Execution!TypeOK' /\ CauseInv' /\ AnsweredInv'
  BY <1>5 DEF Execution!Answer
<1>6. ASSUME Execution!Abort
      PROVE  Execution!TypeOK' /\ CauseInv' /\ AnsweredInv'
  BY <1>6 DEF Execution!Abort
<1>. QED
  BY <1>1, <1>2, <1>3, <1>4, <1>5, <1>6 DEF Execute

\* An answer without results, to a request no step of which ran.
LEMMA SilentAnswer ==
  ASSUME TypeOK, NEW a \in {"failed", "cancelled", "message", "raised"},
         Conclude(a, NoResults), UNCHANGED <<serviceVars, executionVars>>,
         phase = "aborted" \/ \A s \in Steps : status[s] = "pending",
         a = "cancelled" => cancelRequested
  PROVE  TypeOK' /\ JobStatusIsEarned' /\ WorkIsReported'
<1>1. outcome' = [answer |-> a, results |-> NoResults] /\ place' = "idle"
  BY DEF Conclude
<1>2. NoResults \in Results
  BY DEF NoResults, Results
<1>3. TypeOK'
  BY <1>1, <1>2 DEF TypeOK, Execution!TypeOK, serviceVars, executionVars
<1>4. JobStatusIsEarned'
  BY <1>1 DEF JobStatusIsEarned, serviceVars, executionVars
<1>5. WorkIsReported'
  BY <1>1 DEF WorkIsReported, Ran, serviceVars, executionVars
<1>. QED
  BY <1>3, <1>4, <1>5

\* The answer of the manager and of the agent when the executor answered.
LEMMA ResultsAnswer ==
  ASSUME TypeOK, CauseInv, AnsweredInv, ReturnResults
  PROVE  TypeOK' /\ JobStatusIsEarned' /\ WorkIsReported'
<1>. DEFINE a == IF client = "manager" THEN JobStatus ELSE "results"
<1>1. outcome' = [answer |-> a, results |-> status] /\ place' = "idle"
  BY DEF ReturnResults, Conclude
<1>2. /\ UNCHANGED <<serviceVars, executionVars>> /\ phase = "answered"
      /\ a \in {"completed", "failed", "cancelled", "results"}
  BY DEF ReturnResults, JobStatus
<1>3. status \in Results
  BY DEF TypeOK, Execution!TypeOK, Results, Steps
<1>4. \A s \in Steps : status[s] \in {"completed", "failed", "cancelled"}
  BY <1>2, Names DEF AnsweredInv
<1>5. TypeOK'
  BY <1>1, <1>2, <1>3 DEF TypeOK, Execution!TypeOK, serviceVars, executionVars
<1>6. JobStatusIsEarned'
  <2>1. client = "manager" => a = JobStatus
    OBVIOUS
  <2>2. JobStatus = "completed" => \A s \in Steps : status[s] = "completed"
    BY <1>4 DEF JobStatus, SomeStep, CauseInv
  <2>3. JobStatus = "failed" => \E s \in Steps : status[s] = "failed"
    BY DEF JobStatus, SomeStep
  <2>4. JobStatus = "cancelled" => cancelRequested
    BY DEF JobStatus
  <2>. HIDE DEF a
  <2>. QED
    BY <1>1, <1>2, <2>1, <2>2, <2>3, <2>4 DEF JobStatusIsEarned, serviceVars, executionVars
<1>7. WorkIsReported'
  <2>1. status # NoResults
    BY <1>4, StepsExist DEF NoResults
  <2>. HIDE DEF a
  <2>. QED
    BY <1>1, <1>2, <1>4, <2>1, Names DEF WorkIsReported, serviceVars, executionVars
<1>. QED
  BY <1>5, <1>6, <1>7

\* A request starts with nothing run, and a job whose token is set already is
\* answered at once.
LEMMA BeginInv ==
  ASSUME IInv, RunJob \/ Handle
  PROVE  IInv'
<1>. USE Names DEF IInv, Steps
<1>1. Pending \in [Steps -> Execution!ExecutionStatus] /\ Unplanned \in [Steps -> SUBSET Steps]
  BY DEF Pending, Unplanned
<1>2. NoResults \in Results
  BY DEF NoResults, Results
<1>3. /\ requests' \in 0 .. MaxRequests /\ client' \in {"manager", "agent"} /\ hasToken' \in BOOLEAN
      /\ registered' = registered /\ cancelRequested' \in BOOLEAN
      /\ deps' = Unplanned /\ status' = Pending /\ phase' = "executing"
  BY BeginFacts DEF RunJob, Handle
<1>4. /\ place' \in {"idle", "deciding", "building"}
      /\ outcome'.results = NoResults
      /\ outcome'.answer \in {"none", "raised", "cancelled"}
      /\ outcome'.answer = "cancelled" => cancelRequested'
      /\ outcome' = [answer |-> outcome'.answer, results |-> NoResults]
  <2>1. CASE Handle
    BY <2>1 DEF Handle, NoOutcome
  <2>2. CASE RunJob
    <3>0. PICK job \in Jobs :
            IF job \notin registered THEN Conclude("raised", NoResults)
            ELSE IF cancelRequested' THEN Conclude("cancelled", NoResults)
            ELSE place' = "building" /\ outcome' = NoOutcome
      BY <2>2 DEF RunJob
    <3>1. CASE job \notin registered
      BY <3>0, <3>1 DEF Conclude
    <3>2. CASE job \in registered /\ cancelRequested'
      BY <3>0, <3>2 DEF Conclude
    <3>3. CASE job \in registered /\ ~cancelRequested'
      BY <3>0, <3>3 DEF NoOutcome
    <3>. QED
      BY <3>1, <3>2, <3>3
  <2>. QED
    BY <2>1, <2>2
<1>5. TypeOK'
  BY <1>1, <1>2, <1>3, <1>4 DEF TypeOK, Execution!TypeOK
<1>6. \A s \in Steps : status'[s] = "pending"
  BY <1>3 DEF Pending
<1>7. FreshInv' /\ CauseInv' /\ AnsweredInv'
  BY <1>3, <1>6 DEF FreshInv, CauseInv, AnsweredInv
<1>8. JobStatusIsEarned' /\ WorkIsReported'
  BY <1>3, <1>4, <1>6 DEF JobStatusIsEarned, WorkIsReported, Ran
<1>. QED
  BY <1>5, <1>7, <1>8

\* Every step keeps the inductive invariant.
LEMMA StepIInv == IInv /\ [Next]_vars => IInv'
<1>. SUFFICES ASSUME IInv, [Next]_vars PROVE IInv'
  OBVIOUS
<1>1. CASE Register
  BY <1>1 DEF Register, IInv, TypeOK, FreshInv, CauseInv, AnsweredInv, JobStatusIsEarned,
     WorkIsReported, Ran, Over, executionVars, Execution!TypeOK
<1>2. CASE Cancel
  BY <1>2 DEF Cancel, Execution!RequestCancel, IInv, TypeOK, FreshInv, CauseInv, AnsweredInv,
     JobStatusIsEarned, WorkIsReported, Ran, Over, serviceVars, Execution!TypeOK
<1>3. CASE RunJob \/ Handle
  BY <1>3, BeginInv
<1>4. CASE DecisionFails \/ DecisionCancelled \/ Reply \/ BuildFails \/ ExecutionRaises
  <2>1. PICK a \in {"failed", "cancelled", "message", "raised"} :
          /\ Conclude(a, NoResults) /\ UNCHANGED <<serviceVars, executionVars>>
          /\ a = "cancelled" => cancelRequested
    BY <1>4 DEF DecisionFails, DecisionCancelled, Reply, BuildFails, ExecutionRaises, Raised
  <2>2. phase = "aborted" \/ \A s \in Steps : status[s] = "pending"
    BY <1>4 DEF DecisionFails, DecisionCancelled, Reply, BuildFails, ExecutionRaises,
       IInv, FreshInv
  <2>3. TypeOK' /\ JobStatusIsEarned' /\ WorkIsReported'
    BY <2>1, <2>2, SilentAnswer DEF IInv
  <2>4. FreshInv' /\ CauseInv' /\ AnsweredInv'
    BY <2>1 DEF Conclude, IInv, FreshInv, CauseInv, AnsweredInv, serviceVars, executionVars
  <2>. QED
    BY <2>3, <2>4 DEF IInv
<1>5. CASE RunWorkflow
  <2>1. CASE Conclude("raised", NoResults)
    <3>1. UNCHANGED <<serviceVars, executionVars>> /\ \A s \in Steps : status[s] = "pending"
      BY <1>5 DEF RunWorkflow, IInv, FreshInv
    <3>2. TypeOK' /\ JobStatusIsEarned' /\ WorkIsReported'
      BY <2>1, <3>1, SilentAnswer DEF IInv
    <3>. QED
      BY <2>1, <3>1, <3>2 DEF Conclude, IInv, FreshInv, CauseInv, AnsweredInv, serviceVars,
         executionVars
  <2>2. CASE place' = "building" /\ UNCHANGED outcome
    BY <1>5, <2>2 DEF RunWorkflow, IInv, TypeOK, FreshInv, CauseInv, AnsweredInv,
       JobStatusIsEarned, WorkIsReported, Over, serviceVars, executionVars, Execution!TypeOK
  <2>. QED
    BY <1>5, <2>1, <2>2 DEF RunWorkflow
<1>6. CASE BuildPlan
  BY <1>6 DEF BuildPlan, Execution!Plans, IInv, TypeOK, FreshInv, CauseInv, AnsweredInv,
     JobStatusIsEarned, WorkIsReported, Over, serviceVars, Execution!TypeOK
<1>7. CASE Execute
  <2>1. Execution!TypeOK' /\ CauseInv' /\ AnsweredInv'
    BY <1>7, ExecuteFacts DEF IInv
  <2>2. place = "executing" /\ UNCHANGED <<serviceVars, place, outcome>>
    BY <1>7 DEF Execute
  <2>. QED
    BY <2>1, <2>2 DEF IInv, TypeOK, FreshInv, JobStatusIsEarned, WorkIsReported, Over, serviceVars
<1>8. CASE ReturnResults
  <2>1. TypeOK' /\ JobStatusIsEarned' /\ WorkIsReported'
    BY <1>8, ResultsAnswer DEF IInv
  <2>2. FreshInv' /\ CauseInv' /\ AnsweredInv'
    BY <1>8 DEF ReturnResults, Conclude, IInv, FreshInv, CauseInv, AnsweredInv, executionVars
  <2>. QED
    BY <2>1, <2>2 DEF IInv
<1>9. CASE UNCHANGED vars
  BY <1>9 DEF vars, IInv, TypeOK, FreshInv, CauseInv, AnsweredInv, JobStatusIsEarned,
     WorkIsReported, Ran, Over, serviceVars, executionVars, Execution!TypeOK
<1>. QED
  BY <1>1, <1>2, <1>3, <1>4, <1>5, <1>6, <1>7, <1>8, <1>9 DEF Next, Serve, Done

\* Before the first request nothing was asked for and nothing has run.
LEMMA InitIInv == Init => IInv
<1>. SUFFICES ASSUME Init PROVE IInv
  OBVIOUS
<1>1. TypeOK
  <2>1. requests \in 0 .. MaxRequests
    BY WorkflowAssumption DEF Init
  <2>2. NoResults \in Results
    BY DEF NoResults, Results
  <2>3. outcome \in [answer : {"none", "completed", "failed", "cancelled", "message", "results",
                              "raised"},
                    results : Results]
    BY <2>2 DEF Init, NoOutcome
  <2>4. Execution!TypeOK
    BY Names DEF Init, Execution!TypeOK, Pending, Unplanned, Steps
  <2>. QED
    BY <2>1, <2>3, <2>4 DEF Init, TypeOK
<1>2. FreshInv /\ CauseInv /\ AnsweredInv
  BY DEF Init, FreshInv, CauseInv, AnsweredInv, Pending
<1>3. JobStatusIsEarned /\ WorkIsReported
  BY WorkflowAssumption DEF Init, JobStatusIsEarned, WorkIsReported, Over
<1>. QED
  BY <1>1, <1>2, <1>3 DEF IInv

-----------------------------------------------------------------------------
(* Theorems                                                                *)

\* The inductive invariant holds in every reachable state.
THEOREM Invariance == Spec => []IInv
<1>1. Init => IInv
  BY InitIInv
<1>2. IInv /\ [Next]_vars => IInv'
  BY StepIInv
<1>. QED
  BY <1>1, <1>2, PTL DEF Spec

\* Every variable of the runner, the jobs and the executor below them has its
\* type in every reachable state.
THEOREM TypeCorrect == Spec => []TypeOK
<1>1. IInv => TypeOK
  BY DEF IInv
<1>. QED
  BY <1>1, Invariance, PTL

\* The status of a job's run is earned by its steps: a run of the workflow
\* manager that says COMPLETED has only completed steps, one that says FAILED
\* a failed step or an exception, one that says CANCELLED a request for it.
THEOREM StatusEarned == Spec => []JobStatusIsEarned
<1>1. IInv => JobStatusIsEarned
  BY DEF IInv
<1>. QED
  BY <1>1, Invariance, PTL

\* Work that was done for a request is in its answer, unless the executor
\* raised.
THEOREM WorkReported == Spec => []WorkIsReported
<1>1. IInv => WorkIsReported
  BY DEF IInv
<1>. QED
  BY <1>1, Invariance, PTL

-----------------------------------------------------------------------------
(* What a failure explains                                                 *)

\* While nobody has asked for a cancellation, a step is cancelled only below
\* one that failed or was cancelled.
ExplainedInv ==
  \A s \in Steps : status[s] = "cancelled" =>
    cancelRequested \/ \E d \in deps[s] : status[d] \in {"failed", "cancelled"}

\* A step of the executor cancels below a failure, or on request.
LEMMA ExecuteExplains ==
  ASSUME TypeOK, ExplainedInv, Execute
  PROVE  ExplainedInv'
<1>. USE Names DEF TypeOK, Execution!TypeOK, ExplainedInv, Steps
<1>1. ASSUME NEW s \in Steps, Execution!Start(s) PROVE ExplainedInv'
  BY <1>1 DEF Execution!Start
<1>2. ASSUME NEW s \in Steps, Execution!Finish(s) PROVE ExplainedInv'
  <2>1. PICK outcomeOf \in {"completed", "failed"} : status' = [status EXCEPT ![s] = outcomeOf]
    BY <1>2 DEF Execution!Finish
  <2>. QED
    BY <1>2, <2>1 DEF Execution!Finish
<1>3. ASSUME NEW s \in Steps, Execution!CancelBlocked(s) PROVE ExplainedInv'
  <2>1. PICK d \in deps[s] : status[d] \in {"failed", "cancelled"}
    BY <1>3 DEF Execution!CancelBlocked
  <2>2. status' = [status EXCEPT ![s] = "cancelled"] /\ deps' = deps /\ cancelRequested' = cancelRequested
    BY <1>3 DEF Execution!CancelBlocked
  <2>. QED
    BY <2>1, <2>2
<1>4. CASE Execution!CancelRest
  BY <1>4 DEF Execution!CancelRest
<1>5. CASE Execution!Answer
  BY <1>5 DEF Execution!Answer
<1>6. CASE Execution!Abort
  BY <1>6 DEF Execution!Abort
<1>. QED
  BY <1>1, <1>2, <1>3, <1>4, <1>5, <1>6 DEF Execute

\* An answer without results explains nothing and need not.
LEMMA SilentExplains ==
  ASSUME ExplainedInv, NEW a, Conclude(a, NoResults), UNCHANGED <<serviceVars, executionVars>>
  PROVE  ExplainedInv' /\ FailureExplainsRun'
BY DEF ExplainedInv, FailureExplainsRun, Conclude, NoResults, serviceVars, executionVars

\* Every step keeps both.
LEMMA StepExplains ==
  ASSUME IInv, ExplainedInv, FailureExplainsRun, [Next]_vars
  PROVE  ExplainedInv' /\ FailureExplainsRun'
<1>1. CASE Register \/ Cancel \/ UNCHANGED vars
  BY <1>1 DEF Register, Cancel, Execution!RequestCancel, vars, ExplainedInv, FailureExplainsRun,
     Over, serviceVars, executionVars
<1>2. CASE RunJob \/ Handle
  <2>1. deps' = Unplanned /\ status' = Pending
    BY <1>2, BeginFacts DEF RunJob, Handle, IInv
  <2>2. outcome'.answer # "failed"
    BY <1>2 DEF RunJob, Handle, Conclude, NoOutcome
  <2>. QED
    BY <2>1, <2>2 DEF ExplainedInv, FailureExplainsRun, Pending
<1>3. CASE DecisionFails \/ DecisionCancelled \/ Reply \/ BuildFails \/ ExecutionRaises
  <2>1. PICK a \in {"failed", "cancelled", "message", "raised"} :
          Conclude(a, NoResults) /\ UNCHANGED <<serviceVars, executionVars>>
    BY <1>3 DEF DecisionFails, DecisionCancelled, Reply, BuildFails, ExecutionRaises, Raised
  <2>. QED
    BY <2>1, SilentExplains
<1>4. CASE RunWorkflow
  <2>1. CASE Conclude("raised", NoResults)
    BY <1>4, <2>1, SilentExplains DEF RunWorkflow
  <2>2. CASE place' = "building"
    BY <1>4, <2>2 DEF RunWorkflow, ExplainedInv, FailureExplainsRun, Over, serviceVars, executionVars
  <2>. QED
    BY <1>4, <2>1, <2>2 DEF RunWorkflow
<1>5. CASE BuildPlan
  <2>1. place' = "executing" /\ status' = status /\ \A s \in Steps : status[s] = "pending"
    BY <1>5 DEF BuildPlan, IInv, FreshInv
  <2>. QED
    BY <2>1 DEF ExplainedInv, FailureExplainsRun, Over
<1>6. CASE Execute
  <2>1. place' = "executing"
    BY <1>6 DEF Execute
  <2>. QED
    BY <1>6, <2>1, ExecuteExplains DEF IInv, FailureExplainsRun, Over
<1>7. CASE ReturnResults
  <2>1. /\ outcome' = [answer |-> IF client = "manager" THEN JobStatus ELSE "results",
                       results |-> status]
        /\ UNCHANGED <<serviceVars, executionVars>>
    BY <1>7 DEF ReturnResults, Conclude
  <2>2. ExplainedInv'
    BY <2>1 DEF ExplainedInv, executionVars
  <2>3. client = "manager" /\ outcome'.answer = "failed" => ~cancelRequested
    BY <2>1 DEF JobStatus
  <2>4. client' = client /\ outcome'.results = status /\ deps' = deps
    BY <2>1 DEF serviceVars, executionVars
  <2>. QED
    BY <2>2, <2>3, <2>4 DEF ExplainedInv, FailureExplainsRun
<1>. QED
  BY <1>1, <1>2, <1>3, <1>4, <1>5, <1>6, <1>7 DEF Next, Serve, Done

\* Whenever cancel() comes, and for plans of every size: a run that says FAILED
\* and has results was not cancelled behind the caller's back, since every step
\* it lacks stands below a failure.
THEOREM FailureExplained == Spec => []FailureExplainsRun
<1>1. Init => ExplainedInv /\ FailureExplainsRun
  BY DEF Init, Pending, NoOutcome, ExplainedInv, FailureExplainsRun
<1>2. IInv /\ (ExplainedInv /\ FailureExplainsRun) /\ [Next]_vars
        => (ExplainedInv /\ FailureExplainsRun)'
  BY StepExplains
<1>. QED
  BY <1>1, <1>2, Invariance, PTL DEF Spec

-----------------------------------------------------------------------------
(* Termination: every step of the thread that serves a request counts      *)
(*                                                                         *)
(* That the thread goes on is the interpreter's business.  What holds for  *)
(* plans of every size is that it cannot go on for ever.                   *)

\* How far a request is from its end, and a step from its result.
PlacesLeft ==
  CASE place = "idle" -> 0 [] place = "executing" -> 1
    [] place = "building" -> 2 [] place = "deciding" -> 3
MovesLeft(s) ==
  CASE status[s] = "pending" -> 2 [] status[s] = "running" -> 1 [] OTHER -> 0

\* The request comes to a later place; or the execution of its plan is over;
\* or some step of the plan comes nearer to its result, and none goes back.
Advances ==
  \/ PlacesLeft' < PlacesLeft
  \/ /\ PlacesLeft' = PlacesLeft
     /\ \/ phase = "executing" /\ phase' \in {"answered", "aborted"}
        \/ /\ phase' = phase
           /\ \A s \in Steps : MovesLeft(s)' <= MovesLeft(s)
           /\ \E s \in Steps : MovesLeft(s)' < MovesLeft(s)

EveryServiceCounts == [][Serve => Advances]_vars

\* One step of the plan moves on and the others stay.
LEMMA OneMoves ==
  ASSUME TypeOK, NEW s \in Steps, NEW new,
         status' = [status EXCEPT ![s] = new],
         \/ status[s] = "pending" /\ new \in {"running", "cancelled"}
         \/ status[s] = "running" /\ new \in {"completed", "failed"}
  PROVE  /\ \A x \in Steps : MovesLeft(x)' <= MovesLeft(x)
         /\ \E x \in Steps : MovesLeft(x)' < MovesLeft(x)
<1>1. status'[s] = new /\ \A x \in Steps \ {s} : status'[x] = status[x]
  BY DEF TypeOK, Execution!TypeOK, Steps
<1>2. MovesLeft(s) \in Nat /\ MovesLeft(s)' \in Nat /\ MovesLeft(s)' < MovesLeft(s)
  BY <1>1 DEF MovesLeft
<1>3. \A x \in Steps \ {s} : MovesLeft(x) \in Nat /\ MovesLeft(x)' = MovesLeft(x)
  BY <1>1 DEF MovesLeft
<1>4. \A x \in Steps : MovesLeft(x)' <= MovesLeft(x)
  BY <1>2, <1>3
<1>. QED
  BY <1>2, <1>4

\* A step of the execution moves its plan on, or changes nothing.
LEMMA ExecuteCounts ==
  ASSUME TypeOK, Execute
  PROVE  Advances \/ UNCHANGED vars
<1>1. place' = place /\ PlacesLeft' = PlacesLeft
  BY DEF Execute, PlacesLeft
<1>2. ASSUME NEW s \in Steps,
             Execution!Start(s) \/ Execution!Finish(s) \/ Execution!CancelBlocked(s)
      PROVE  Advances
  <2>1. PICK new : /\ status' = [status EXCEPT ![s] = new]
                   /\ \/ status[s] = "pending" /\ new \in {"running", "cancelled"}
                      \/ status[s] = "running" /\ new \in {"completed", "failed"}
    BY <1>2 DEF Execution!Start, Execution!Finish, Execution!CancelBlocked
  <2>2. phase' = phase
    BY <1>2 DEF Execution!Start, Execution!Finish, Execution!CancelBlocked
  <2>. QED
    BY <1>1, <2>1, <2>2, OneMoves DEF Advances
<1>3. CASE Execution!CancelRest
  <2>1. /\ phase' = phase
        /\ status' = [s \in Steps |-> IF status[s] = "pending" THEN "cancelled" ELSE status[s]]
    BY <1>3 DEF Execution!CancelRest, Steps
  <2>2. CASE \E s \in Steps : status[s] = "pending"
    <3>1. \A s \in Steps : MovesLeft(s)' <= MovesLeft(s)
      BY <2>1 DEF MovesLeft
    <3>2. PICK s \in Steps : status[s] = "pending"
      BY <2>2
    <3>3. MovesLeft(s)' < MovesLeft(s)
      BY <2>1, <3>2 DEF MovesLeft
    <3>. QED
      BY <1>1, <2>1, <3>1, <3>3 DEF Advances
  <2>3. CASE \A s \in Steps : status[s] # "pending"
    <3>1. status' = status
      BY <2>1, <2>3 DEF TypeOK, Execution!TypeOK, Steps
    <3>. QED
      BY <1>3, <3>1 DEF Execute, Execution!CancelRest, vars, serviceVars, executionVars
  <2>. QED
    BY <2>2, <2>3
<1>4. CASE Execution!Answer \/ Execution!Abort
  BY <1>1, <1>4 DEF Execution!Answer, Execution!Abort, Advances
<1>. QED
  BY <1>2, <1>3, <1>4 DEF Execute

\* Whoever asks, and for plans of every size, the thread that serves a request
\* takes finitely many steps: each brings the request to a later place, ends
\* the execution of its plan, or moves a step of the plan and none backwards.
THEOREM NoServiceInVain == Spec => EveryServiceCounts
<1>1. ASSUME TypeOK, Serve PROVE Advances \/ UNCHANGED vars
  <2>1. CASE Execute
    BY <1>1, <2>1, ExecuteCounts
  <2>2. CASE DecisionFails \/ DecisionCancelled \/ Reply \/ RunWorkflow
    BY <2>2 DEF DecisionFails, DecisionCancelled, Reply, RunWorkflow, Conclude, Advances, PlacesLeft
  <2>3. CASE BuildPlan \/ BuildFails
    BY <2>3 DEF BuildPlan, BuildFails, Raised, Conclude, Advances, PlacesLeft
  <2>4. CASE ReturnResults \/ ExecutionRaises
    BY <2>4 DEF ReturnResults, ExecutionRaises, Raised, Conclude, Advances, PlacesLeft
  <2>. QED
    BY <1>1, <2>1, <2>2, <2>3, <2>4 DEF Serve
<1>2. TypeOK /\ [Next]_vars => [Serve => Advances]_vars
  BY <1>1
<1>. QED
  BY <1>2, TypeCorrect, PTL DEF Spec, EveryServiceCounts
=============================================================================
