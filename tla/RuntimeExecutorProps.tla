------------------------ MODULE RuntimeExecutorProps ------------------------
(***************************************************************************)
(* What must be true of DefaultRuntimeExecutor.execute.                    *)
(***************************************************************************)
EXTENDS RuntimeExecutor

Reasons == {"none", "explicit_cancellation", "dependency_failed", "dependency_cancelled"}
Errors  == {"none", "ExecutionStalledError", "InvalidOutput", "KeyError"}
Places  == {"loop", "propagate", "schedule", "repropagate", "recheck", "step",
            "start", "running", "finished", "return", "returned", "raised"}

\* Every variable holds a value of its type.
TypeOK ==
  /\ deps \in Plans
  /\ cancelled \in BOOLEAN
  /\ results \in [Steps -> Terminal \cup {"absent"}]
  /\ reason \in [Steps -> Reasons]
  /\ blocking \in [Steps -> SUBSET Steps]
  /\ completed \subseteq Steps
  /\ batch \subseteq Steps
  /\ current \in Steps \cup {NoStep}
  /\ pc \in {"start", "running"} => current \in Steps
  /\ cursor \in 1 .. NumSteps + 1
  /\ changed \in BOOLEAN
  /\ before \subseteq Steps
  /\ pc \in Places
  /\ error \in Errors
  /\ started \subseteq Steps
  /\ late \subseteq started

-----------------------------------------------------------------------------
(* Safety                                                                  *)

\* A task is started only when every step it depends on has a COMPLETED
\* result, wherever those steps stand in plan order and whatever failed or
\* was cancelled in between (the for loop runs a batch chosen before its
\* steps ran).
DependencyOrder ==
  \A s \in started : \A d \in deps[s] : results[d] = "completed"

\* A step is handed to the task executor at most once, although a failed step
\* never enters completed_steps and the scheduler keeps offering it.
RunAtMostOnce ==
  [][\A s \in started : ~(pc = "start" /\ pc' = "running" /\ current = s)]_vars

\* A recorded result is final: neither a cancellation, nor propagation, nor a
\* later batch replaces its status, its reason or its blocking dependencies.
ResultsFinal ==
  [][\A s \in Recorded : /\ results'[s] = results[s]
                         /\ reason'[s] = reason[s]
                         /\ blocking'[s] = blocking[s]]_vars

\* COMPLETED and FAILED are outcomes of tasks that ran, and a step that ran
\* is CANCELLED by nothing.
OutcomesAreEarned ==
  \A s \in Steps :
    /\ results[s] \in {"completed", "failed"} => s \in started
    /\ results[s] = "cancelled" => s \notin started

\* Once cancel() has been called at most one more task is started: the one
\* the executor had already decided to run.
OneLateStart == \A s, t \in late : s = t

\* Every CANCELLED result names its true cause: an explicit cancellation was
\* requested, or the dependencies it lists are dependencies of the step that
\* failed or were themselves cancelled because of a dependency, with
\* "dependency_failed" exactly when one of them FAILED.
CancelledForCause ==
  \A s \in Steps : results[s] = "cancelled" =>
    \/ reason[s] = "explicit_cancellation" /\ cancelled
    \/ /\ blocking[s] # {} /\ blocking[s] \subseteq deps[s]
       /\ \A d \in blocking[s] :
            \/ results[d] = "failed"
            \/ results[d] = "cancelled" /\ reason[d] # "explicit_cancellation"
       /\ reason[s] = IF \E d \in blocking[s] : results[d] = "failed"
                      THEN "dependency_failed" ELSE "dependency_cancelled"

\* The steps a step depends on, directly or not: the smallest set that holds
\* its dependencies and theirs.
Ancestors(s) ==
  { a \in Steps :
      \A S \in SUBSET Steps :
        deps[s] \subseteq S /\ (\A d \in S : deps[d] \subseteq S) => a \in S }

\* The answer of an execution that saw no cancellation is determined by the
\* tasks: a step is CANCELLED exactly when a step above it FAILED, and every
\* other step was run: a failure stops no independent branch.
AnswerIsExact ==
  pc = "returned" /\ (\A s \in Steps : reason[s] # "explicit_cancellation") =>
    \A s \in Steps :
      /\ results[s] # "absent"
      /\ results[s] = "cancelled" <=> \E a \in Ancestors(s) : results[a] = "failed"

\* A valid plan never stalls the executor, and the answer misses no step:
\* the only exception execute raises is for an output it cannot record.
NeverStuck == error \in {"none", "InvalidOutput"}

\* What the comment in execute says: "A Task-level execution failure becomes a
\* terminal FAILED result".  So whenever no task is running, every task that
\* was started has a result; but an output that cannot be recorded raises out
\* of execute and leaves its task, whose work is done, without one.
FailureBecomesResult ==
  pc # "running" => \A s \in started : results[s] # "absent"

-----------------------------------------------------------------------------
(* Liveness, under FairSpec                                                *)

\* execute ends, whatever the plan, the tasks' outcomes and the caller do.
Terminates == <>(pc \in {"returned", "raised"})

-----------------------------------------------------------------------------
(* Refinement                                                              *)

Status ==
  [s \in Steps |-> IF results[s] # "absent" THEN results[s]
                   ELSE IF pc = "running" /\ s = current THEN "running"
                   ELSE "pending"]

Phase == IF pc = "returned" THEN "answered"
         ELSE IF pc = "raised" THEN "aborted" ELSE "executing"

Abstract == INSTANCE PlanExecution WITH
              status <- Status, phase <- Phase, cancelRequested <- cancelled

\* The loop implements the promise made by PlanExecution.
ImplementsPlanExecution == Abstract!Spec
=============================================================================
