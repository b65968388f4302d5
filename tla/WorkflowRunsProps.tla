-------------------------- MODULE WorkflowRunsProps -------------------------
(***************************************************************************)
(* What must be true of the agent's workflow runs and of the manager's.    *)
(***************************************************************************)
EXTENDS WorkflowRuns

Results == [Steps -> Execution!ExecutionStatus \cup {"none"}]

\* Every variable holds a value of its type.
TypeOK ==
  /\ registered \subseteq Jobs
  /\ requests \in 0 .. MaxRequests
  /\ client \in {"manager", "agent"}
  /\ place \in {"idle", "deciding", "building", "executing"}
  /\ hasToken \in BOOLEAN
  /\ outcome \in [answer : {"none", "completed", "failed", "cancelled", "message", "results",
                            "raised"},
                  results : Results]
  /\ Execution!TypeOK

\* A step of the current request was handed to a task.
Ran(s) == status[s] \in {"running", "completed", "failed"}

Over == place = "idle" /\ requests > 0

-----------------------------------------------------------------------------
(* Safety                                                                  *)

\* The status of a job's run is earned by its steps: COMPLETED only if every
\* step completed, although the manager never looks at CANCELLED results;
\* FAILED only if a step failed or an exception took the results away;
\* CANCELLED only if it was asked for.
JobStatusIsEarned ==
  Over /\ client = "manager" =>
    /\ outcome.answer = "completed" => \A s \in Steps : outcome.results[s] = "completed"
    /\ outcome.answer = "failed" =>
         \/ outcome.results = NoResults
         \/ \E s \in Steps : outcome.results[s] = "failed"
    /\ outcome.answer = "cancelled" => cancelRequested

\* Work that was done is reported: an answer without results means that no
\* step of the request ran, unless the executor itself raised; and results
\* that are reported are those of every step, all of them terminal.
WorkIsReported ==
  Over => IF outcome.results = NoResults
          THEN phase = "aborted" \/ \A s \in Steps : ~Ran(s)
          ELSE outcome.results = status /\ \A s \in Steps : status[s] \in Execution!Terminal

\* A cancellation is never reported as a failure: when a run says FAILED and
\* has results, each of its CANCELLED steps stands below a step that failed or
\* was cancelled for such a reason, so that the failures explain everything
\* that is missing.  cancel() may come at any time, before the executor looks
\* at the token, between two of its steps, or when it has returned and the
\* manager is about to look itself.
FailureExplainsRun ==
  Over /\ client = "manager" /\ outcome.answer = "failed" =>
    \A s \in Steps : outcome.results[s] = "cancelled" =>
      \E d \in deps[s] : outcome.results[d] \in {"failed", "cancelled"}
=============================================================================
