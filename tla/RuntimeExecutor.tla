--------------------------- MODULE RuntimeExecutor ---------------------------
(***************************************************************************)
(* DefaultRuntimeExecutor.execute (runtime/executor_impl.py) running one   *)
(* plan with the DependencyScheduler, or another Scheduler, while another  *)
(* thread may cancel the execution through its CancellationSource at any   *)
(* moment.                                                                 *)
(*                                                                         *)
(* A step is named by its position in plan.steps, so "plan order" is the   *)
(* order of the numbers; a dependency may come later in that order than    *)
(* the step that needs it.  One action is what the executor does between   *)
(* two points where the cancellation event or a task is looked at.         *)
(* Calling execute without a token is the behaviour in which Cancel never  *)
(* happens.                                                                *)
(***************************************************************************)
EXTENDS Naturals

CONSTANTS
  NumSteps,       \* len(plan.steps)
  LazyScheduler   \* FALSE: the DependencyScheduler.  TRUE: any Scheduler that
                  \* offers some of the ready steps, or none.

ASSUME NumStepsAssumption == NumSteps \in Nat \ {0}
ASSUME SchedulerAssumption == LazyScheduler \in BOOLEAN

Steps == 1 .. NumSteps

\* ExecutionPlan._validate_acyclic accepts a plan iff it has no cycle: every
\* non-empty set of steps has a step that depends on none of the others.
Acyclic(graph) ==
  \A S \in (SUBSET Steps) \ {{}} : \E s \in S : graph[s] \cap S = {}

\* The dependency graphs an ExecutionPlan object can hold.
Plans == { graph \in [Steps -> SUBSET Steps] : Acyclic(graph) }

NoStep == 0

VARIABLES
  deps,       \* step.dependencies of every step of the plan; never changes
  cancelled,  \* the threading.Event behind the CancellationToken
  results,    \* results_by_step: the status of the recorded result, or "absent"
  reason,     \* its metadata["termination_reason"], "none" without one
  blocking,   \* its metadata["blocking_dependency_ids"]
  completed,  \* completed_steps
  batch,      \* executable_steps the for loop has not reached yet
  current,    \* the step the for loop is at
  cursor,     \* the step _propagate_dependency_cancellation looks at next
  changed,    \* its flag: this pass over the plan recorded something
  before,     \* the steps with a result when the executor found none to run
  pc,         \* where execute is
  error,      \* what execute raised
  started,    \* history: the steps handed to the task executor
  late        \* history: those started after cancel() was called

vars == <<deps, cancelled, results, reason, blocking, completed, batch, current,
          cursor, changed, before, pc, error, started, late>>

recordVars  == <<results, reason, blocking, completed>>
scanVars    == <<cursor, changed, before>>
historyVars == <<started, late>>

Terminal == {"completed", "failed", "cancelled"}

Absent   == { s \in Steps : results[s] = "absent" }
Recorded == Steps \ Absent

-----------------------------------------------------------------------------
(* Helpers of execute                                                      *)

\* Wrong on purpose: one completed dependency is taken for all of them.
ReadySteps_AnyDependency ==
  { s \in Steps \ completed : deps[s] = {} \/ deps[s] \cap completed # {} }

\* DependencyScheduler.get_ready_steps
ReadySteps == { s \in Steps \ completed : deps[s] \subseteq completed }

\* What the scheduler may answer.
Offers == IF LazyScheduler THEN SUBSET ReadySteps ELSE {ReadySteps}

\* Wrong on purpose: any failed or cancelled step blocks every other one.
Blockers_FailFast(s) == { d \in Steps : results[d] \in {"failed", "cancelled"} }

\* Wrong on purpose: only a failed dependency blocks.
Blockers_FailedOnly(s) == { d \in deps[s] : results[d] = "failed" }

\* The blocking_dependencies of a step.
Blockers(s) == { d \in deps[s] : results[d] \in {"failed", "cancelled"} }

\* Wrong on purpose: the reason is "failed" only when every blocker failed.
BlockReason_All(s) ==
  IF \A d \in Blockers(s) : results[d] = "failed" THEN "dependency_failed"
                                                  ELSE "dependency_cancelled"

BlockReason(s) ==
  IF \E d \in Blockers(s) : results[d] = "failed" THEN "dependency_failed"
                                                  ELSE "dependency_cancelled"

\* Wrong on purpose: the results already recorded are overwritten.
CancelAllUnfinished_Overwrite ==
  /\ results' = [s \in Steps |-> "cancelled"]
  /\ reason'  = [s \in Steps |-> "explicit_cancellation"]
  /\ UNCHANGED <<blocking, completed>>

\* _cancel_all_unfinished with reason "explicit_cancellation"
CancelAllUnfinished ==
  /\ results' = [s \in Steps |-> IF s \in Absent THEN "cancelled" ELSE results[s]]
  /\ reason'  = [s \in Steps |-> IF s \in Absent THEN "explicit_cancellation"
                                                 ELSE reason[s]]
  /\ UNCHANGED <<blocking, completed>>

Goto(from, to) == pc = from /\ pc' = to

Raise(exception) == pc' = "raised" /\ error' = exception

-----------------------------------------------------------------------------
(* The caller's other thread                                               *)

\* CancellationSource.cancel: sets the event, which nothing ever clears.
Cancel ==
  /\ ~cancelled
  /\ cancelled' = TRUE
  /\ UNCHANGED <<deps, recordVars, batch, current, scanVars, pc, error, historyVars>>

-----------------------------------------------------------------------------
(* The while loop                                                          *)

\* The loop ends: every step has a result, by its condition or, after
\* propagation, by the break before the scheduler is asked.
LoopDone ==
  /\ pc \in {"loop", "schedule"} /\ pc' = "return"
  /\ Absent = {}
  /\ UNCHANGED <<deps, cancelled, recordVars, batch, current, scanVars, error, historyVars>>

\* The token is set: everything left is cancelled, then break.
LoopCancelled ==
  /\ Goto("loop", "return")
  /\ Absent # {} /\ cancelled
  /\ CancelAllUnfinished
  /\ UNCHANGED <<deps, cancelled, batch, current, scanVars, error, historyVars>>

LoopPropagate ==
  /\ Goto("loop", "propagate")
  /\ Absent # {} /\ ~cancelled
  /\ cursor' = 1 /\ changed' = FALSE
  /\ UNCHANGED <<deps, cancelled, recordVars, batch, current, before, error, historyVars>>

\* _propagate_dependency_cancellation is called from two places of the loop.
Propagating == pc \in {"propagate", "repropagate"}

\* Wrong on purpose: a blocked step takes over the status of what blocks it.
PropagateBlocks_CopyStatus ==
  /\ Propagating /\ cursor \in Steps
  /\ cursor \in Absent
  /\ \E d \in Blockers(cursor) : results' = [results EXCEPT ![cursor] = results[d]]
  /\ reason'   = [reason EXCEPT ![cursor] = BlockReason(cursor)]
  /\ blocking' = [blocking EXCEPT ![cursor] = Blockers(cursor)]
  /\ changed'  = TRUE
  /\ cursor'   = cursor + 1
  /\ UNCHANGED <<deps, cancelled, completed, batch, current, before, pc, error, historyVars>>

\* The scan meets an unfinished step with a failed or cancelled dependency.
PropagateBlocks ==
  /\ Propagating /\ cursor \in Steps
  /\ cursor \in Absent /\ Blockers(cursor) # {}
  /\ results'  = [results EXCEPT ![cursor] = "cancelled"]
  /\ reason'   = [reason EXCEPT ![cursor] = BlockReason(cursor)]
  /\ blocking' = [blocking EXCEPT ![cursor] = Blockers(cursor)]
  /\ changed'  = TRUE
  /\ cursor'   = cursor + 1
  /\ UNCHANGED <<deps, cancelled, completed, batch, current, before, pc, error, historyVars>>

\* The scan meets a step that has a result or is not blocked.
PropagateSkips ==
  /\ Propagating /\ cursor \in Steps
  /\ cursor \in Recorded \/ Blockers(cursor) = {}
  /\ cursor' = cursor + 1
  /\ UNCHANGED <<deps, cancelled, recordVars, batch, current, changed, before, pc, error, historyVars>>

\* Wrong on purpose: the flag is not reset before the next pass.
PropagateAgain_KeepsFlag ==
  /\ Propagating /\ cursor > NumSteps /\ changed
  /\ cursor' = 1
  /\ UNCHANGED <<deps, cancelled, recordVars, batch, current, changed, before, pc, error, historyVars>>

\* Wrong on purpose: the next pass starts before the first step.
PropagateAgain_FromZero ==
  /\ Propagating /\ cursor > NumSteps /\ changed
  /\ cursor' = 0 /\ changed' = FALSE
  /\ UNCHANGED <<deps, cancelled, recordVars, batch, current, before, pc, error, historyVars>>

\* A pass that recorded something is repeated.
PropagateAgain ==
  /\ Propagating /\ cursor > NumSteps /\ changed
  /\ cursor' = 1 /\ changed' = FALSE
  /\ UNCHANGED <<deps, cancelled, recordVars, batch, current, before, pc, error, historyVars>>

PropagateEnds ==
  /\ Propagating /\ cursor > NumSteps /\ ~changed
  /\ pc' = IF pc = "propagate" THEN "schedule" ELSE "recheck"
  /\ UNCHANGED <<deps, cancelled, recordVars, batch, current, scanVars, error, historyVars>>

\* Wrong on purpose: steps that have a result are not filtered out.
ScheduleBatch_Unfiltered ==
  /\ Goto("schedule", "step")
  /\ Absent # {}
  /\ batch' \in Offers
  /\ batch' # {}
  /\ UNCHANGED <<deps, cancelled, recordVars, current, scanVars, error, historyVars>>

ScheduleBatch ==
  /\ Goto("schedule", "step")
  /\ Absent # {}
  /\ \E offer \in Offers : batch' = offer \cap Absent
  /\ batch' # {}
  /\ UNCHANGED <<deps, cancelled, recordVars, current, scanVars, error, historyVars>>

\* Nothing to run: propagate once more before declaring a stall.
ScheduleNothing ==
  /\ Goto("schedule", "repropagate")
  /\ Absent # {}
  /\ \E offer \in Offers : offer \cap Absent = {}
  /\ before' = Recorded /\ cursor' = 1 /\ changed' = FALSE
  /\ UNCHANGED <<deps, cancelled, recordVars, batch, current, error, historyVars>>

\* Continue if that gave another step a result, and raise otherwise.
Recheck ==
  /\ pc = "recheck"
  /\ IF Recorded # before THEN pc' = "loop" /\ UNCHANGED error
                          ELSE Raise("ExecutionStalledError")
  /\ UNCHANGED <<deps, cancelled, recordVars, batch, current, scanVars, historyVars>>

-----------------------------------------------------------------------------
(* The for loop over the executable steps                                  *)

BatchDone ==
  /\ Goto("step", "loop")
  /\ batch = {}
  /\ UNCHANGED <<deps, cancelled, recordVars, batch, current, scanVars, error, historyVars>>

\* Wrong on purpose: the token is not looked at before a step starts.
NextStep_IgnoresToken ==
  /\ Goto("step", "start")
  /\ batch # {}
  /\ current' \in batch
  /\ \A s \in batch : current' <= s
  /\ batch' = batch \ {current'}
  /\ UNCHANGED <<deps, cancelled, recordVars, scanVars, error, historyVars>>

\* Next step in plan order; the token is looked at before it starts.
NextStep ==
  /\ Goto("step", "start")
  /\ batch # {} /\ ~cancelled
  /\ current' \in batch
  /\ \A s \in batch : current' <= s
  /\ batch' = batch \ {current'}
  /\ UNCHANGED <<deps, cancelled, recordVars, scanVars, error, historyVars>>

\* The token is set before a step starts: cancel everything left, break.
NextStepCancelled ==
  /\ Goto("step", "loop")
  /\ batch # {} /\ cancelled
  /\ CancelAllUnfinished
  /\ batch' = {}
  /\ UNCHANGED <<deps, cancelled, current, scanVars, error, historyVars>>

\* TaskExecutor.execute_step is called; cancel() may have come in between.
StartTask ==
  /\ Goto("start", "running")
  /\ started' = started \cup {current}
  /\ late' = IF cancelled THEN late \cup {current} ELSE late
  /\ UNCHANGED <<deps, cancelled, recordVars, batch, current, scanVars, error>>

\* The task returned a JSON-compatible output.
TaskCompletes ==
  /\ Goto("running", "finished")
  /\ results' = [results EXCEPT ![current] = "completed"]
  /\ completed' = completed \cup {current}
  /\ UNCHANGED <<deps, cancelled, reason, blocking, batch, current, scanVars, error, historyVars>>

\* Wrong on purpose: cancellation wins over the outcome of a task that ran.
TaskFails_CancelWins ==
  /\ Goto("running", "step")
  /\ results' = [results EXCEPT ![current] = IF cancelled THEN "cancelled" ELSE "failed"]
  /\ reason' = [reason EXCEPT ![current] = IF cancelled THEN "explicit_cancellation" ELSE @]
  /\ UNCHANGED <<deps, cancelled, blocking, completed, batch, current, scanVars, error, historyVars>>

\* execute_step raised, or no task is registered for the capability.  The
\* next step of the batch follows without a look at the other results.
TaskFails ==
  /\ Goto("running", "step")
  /\ results' = [results EXCEPT ![current] = "failed"]
  /\ UNCHANGED <<deps, cancelled, reason, blocking, completed, batch, current, scanVars, error, historyVars>>

\* The task returned something ExecutionResult cannot hold: its constructor
\* raises outside the try block, and execute lets the exception escape.
TaskOutputRejected ==
  /\ pc = "running"
  /\ Raise("InvalidOutput")
  /\ UNCHANGED <<deps, cancelled, recordVars, batch, current, scanVars, historyVars>>

FinishedContinue ==
  /\ Goto("finished", "step")
  /\ ~cancelled
  /\ UNCHANGED <<deps, cancelled, recordVars, batch, current, scanVars, error, historyVars>>

\* cancel() came while the task ran: the completed result stays, the rest of
\* the plan is cancelled.
FinishedCancelled ==
  /\ Goto("finished", "loop")
  /\ cancelled
  /\ CancelAllUnfinished
  /\ batch' = {}
  /\ UNCHANGED <<deps, cancelled, current, scanVars, error, historyVars>>

-----------------------------------------------------------------------------
(* The return statement indexes results_by_step with every step.           *)

Return ==
  /\ pc = "return"
  /\ IF Absent = {} THEN pc' = "returned" /\ UNCHANGED error
                    ELSE Raise("KeyError")
  /\ UNCHANGED <<deps, cancelled, recordVars, batch, current, scanVars, historyVars>>

Ended == pc \in {"returned", "raised"} /\ UNCHANGED vars

-----------------------------------------------------------------------------

Init ==
  /\ deps \in Plans
  /\ cancelled \in BOOLEAN
  /\ results   = [s \in Steps |-> "absent"]
  /\ reason    = [s \in Steps |-> "none"]
  /\ blocking  = [s \in Steps |-> {}]
  /\ completed = {} /\ batch = {} /\ current = NoStep
  /\ cursor = 1 /\ changed = FALSE /\ before = {}
  /\ pc = "loop" /\ error = "none"
  /\ started = {} /\ late = {}

Propagation ==
  PropagateBlocks \/ PropagateSkips \/ PropagateAgain \/ PropagateEnds

\* What the executor's own thread does, a task's return included.
Executor ==
  \/ LoopDone \/ LoopCancelled \/ LoopPropagate
  \/ Propagation
  \/ ScheduleBatch \/ ScheduleNothing
  \/ Recheck
  \/ BatchDone \/ NextStep \/ NextStepCancelled
  \/ StartTask \/ TaskCompletes \/ TaskFails \/ TaskOutputRejected
  \/ FinishedContinue \/ FinishedCancelled
  \/ Return

Next == Cancel \/ Executor \/ Ended

Spec == Init /\ [][Next]_vars

\* The thread that called execute keeps running and every task returns or
\* raises; nobody has to call cancel().
FairSpec == Spec /\ WF_vars(Executor)
=============================================================================
