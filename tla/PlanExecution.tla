---------------------------- MODULE PlanExecution ----------------------------
(***************************************************************************)
(* What the runtime promises about the execution of one plan, without      *)
(* saying how: the steps of an acyclic dependency graph move from pending  *)
(* to running to a terminal status, a step runs only when everything it    *)
(* depends on has completed, a blocked step is cancelled, an explicit      *)
(* cancellation cancels whatever is left, and the caller gets an answer    *)
(* when every step is terminal.  RuntimeExecutor implements this module.   *)
(*                                                                         *)
(* A step is named by its position in ExecutionPlan.steps.                 *)
(***************************************************************************)
EXTENDS Naturals

CONSTANT NumSteps    \* len(plan.steps)

Steps == 1 .. NumSteps

\* ExecutionPlan._validate_acyclic: every non-empty set of steps has a step
\* that depends on none of the others.
Acyclic(graph) ==
  \A S \in (SUBSET Steps) \ {{}} : \E s \in S : graph[s] \cap S = {}

\* The dependency graphs an ExecutionPlan object can hold.
Plans == { graph \in [Steps -> SUBSET Steps] : Acyclic(graph) }

VARIABLES
  deps,             \* step -> the steps it depends on; fixed for a plan
  status,           \* step -> ExecutionStatus
  cancelRequested,  \* the caller asked to stop
  phase             \* "executing", "answered" or "aborted"

vars == <<deps, status, cancelRequested, phase>>

ExecutionStatus == {"pending", "running", "completed", "failed", "cancelled"}
Terminal        == {"completed", "failed", "cancelled"}

Idle == \A s \in Steps : status[s] # "running"

TypeOK ==
  /\ deps \in [Steps -> SUBSET Steps]
  /\ status \in [Steps -> ExecutionStatus]
  /\ cancelRequested \in BOOLEAN
  /\ phase \in {"executing", "answered", "aborted"}

-----------------------------------------------------------------------------

Init ==
  /\ deps \in Plans
  /\ status = [s \in Steps |-> "pending"]
  /\ cancelRequested \in BOOLEAN
  /\ phase = "executing"

RequestCancel ==
  /\ cancelRequested' = TRUE
  /\ UNCHANGED <<deps, status, phase>>

\* One step at a time, and only on completed dependencies.
Start(s) ==
  /\ phase = "executing"
  /\ Idle
  /\ status[s] = "pending"
  /\ \A d \in deps[s] : status[d] = "completed"
  /\ status' = [status EXCEPT ![s] = "running"]
  /\ UNCHANGED <<deps, cancelRequested, phase>>

Finish(s) ==
  /\ phase = "executing"
  /\ status[s] = "running"
  /\ \E outcome \in {"completed", "failed"} :
       status' = [status EXCEPT ![s] = outcome]
  /\ UNCHANGED <<deps, cancelRequested, phase>>

CancelBlocked(s) ==
  /\ phase = "executing"
  /\ status[s] = "pending"
  /\ \E d \in deps[s] : status[d] \in {"failed", "cancelled"}
  /\ status' = [status EXCEPT ![s] = "cancelled"]
  /\ UNCHANGED <<deps, cancelRequested, phase>>

\* Explicit cancellation is all or nothing, and never interrupts a task.
CancelRest ==
  /\ phase = "executing"
  /\ cancelRequested
  /\ Idle
  /\ status' = [s \in Steps |-> IF status[s] = "pending" THEN "cancelled"
                                                         ELSE status[s]]
  /\ UNCHANGED <<deps, cancelRequested, phase>>

Answer ==
  /\ phase = "executing"
  /\ \A s \in Steps : status[s] \in Terminal
  /\ phase' = "answered"
  /\ UNCHANGED <<deps, status, cancelRequested>>

\* The outcome of a running step cannot be recorded: the caller gets an
\* exception and no result at all.
Abort ==
  /\ phase = "executing"
  /\ \E s \in Steps : status[s] = "running"
  /\ phase' = "aborted"
  /\ status' = [s \in Steps |-> IF status[s] = "running" THEN "pending"
                                                         ELSE status[s]]
  /\ UNCHANGED <<deps, cancelRequested>>

Next ==
  \/ RequestCancel
  \/ \E s \in Steps : Start(s) \/ Finish(s) \/ CancelBlocked(s)
  \/ CancelRest
  \/ Answer
  \/ Abort

Spec == Init /\ [][Next]_vars
=============================================================================
