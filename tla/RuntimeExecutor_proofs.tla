----------------------- MODULE RuntimeExecutor_proofs -----------------------
(***************************************************************************)
(* Proofs about RuntimeExecutor, for every number of steps, every acyclic  *)
(* plan and every moment of cancellation.                                  *)
(*                                                                         *)
(* The argument: a step that has no result is either untouched, or the one *)
(* the executor is at; what is in the batch has only completed             *)
(* dependencies and completed is for ever; a pass of propagation that      *)
(* changed nothing leaves no blocked step, so that in an acyclic graph a   *)
(* step without a result implies a step that can run.                      *)
(***************************************************************************)
EXTENDS RuntimeExecutorProps, TLAPS

-----------------------------------------------------------------------------
(* The inductive invariant, in named parts                                 *)

\* completed_steps is the set of the COMPLETED results.
CompletedInv == completed = { s \in Steps : results[s] = "completed" }

\* The batch holds steps that never ran and may run; it is empty outside of
\* the for loop.
BatchInv ==
  /\ \A s \in batch : results[s] = "absent" /\ s \notin started /\ deps[s] \subseteq completed
  /\ pc \notin {"step", "start", "running", "finished", "raised"} => batch = {}

\* The step the executor is at, before and while its task runs.
CurrentInv ==
  pc \in {"start", "running"} =>
    /\ current \notin batch
    /\ results[current] = "absent" /\ deps[current] \subseteq completed
    /\ current \in started <=> pc = "running"

\* A step that was started has the result of its task, unless it is running
\* or was the one whose output could not be recorded.
StartedInv ==
  /\ \A s \in started :
       /\ deps[s] \subseteq completed
       /\ \/ results[s] \in {"completed", "failed"}
          \/ pc \in {"running", "raised"} /\ s = current /\ results[s] = "absent"
  /\ \A s \in Steps : results[s] \in {"completed", "failed"} => s \in started

\* A step starts late only if the event was set after the executor looked.
LateInv ==
  /\ late # {} => cancelled
  /\ pc = "start" => late = {}
  /\ OneLateStart

\* Explicit cancellation leaves no step without a result.
ReasonInv ==
  /\ CancelledForCause
  /\ \A s \in Steps : reason[s] # "none" <=> results[s] = "cancelled"
  /\ (\E s \in Steps : reason[s] = "explicit_cancellation") => Absent = {}

\* A scan that changed nothing so far has left no blocked step behind it.
ScanInv ==
  /\ Propagating /\ ~changed =>
       \A s \in Absent : s < cursor => Blockers(s) = {}
  /\ pc \in {"schedule", "recheck"} => \A s \in Absent : Blockers(s) = {}

\* The exceptional places of the loop are never reached.
ProgressInv ==
  /\ pc \notin {"repropagate", "recheck"}
  /\ pc \in {"return", "returned"} => Absent = {}
  /\ NeverStuck
  /\ error # "none" => pc = "raised"

IInv ==
  /\ TypeOK
  /\ CompletedInv /\ BatchInv /\ CurrentInv /\ StartedInv
  /\ LateInv /\ ReasonInv /\ ScanInv

-----------------------------------------------------------------------------
(* Type correctness                                                        *)

\* Every variable of the executor keeps its type.
LEMMA TypeInductive == TypeOK /\ [Next]_vars => TypeOK'
<1>. USE NumStepsAssumption, SchedulerAssumption DEF TypeOK, Steps, NoStep, Reasons, Errors, Places,
         Terminal, Goto, Raise, recordVars, scanVars, historyVars
<1>. SUFFICES ASSUME TypeOK, [Next]_vars PROVE TypeOK'
  OBVIOUS
<1>0. /\ deps \in [Steps -> SUBSET Steps]
      /\ ReadySteps \subseteq Steps /\ Absent \subseteq Steps /\ Recorded \subseteq Steps
      /\ \A s \in Steps : Blockers(s) \subseteq Steps /\ BlockReason(s) \in Reasons
  BY DEF Plans, ReadySteps, Absent, Recorded, Blockers, BlockReason
<1>1. cursor' \in 1 .. NumSteps + 1
  BY DEF Next, vars, Cancel, Executor, Propagation, LoopDone, LoopCancelled, LoopPropagate,
         PropagateBlocks, PropagateSkips, PropagateAgain, PropagateEnds, ScheduleBatch,
         ScheduleNothing, Recheck, BatchDone, NextStep, NextStepCancelled, StartTask,
         TaskCompletes, TaskFails, TaskOutputRejected, FinishedContinue,
         FinishedCancelled, Return, Ended, CancelAllUnfinished
<1>. QED
  <2>1. CASE Cancel
    BY <1>0, <1>1, <2>1 DEF Cancel
  <2>2. CASE LoopDone
    BY <1>0, <1>1, <2>2 DEF LoopDone
  <2>3. CASE LoopCancelled
    BY <1>0, <1>1, <2>3 DEF LoopCancelled, CancelAllUnfinished
  <2>4. CASE LoopPropagate
    BY <1>0, <1>1, <2>4 DEF LoopPropagate
  <2>5. CASE PropagateBlocks
    BY <1>0, <1>1, <2>5 DEF PropagateBlocks, Propagating
  <2>6. CASE PropagateSkips
    BY <1>0, <1>1, <2>6 DEF PropagateSkips, Propagating
  <2>7. CASE PropagateAgain
    BY <1>0, <1>1, <2>7 DEF PropagateAgain, Propagating
  <2>8. CASE PropagateEnds
    BY <1>0, <1>1, <2>8 DEF PropagateEnds, Propagating
  <2>9. CASE ScheduleBatch
    BY <1>0, <1>1, <2>9 DEF ScheduleBatch, Offers
  <2>10. CASE ScheduleNothing
    BY <1>0, <1>1, <2>10 DEF ScheduleNothing, Offers
  <2>11. CASE Recheck
    BY <1>0, <1>1, <2>11 DEF Recheck
  <2>12. CASE BatchDone
    BY <1>0, <1>1, <2>12 DEF BatchDone
  <2>13. CASE NextStep
    BY <1>0, <1>1, <2>13 DEF NextStep
  <2>14. CASE NextStepCancelled
    BY <1>0, <1>1, <2>14 DEF NextStepCancelled, CancelAllUnfinished
  <2>15. CASE StartTask
    BY <1>0, <1>1, <2>15 DEF StartTask
  <2>16. CASE TaskCompletes
    BY <1>0, <1>1, <2>16 DEF TaskCompletes
  <2>17. CASE TaskFails
    BY <1>0, <1>1, <2>17 DEF TaskFails
  <2>18. CASE TaskOutputRejected
    BY <1>0, <1>1, <2>18 DEF TaskOutputRejected
  <2>19. CASE FinishedContinue
    BY <1>0, <1>1, <2>19 DEF FinishedContinue
  <2>20. CASE FinishedCancelled
    BY <1>0, <1>1, <2>20 DEF FinishedCancelled, CancelAllUnfinished
  <2>21. CASE Return
    BY <1>0, <1>1, <2>21 DEF Return
  <2>22. CASE Ended
    BY <2>22 DEF Ended, vars
  <2>23. CASE UNCHANGED vars
    BY <1>0, <1>1, <2>23 DEF vars
  <2>. QED
    BY <2>1, <2>2, <2>3, <2>4, <2>5, <2>6, <2>7, <2>8, <2>9, <2>10, <2>11, <2>12, <2>13,
       <2>14, <2>15, <2>16, <2>17, <2>18, <2>19, <2>20, <2>21, <2>22, <2>23
    DEF Next, Executor, Propagation

\* completed_steps stays the set of the COMPLETED results.
LEMMA CompletedInductive ==
  TypeOK /\ CompletedInv /\ CurrentInv /\ [Next]_vars => CompletedInv'
<1>. SUFFICES ASSUME TypeOK, CompletedInv, CurrentInv, [Next]_vars PROVE CompletedInv'
  OBVIOUS
<1>. USE DEF TypeOK, CompletedInv, CurrentInv, Absent, Terminal, Goto, Raise,
             recordVars, scanVars, historyVars
<1>1. CASE LoopCancelled
  BY <1>1 DEF LoopCancelled, CancelAllUnfinished
<1>2. CASE NextStepCancelled
  BY <1>2 DEF NextStepCancelled, CancelAllUnfinished
<1>3. CASE FinishedCancelled
  BY <1>3 DEF FinishedCancelled, CancelAllUnfinished
<1>4. CASE PropagateBlocks
  BY <1>4 DEF PropagateBlocks, Propagating
<1>5. CASE TaskCompletes
  BY <1>5 DEF TaskCompletes
<1>6. CASE TaskFails
  BY <1>6 DEF TaskFails
<1>7. CASE Cancel \/ LoopDone \/ LoopPropagate \/ PropagateSkips \/ PropagateAgain \/
           PropagateEnds \/ ScheduleBatch \/ ScheduleNothing \/ Recheck \/ BatchDone \/ NextStep \/
           StartTask \/ TaskOutputRejected \/ FinishedContinue \/ Return \/ Ended \/
           UNCHANGED vars
  BY <1>7 DEF Cancel, LoopDone, LoopPropagate, PropagateSkips, Propagating,
              PropagateAgain, PropagateEnds, ScheduleBatch, Offers, ScheduleNothing,
              Recheck, BatchDone, NextStep, StartTask, TaskOutputRejected,
              FinishedContinue, Return, Ended, vars
<1>. QED
  BY <1>1, <1>2, <1>3, <1>4, <1>5, <1>6, <1>7 DEF Next, Executor, Propagation

\* The batch keeps to steps that never ran and whose dependencies completed.
LEMMA BatchInductive ==
  TypeOK /\ CompletedInv /\ BatchInv /\ CurrentInv /\ StartedInv /\ [Next]_vars => BatchInv'
<1>. SUFFICES ASSUME TypeOK, CompletedInv, BatchInv, CurrentInv, StartedInv, [Next]_vars PROVE BatchInv'
  OBVIOUS
<1>. USE DEF TypeOK, CompletedInv, BatchInv, CurrentInv, Absent, Terminal, Goto, Raise,
             recordVars, scanVars, historyVars
<1>1. CASE LoopCancelled
  BY <1>1 DEF LoopCancelled, CancelAllUnfinished
<1>2. CASE NextStepCancelled
  BY <1>2 DEF NextStepCancelled, CancelAllUnfinished
<1>3. CASE FinishedCancelled
  BY <1>3 DEF FinishedCancelled, CancelAllUnfinished
<1>4. CASE PropagateBlocks
  BY <1>4 DEF PropagateBlocks, Propagating
<1>5. CASE TaskCompletes
  BY <1>5 DEF TaskCompletes
<1>6. CASE TaskFails
  BY <1>6 DEF TaskFails
<1>7. CASE ScheduleBatch
  BY <1>7 DEF ScheduleBatch, Offers, ReadySteps, StartedInv
<1>8. CASE NextStep
  BY <1>8 DEF NextStep
<1>9. CASE StartTask
  BY <1>9 DEF StartTask
<1>10. CASE Cancel \/ LoopDone \/ LoopPropagate \/ PropagateSkips \/ PropagateAgain \/
            PropagateEnds \/ ScheduleNothing \/ Recheck \/ BatchDone \/ TaskOutputRejected \/
            FinishedContinue \/ Return \/ Ended \/ UNCHANGED vars
  BY <1>10 DEF Cancel, LoopDone, LoopPropagate, PropagateSkips, Propagating,
               PropagateAgain, PropagateEnds, ScheduleNothing, Offers, Recheck,
               BatchDone, TaskOutputRejected, FinishedContinue, Return, Ended, vars
<1>. QED
  BY <1>1, <1>2, <1>3, <1>4, <1>5, <1>6, <1>7, <1>8, <1>9, <1>10 DEF Next, Executor, Propagation

\* The step the executor is at may run, and its task is started once.
LEMMA CurrentInductive ==
  TypeOK /\ CompletedInv /\ BatchInv /\ CurrentInv /\ [Next]_vars => CurrentInv'
<1>. SUFFICES ASSUME TypeOK, CompletedInv, BatchInv, CurrentInv, [Next]_vars PROVE CurrentInv'
  OBVIOUS
<1>. USE DEF TypeOK, CompletedInv, BatchInv, CurrentInv, Absent, Terminal, Goto, Raise,
             recordVars, scanVars, historyVars
<1>1. CASE LoopCancelled
  BY <1>1 DEF LoopCancelled, CancelAllUnfinished
<1>2. CASE NextStepCancelled
  BY <1>2 DEF NextStepCancelled, CancelAllUnfinished
<1>3. CASE FinishedCancelled
  BY <1>3 DEF FinishedCancelled, CancelAllUnfinished
<1>4. CASE PropagateBlocks
  BY <1>4 DEF PropagateBlocks, Propagating
<1>5. CASE TaskCompletes
  BY <1>5 DEF TaskCompletes
<1>6. CASE TaskFails
  BY <1>6 DEF TaskFails
<1>7. CASE NextStep
  BY <1>7 DEF NextStep
<1>8. CASE StartTask
  BY <1>8 DEF StartTask
<1>9. CASE Cancel \/ LoopDone \/ LoopPropagate \/ PropagateSkips \/ PropagateAgain \/
           PropagateEnds \/ ScheduleBatch \/ ScheduleNothing \/ Recheck \/ BatchDone \/
           TaskOutputRejected \/ FinishedContinue \/ Return \/ Ended \/ UNCHANGED vars
  BY <1>9 DEF Cancel, LoopDone, LoopPropagate, PropagateSkips, Propagating,
              PropagateAgain, PropagateEnds, ScheduleBatch, Offers, ScheduleNothing,
              Recheck, BatchDone, TaskOutputRejected, FinishedContinue, Return, Ended,
              vars
<1>. QED
  BY <1>1, <1>2, <1>3, <1>4, <1>5, <1>6, <1>7, <1>8, <1>9 DEF Next, Executor, Propagation

\* A started step keeps its completed dependencies and the outcome of its task.
LEMMA StartedInductive ==
  TypeOK /\ CompletedInv /\ CurrentInv /\ StartedInv /\ [Next]_vars => StartedInv'
<1>. SUFFICES ASSUME TypeOK, CompletedInv, CurrentInv, StartedInv, [Next]_vars PROVE StartedInv'
  OBVIOUS
<1>. USE DEF TypeOK, CompletedInv, CurrentInv, StartedInv, Absent, Terminal, Goto,
             Raise, recordVars, scanVars, historyVars
<1>1. CASE LoopCancelled
  BY <1>1 DEF LoopCancelled, CancelAllUnfinished
<1>2. CASE NextStepCancelled
  BY <1>2 DEF NextStepCancelled, CancelAllUnfinished
<1>3. CASE FinishedCancelled
  BY <1>3 DEF FinishedCancelled, CancelAllUnfinished
<1>4. CASE PropagateBlocks
  BY <1>4 DEF PropagateBlocks, Propagating
<1>5. CASE TaskCompletes
  BY <1>5 DEF TaskCompletes
<1>6. CASE TaskFails
  BY <1>6 DEF TaskFails
<1>7. CASE StartTask
  BY <1>7 DEF StartTask
<1>8. CASE TaskOutputRejected
  BY <1>8 DEF TaskOutputRejected
<1>9. CASE Cancel \/ LoopDone \/ LoopPropagate \/ PropagateSkips \/ PropagateAgain \/
           PropagateEnds \/ ScheduleBatch \/ ScheduleNothing \/ Recheck \/ BatchDone \/ NextStep \/
           FinishedContinue \/ Return \/ Ended \/ UNCHANGED vars
  BY <1>9 DEF Cancel, LoopDone, LoopPropagate, PropagateSkips, Propagating,
              PropagateAgain, PropagateEnds, ScheduleBatch, Offers, ScheduleNothing,
              Recheck, BatchDone, NextStep, FinishedContinue, Return, Ended, vars
<1>. QED
  BY <1>1, <1>2, <1>3, <1>4, <1>5, <1>6, <1>7, <1>8, <1>9 DEF Next, Executor, Propagation

\* At most one task is started after the event is set.
LEMMA LateInductive ==
  TypeOK /\ LateInv /\ [Next]_vars => LateInv'
<1>. SUFFICES ASSUME TypeOK, LateInv, [Next]_vars PROVE LateInv'
  OBVIOUS
<1>. USE DEF TypeOK, LateInv, OneLateStart, Goto, Raise, recordVars, scanVars,
             historyVars
<1>1. CASE Cancel
  BY <1>1 DEF Cancel
<1>2. CASE NextStep
  BY <1>2 DEF NextStep
<1>3. CASE StartTask
  BY <1>3 DEF StartTask
<1>4. CASE LoopDone \/ LoopCancelled \/ LoopPropagate \/ PropagateBlocks \/ PropagateSkips \/
           PropagateAgain \/ PropagateEnds \/ ScheduleBatch \/ ScheduleNothing \/ Recheck \/
           BatchDone \/ NextStepCancelled \/ TaskCompletes \/ TaskFails \/ TaskOutputRejected \/
           FinishedContinue \/ FinishedCancelled \/ Return \/ Ended \/ UNCHANGED vars
  BY <1>4 DEF LoopDone, LoopCancelled, CancelAllUnfinished, LoopPropagate,
              PropagateBlocks, Propagating, PropagateSkips, PropagateAgain,
              PropagateEnds, ScheduleBatch, Offers, ScheduleNothing, Recheck, BatchDone,
              NextStepCancelled, TaskCompletes, TaskFails, TaskOutputRejected,
              FinishedContinue, FinishedCancelled, Return, Ended, vars
<1>. QED
  BY <1>1, <1>2, <1>3, <1>4 DEF Next, Executor, Propagation

\* Every cancelled step keeps a cause that is true.
LEMMA ReasonInductive ==
  TypeOK /\ CurrentInv /\ ReasonInv /\ [Next]_vars => ReasonInv'
<1>. SUFFICES ASSUME TypeOK, CurrentInv, ReasonInv, [Next]_vars PROVE ReasonInv'
  OBVIOUS
<1>. USE DEF TypeOK, ReasonInv, CancelledForCause, Absent, Terminal, Reasons, Goto,
             Raise, recordVars, scanVars, historyVars
<1>1. CASE Cancel
  BY <1>1 DEF Cancel
<1>2. CASE LoopCancelled
  BY <1>2 DEF LoopCancelled, CancelAllUnfinished
<1>3. CASE NextStepCancelled
  BY <1>3 DEF NextStepCancelled, CancelAllUnfinished
<1>4. CASE FinishedCancelled
  BY <1>4 DEF FinishedCancelled, CancelAllUnfinished
<1>5. CASE PropagateBlocks
  <2>1. /\ cursor \in Steps /\ results[cursor] = "absent" /\ Blockers(cursor) # {}
        /\ results' = [results EXCEPT ![cursor] = "cancelled"]
        /\ reason' = [reason EXCEPT ![cursor] = BlockReason(cursor)]
        /\ blocking' = [blocking EXCEPT ![cursor] = Blockers(cursor)]
        /\ UNCHANGED <<deps, cancelled>>
    BY <1>5 DEF PropagateBlocks
  <2>2. \A s \in Steps : reason[s] # "explicit_cancellation"
    BY <2>1
  <2>3. BlockReason(cursor) \in {"dependency_failed", "dependency_cancelled"}
    BY DEF BlockReason
  <2>4. \A d \in Steps : results[d] # "absent" =>
          d # cursor /\ results'[d] = results[d] /\ reason'[d] = reason[d]
    BY <2>1
  <2>5. CancelledForCause'
    <3>. SUFFICES ASSUME NEW s \in Steps, results'[s] = "cancelled"
                  PROVE  /\ blocking'[s] # {} /\ blocking'[s] \subseteq deps[s]
                         /\ \A d \in blocking'[s] :
                              \/ results'[d] = "failed"
                              \/ results'[d] = "cancelled" /\ reason'[d] # "explicit_cancellation"
                         /\ reason'[s] = IF \E d \in blocking'[s] : results'[d] = "failed"
                                         THEN "dependency_failed" ELSE "dependency_cancelled"
      BY <2>1
    <3>0. deps[s] \subseteq Steps
      BY DEF Plans
    <3>1. CASE s = cursor
      <4>1. /\ blocking'[s] = Blockers(s) /\ reason'[s] = BlockReason(s)
            /\ \A d \in Blockers(s) : results'[d] = results[d] /\ reason'[d] = reason[d]
        BY <2>1, <2>4, <3>0, <3>1 DEF Blockers
      <4>2. Blockers(s) # {}
        BY <2>1, <3>1
      <4>3. /\ Blockers(s) \subseteq deps[s]
            /\ \A d \in Blockers(s) : d \in Steps /\ results[d] \in {"failed", "cancelled"}
        BY <3>0 DEF Blockers
      <4>4. reason'[s] = IF \E d \in blocking'[s] : results'[d] = "failed"
                         THEN "dependency_failed" ELSE "dependency_cancelled"
        BY <4>1 DEF BlockReason
      <4>. QED
        BY <2>2, <4>1, <4>2, <4>3, <4>4
    <3>2. CASE s # cursor
      <4>1. /\ results[s] = "cancelled" /\ reason'[s] = reason[s] /\ blocking'[s] = blocking[s]
        BY <2>1, <3>2
      <4>2. /\ blocking[s] # {} /\ blocking[s] \subseteq deps[s]
            /\ \A d \in blocking[s] : results[d] \in {"failed", "cancelled"}
            /\ reason[s] = IF \E d \in blocking[s] : results[d] = "failed"
                           THEN "dependency_failed" ELSE "dependency_cancelled"
        BY <2>2, <4>1
      <4>3. \A d \in blocking[s] : results'[d] = results[d] /\ reason'[d] = reason[d]
        BY <2>4, <3>0, <4>2
      <4>. QED
        BY <2>2, <3>0, <4>1, <4>2, <4>3
    <3>. QED
      BY <3>1, <3>2
  <2>. QED
    BY <2>1, <2>2, <2>3, <2>5
<1>6. CASE TaskCompletes
  BY <1>6 DEF TaskCompletes, CurrentInv
<1>7. CASE TaskFails
  BY <1>7 DEF TaskFails, CurrentInv
<1>8. CASE LoopDone \/ LoopPropagate \/ PropagateSkips \/ PropagateAgain \/ PropagateEnds \/
           ScheduleBatch \/ ScheduleNothing \/ Recheck \/ BatchDone \/ NextStep \/ StartTask \/
           TaskOutputRejected \/ FinishedContinue \/ Return \/ Ended \/ UNCHANGED vars
  BY <1>8 DEF LoopDone, LoopPropagate, PropagateSkips, Propagating, PropagateAgain,
              PropagateEnds, ScheduleBatch, Offers, ScheduleNothing, Recheck, BatchDone,
              NextStep, StartTask, TaskOutputRejected, FinishedContinue, Return, Ended,
              vars
<1>. QED
  BY <1>1, <1>2, <1>3, <1>4, <1>5, <1>6, <1>7, <1>8 DEF Next, Executor, Propagation

\* A pass that changed nothing leaves no blocked step behind it.
LEMMA ScanInductive ==
  TypeOK /\ CurrentInv /\ ScanInv /\ [Next]_vars => ScanInv'
<1>. SUFFICES ASSUME TypeOK, CurrentInv, ScanInv, [Next]_vars PROVE ScanInv'
  OBVIOUS
<1>. USE DEF Goto, Raise, recordVars, scanVars, historyVars
<1>1. CASE Cancel \/ Ended \/ UNCHANGED vars
  <2>1. UNCHANGED <<results, deps, pc, cursor, changed>>
    BY <1>1 DEF Cancel, Ended, vars
  <2>. QED
    BY <2>1 DEF ScanInv, Absent, Blockers, Propagating
\* A scan that starts has nothing behind it.
<1>2. CASE LoopPropagate \/ PropagateAgain \/ ScheduleNothing
  <2>1. cursor' = 1 /\ pc' \in {"propagate", "repropagate"}
    BY <1>2 DEF LoopPropagate, PropagateAgain, ScheduleNothing, Propagating
  <2>2. \A s \in Steps : ~(s < cursor')
    BY <2>1 DEF Steps
  <2>. QED
    BY <2>1, <2>2 DEF ScanInv, Absent, Propagating
<1>3. CASE PropagateBlocks
  <2>1. changed' = TRUE /\ pc' \in {"propagate", "repropagate"}
    BY <1>3 DEF PropagateBlocks, Propagating
  <2>. QED
    BY <2>1 DEF ScanInv
<1>4. CASE PropagateSkips
  <2>1. /\ UNCHANGED <<results, deps, pc, changed>>
        /\ pc \in {"propagate", "repropagate"}
        /\ cursor \in Absent => Blockers(cursor) = {}
    BY <1>4 DEF PropagateSkips, Propagating, Recorded
  <2>2. \A s \in Steps : s < cursor' => s < cursor \/ s = cursor
    <3>1. cursor \in Steps /\ cursor' = cursor + 1
      BY <1>4 DEF PropagateSkips
    <3>. QED
      BY <3>1, NumStepsAssumption DEF Steps
  <2>3. Absent' = Absent /\ \A s \in Steps : Blockers(s)' = Blockers(s)
    BY <2>1 DEF Absent, Blockers
  <2>. QED
    BY <2>1, <2>2, <2>3 DEF ScanInv, Propagating, Absent
<1>5. CASE PropagateEnds
  <2>1. /\ UNCHANGED <<results, deps>> /\ Propagating /\ ~changed
        /\ pc' \in {"schedule", "recheck"}
    BY <1>5 DEF PropagateEnds
  <2>2. \A s \in Steps : s < cursor
    <3>1. cursor > NumSteps /\ cursor \in Nat
      BY <1>5, NumStepsAssumption DEF PropagateEnds, TypeOK
    <3>. QED
      BY <3>1, NumStepsAssumption DEF Steps
  <2>. QED
    BY <2>1, <2>2 DEF ScanInv, Absent, Blockers, Propagating
<1>6. CASE \/ LoopDone \/ LoopCancelled \/ ScheduleBatch \/ Recheck \/ BatchDone \/ NextStep
           \/ NextStepCancelled \/ StartTask \/ TaskCompletes \/ TaskFails \/ TaskOutputRejected
           \/ FinishedContinue \/ FinishedCancelled \/ Return
  <2>1. pc' \notin {"propagate", "repropagate", "schedule", "recheck"}
    BY <1>6 DEF LoopDone, LoopCancelled, ScheduleBatch, Recheck, BatchDone, NextStep,
       NextStepCancelled, StartTask, TaskCompletes, TaskFails, TaskOutputRejected,
       FinishedContinue, FinishedCancelled, Return
  <2>. QED
    BY <2>1 DEF ScanInv, Propagating
<1>. QED
  BY <1>1, <1>2, <1>3, <1>4, <1>5, <1>6 DEF Next, Executor, Propagation

-----------------------------------------------------------------------------
(* Safety theorems                                                         *)

\* A new execution satisfies the inductive invariant.
LEMMA InitIInv == Init => IInv
<1>. SUFFICES ASSUME Init PROVE IInv
  OBVIOUS
<1>0. cursor \in 1 .. NumSteps + 1
  BY NumStepsAssumption DEF Init
<1>1. TypeOK
  BY <1>0 DEF Init, TypeOK, Terminal, Reasons, Errors, Places
<1>2. CompletedInv /\ BatchInv /\ CurrentInv /\ StartedInv
  BY DEF Init, CompletedInv, BatchInv, CurrentInv, StartedInv
<1>3. LateInv /\ ReasonInv /\ ScanInv
  BY DEF Init, LateInv, OneLateStart, ReasonInv, CancelledForCause, ScanInv, Propagating
<1>. QED
  BY <1>1, <1>2, <1>3 DEF IInv

\* Every action of the loop, and a cancellation, keeps it.
LEMMA StepIInv == IInv /\ [Next]_vars => IInv'
  BY TypeInductive, CompletedInductive, BatchInductive, CurrentInductive,
     StartedInductive, LateInductive, ReasonInductive, ScanInductive DEF IInv

\* The inductive invariant holds in every reachable state.
THEOREM Invariance == Spec => []IInv
  BY InitIInv, StepIInv, PTL DEF Spec

\* The variables of the executor keep their types in every execution.
THEOREM TypeCorrect == Spec => []TypeOK
<1>1. IInv => TypeOK
  BY DEF IInv
<1>. QED
  BY <1>1, Invariance, PTL

\* No task ever runs before the steps it depends on have completed.
THEOREM DependenciesFirst == Spec => []DependencyOrder
<1>1. IInv => DependencyOrder
  BY DEF IInv, CompletedInv, StartedInv, DependencyOrder
<1>. QED
  BY <1>1, Invariance, PTL

\* COMPLETED and FAILED come from tasks that ran, CANCELLED from none.
THEOREM OutcomesEarned == Spec => []OutcomesAreEarned
<1>1. IInv => OutcomesAreEarned
  BY DEF IInv, StartedInv, OutcomesAreEarned
<1>. QED
  BY <1>1, Invariance, PTL

\* After cancel() at most one more task starts.
THEOREM LateStartBound == Spec => []OneLateStart
<1>1. IInv => OneLateStart
  BY DEF IInv, LateInv
<1>. QED
  BY <1>1, Invariance, PTL

\* Every CANCELLED result states its true cause.
THEOREM CausesTrue == Spec => []CancelledForCause
<1>1. IInv => CancelledForCause
  BY DEF IInv, ReasonInv
<1>. QED
  BY <1>1, Invariance, PTL

\* No step is handed to the task executor twice.
THEOREM AtMostOnce == Spec => RunAtMostOnce
<1>1. IInv /\ [Next]_vars =>
        [\A s \in started : ~(pc = "start" /\ pc' = "running" /\ current = s)]_vars
  BY DEF IInv, CurrentInv
<1>. QED
  BY <1>1, Invariance, PTL DEF Spec, RunAtMostOnce

\* A recorded result never changes.
THEOREM Final == Spec => ResultsFinal
<1>1. ASSUME IInv, [Next]_vars, NEW s \in Recorded
      PROVE  results'[s] = results[s] /\ reason'[s] = reason[s] /\ blocking'[s] = blocking[s]
  <2>. USE DEF recordVars, Recorded, Absent
  <2>1. s \in Steps /\ results[s] # "absent"
    OBVIOUS
  <2>2. CASE LoopCancelled \/ NextStepCancelled \/ FinishedCancelled
    BY <2>1, <2>2 DEF LoopCancelled, NextStepCancelled, FinishedCancelled, CancelAllUnfinished
  <2>3. CASE PropagateBlocks
    BY <1>1, <2>1, <2>3 DEF PropagateBlocks, IInv, TypeOK
  <2>4. CASE TaskCompletes \/ TaskFails
    BY <1>1, <2>1, <2>4 DEF TaskCompletes, TaskFails, Goto, IInv, TypeOK, CurrentInv
  <2>5. CASE \/ Cancel \/ LoopDone \/ LoopPropagate \/ PropagateSkips \/ PropagateAgain
             \/ PropagateEnds \/ ScheduleBatch \/ ScheduleNothing \/ Recheck \/ BatchDone
             \/ NextStep \/ StartTask \/ TaskOutputRejected \/ FinishedContinue \/ Return
             \/ Ended \/ UNCHANGED vars
    BY <2>5 DEF Cancel, LoopDone, LoopPropagate, PropagateSkips, PropagateAgain,
       PropagateEnds, ScheduleBatch, ScheduleNothing, Recheck, BatchDone, NextStep,
       StartTask, TaskOutputRejected, FinishedContinue, Return, Ended, vars
  <2>. QED
    BY <1>1, <2>2, <2>3, <2>4, <2>5 DEF Next, Executor, Propagation
<1>2. IInv /\ [Next]_vars =>
        [\A s \in Recorded : /\ results'[s] = results[s]
                             /\ reason'[s] = reason[s]
                             /\ blocking'[s] = blocking[s]]_vars
  BY <1>1
<1>. QED
  BY <1>2, Invariance, PTL DEF Spec, ResultsFinal

-----------------------------------------------------------------------------
(* The answer is determined by the tasks                                   *)

\* Whatever the scheduler offers, an answer misses no step.
ReturnedInv == pc = "returned" => Absent = {}

LEMMA ReturnedInductive == IInv /\ ReturnedInv /\ [Next]_vars => ReturnedInv'
<1>. SUFFICES ASSUME IInv, ReturnedInv, [Next]_vars, pc' = "returned" PROVE Absent' = {}
  BY DEF ReturnedInv
<1>. USE DEF Goto, Raise, recordVars, scanVars, historyVars, ReturnedInv
<1>1. CASE Return
  BY <1>1 DEF Return, Absent
<1>2. CASE Cancel \/ Ended \/ UNCHANGED vars
  BY <1>2 DEF Cancel, Ended, vars, Absent
<1>3. CASE PropagateBlocks \/ PropagateSkips \/ PropagateAgain \/ PropagateEnds
  BY <1>3 DEF PropagateBlocks, PropagateSkips, PropagateAgain, PropagateEnds, Propagating
<1>4. CASE \/ LoopDone \/ LoopCancelled \/ LoopPropagate \/ ScheduleBatch \/ ScheduleNothing
           \/ Recheck \/ BatchDone \/ NextStep \/ NextStepCancelled \/ StartTask
           \/ TaskCompletes \/ TaskFails \/ TaskOutputRejected \/ FinishedContinue
           \/ FinishedCancelled
  BY <1>4 DEF LoopDone, LoopCancelled, LoopPropagate, ScheduleBatch, ScheduleNothing, Recheck,
     BatchDone, NextStep, NextStepCancelled, StartTask, TaskCompletes, TaskFails,
     TaskOutputRejected, FinishedContinue, FinishedCancelled
<1>. QED
  BY <1>1, <1>2, <1>3, <1>4 DEF Next, Executor, Propagation

\* Ancestors(s) holds the dependencies of s and those of its members, and is
\* part of every set of steps that does.
LEMMA AncestorsClosed ==
  ASSUME TypeOK, NEW s \in Steps
  PROVE  /\ Ancestors(s) \subseteq Steps /\ deps[s] \subseteq Ancestors(s)
         /\ \A a \in Ancestors(s) : deps[a] \subseteq Ancestors(s)
         /\ \A S \in SUBSET Steps :
              deps[s] \subseteq S /\ (\A d \in S : deps[d] \subseteq S) => Ancestors(s) \subseteq S
<1>1. \A d \in Steps : deps[d] \subseteq Steps
  BY DEF TypeOK, Plans
<1>. QED
  BY <1>1 DEF Ancestors

\* A step is cancelled for a failure above it: among the cancelled steps from
\* it upwards, one depends on none of the others, and on a failed one.
LEMMA CancelledBelowFailure ==
  ASSUME TypeOK, CancelledForCause, \A s \in Steps : reason[s] # "explicit_cancellation",
         NEW s \in Steps, results[s] = "cancelled"
  PROVE  \E a \in Ancestors(s) : results[a] = "failed"
<1>. SUFFICES ASSUME \A a \in Ancestors(s) : results[a] # "failed" PROVE FALSE
  OBVIOUS
<1>. DEFINE C == { x \in {s} \cup Ancestors(s) : results[x] = "cancelled" }
<1>1. /\ Ancestors(s) \subseteq Steps /\ deps[s] \subseteq Ancestors(s)
      /\ \A a \in Ancestors(s) : deps[a] \subseteq Ancestors(s)
  BY AncestorsClosed
<1>2. PICK x \in C : deps[x] \cap C = {}
  <2>1. C \in SUBSET Steps /\ s \in C
    BY <1>1
  <2>2. C \in (SUBSET Steps) \ {{}}
    BY <2>1, Zenon
  <2>. QED
    BY <2>2 DEF TypeOK, Plans, Acyclic
<1>3. PICK d \in deps[x] : results[d] \in {"failed", "cancelled"}
  <2>1. x \in Steps /\ results[x] = "cancelled" /\ reason[x] # "explicit_cancellation"
    BY <1>1
  <2>. QED
    BY <2>1 DEF CancelledForCause
<1>4. d \in Ancestors(s)
  BY <1>1, <1>3
<1>. QED
  BY <1>2, <1>3, <1>4

\* And a step that is not cancelled has only completed steps above it, since
\* every step that has run had completed dependencies.
LEMMA RunBelowCompleted ==
  ASSUME IInv, NEW s \in Steps, results[s] \in {"completed", "failed"}
  PROVE  \A a \in Ancestors(s) : results[a] = "completed"
<1>1. \A x \in Steps : results[x] \in {"completed", "failed"} => deps[x] \subseteq completed
  BY DEF IInv, StartedInv
<1>2. /\ completed \in SUBSET Steps
      /\ \A x \in Steps : x \in completed <=> results[x] = "completed"
  BY DEF IInv, TypeOK, CompletedInv
<1>3. deps[s] \subseteq completed /\ \A d \in completed : deps[d] \subseteq completed
  BY <1>1, <1>2
<1>4. Ancestors(s) \subseteq completed
  BY <1>2, <1>3, AncestorsClosed DEF IInv
<1>. QED
  BY <1>2, <1>4

\* The answer of an execution without a cancellation is a function of the plan
\* and of the tasks that fail: a step is CANCELLED if and only if a step above
\* it FAILED, and everything else has run, in whatever order the steps were
\* scheduled.
THEOREM ExactAnswer == Spec => []AnswerIsExact
<1>1. Init => ReturnedInv
  BY DEF Init, ReturnedInv
<1>2. IInv /\ ReturnedInv => AnswerIsExact
  <2>. SUFFICES ASSUME IInv, pc = "returned", Absent = {},
                       \A s \in Steps : reason[s] # "explicit_cancellation",
                       NEW s \in Steps
                PROVE  /\ results[s] # "absent"
                       /\ results[s] = "cancelled" <=> \E a \in Ancestors(s) : results[a] = "failed"
    BY DEF AnswerIsExact, ReturnedInv
  <2>1. results[s] \in {"completed", "failed", "cancelled"}
    BY DEF IInv, TypeOK, Terminal, Absent
  <2>2. CASE results[s] = "cancelled"
    BY <2>2, CancelledBelowFailure DEF IInv, ReasonInv
  <2>3. CASE results[s] \in {"completed", "failed"}
    BY <2>3, RunBelowCompleted
  <2>. QED
    BY <2>1, <2>2, <2>3
<1>. QED
  BY <1>1, <1>2, ReturnedInductive, Invariance, PTL DEF Spec

-----------------------------------------------------------------------------
(* Termination: every step of the executor's thread counts                 *)
(*                                                                         *)
(* Liveness itself is checked by TLC.  What holds at every size is that    *)
(* the steps the executor can take are bounded: each of them records a     *)
(* result, or comes nearer to the next record or to the end.               *)

\* What is left of a scan: its steps, and those of the pass that follows one
\* in which something was recorded.
ScanLeft == (NumSteps + 2 - cursor) + (IF changed THEN NumSteps + 2 ELSE 0)

Longest == 2 * (NumSteps + 2)

\* A bound on the steps until a result is recorded or execute ends.  The
\* places from which the loop is entered again are above the loop: they are
\* reached by recording a result only.
Left ==
  CASE pc \in {"returned", "raised"}               -> 0
    [] pc \in {"return", "running"}                -> 1
    [] pc = "start"                                -> 2
    [] pc = "recheck" /\ Recorded = before         -> 2
    [] pc = "step" /\ batch # {}                   -> 3
    [] pc = "repropagate" /\ Recorded = before     -> 2 + ScanLeft
    [] pc = "schedule"                             -> 4 + Longest
    [] pc = "propagate"                            -> 4 + Longest + ScanLeft
    [] pc = "loop"                                 -> 5 + Longest + Longest
    [] pc = "step" /\ batch = {}                   -> 6 + Longest + Longest
    [] pc = "finished"                             -> 7 + Longest + Longest
    [] pc = "recheck" /\ Recorded # before         -> 6 + Longest + Longest
    [] pc = "repropagate" /\ Recorded # before     -> 6 + Longest + Longest + ScanLeft

Nearer ==
  /\ Absent' \subseteq Absent
  /\ Absent' = Absent => Left' < Left

EveryStepCounts == [][Executor => Nearer]_vars

\* The bound, place by place.
LeftTable ==
  /\ pc \in {"returned", "raised"} => Left = 0
  /\ pc \in {"return", "running"} => Left = 1
  /\ pc = "start" => Left = 2
  /\ pc = "step" /\ batch # {} => Left = 3
  /\ pc = "step" /\ batch = {} => Left = 6 + Longest + Longest
  /\ pc = "schedule" => Left = 4 + Longest
  /\ pc = "propagate" => Left = 4 + Longest + ScanLeft
  /\ pc = "loop" => Left = 5 + Longest + Longest
  /\ pc = "finished" => Left = 7 + Longest + Longest
  /\ pc = "recheck" /\ Recorded = before => Left = 2
  /\ pc = "recheck" /\ Recorded # before => Left = 6 + Longest + Longest
  /\ pc = "repropagate" /\ Recorded = before => Left = 2 + ScanLeft
  /\ pc = "repropagate" /\ Recorded # before => Left = 6 + Longest + Longest + ScanLeft

LEMMA LeftValues == LeftTable /\ LeftTable'
BY DEF LeftTable, Left

LEMMA ScanValues ==
  ASSUME cursor \in 1 .. NumSteps + 1, changed \in BOOLEAN
  PROVE  /\ ScanLeft \in 1 .. Longest /\ Longest \in Nat
         /\ changed => ScanLeft = Longest - cursor
         /\ ~changed => ScanLeft = NumSteps + 2 - cursor
BY NumStepsAssumption DEF ScanLeft, Longest

\* Every step of the executor records a result, or decreases the bound.
LEMMA StepCounts == ASSUME IInv, Executor PROVE Nearer
<1>0. /\ cursor \in 1 .. NumSteps + 1 /\ changed \in BOOLEAN /\ NumSteps \in Nat
      /\ results \in [Steps -> Terminal \cup {"absent"}]
      /\ pc \in {"start", "running"} => current \in Steps
  BY NumStepsAssumption DEF IInv, TypeOK
<1>1. /\ ScanLeft \in 1 .. Longest /\ Longest \in Nat
      /\ changed => ScanLeft = Longest - cursor
      /\ ~changed => ScanLeft = NumSteps + 2 - cursor
  BY <1>0, ScanValues
<1>2. Longest = 2 * (NumSteps + 2)
  BY DEF Longest
<1>. USE DEF Goto, Raise, recordVars, scanVars, historyVars, Nearer
<1>3. CASE LoopDone \/ Return \/ BatchDone \/ FinishedContinue
  <2>1. Absent' = Absent
    BY <1>3 DEF LoopDone, Return, BatchDone, FinishedContinue, Absent
  <2>2. Left' < Left
    BY <1>1, <1>3, LeftValues DEF LeftTable, LoopDone, Return, BatchDone, FinishedContinue
  <2>. QED
    BY <2>1, <2>2
<1>4. CASE LoopCancelled \/ NextStepCancelled
  <2>1. Absent # {} /\ Absent' = {}
    BY <1>4 DEF LoopCancelled, NextStepCancelled, CancelAllUnfinished, Absent, IInv, BatchInv, TypeOK
  <2>. QED
    BY <2>1
<1>5. CASE FinishedCancelled
  <2>1. Absent' \subseteq Absent
    BY <1>5 DEF FinishedCancelled, CancelAllUnfinished, Absent
  <2>2. Left' < Left
    BY <1>1, <1>5, LeftValues DEF LeftTable, FinishedCancelled
  <2>. QED
    BY <2>1, <2>2
<1>6. CASE LoopPropagate
  <2>1. Absent' = Absent
    BY <1>6 DEF LoopPropagate, Absent
  <2>2. ScanLeft' \in 1 .. Longest
    BY <1>0, <1>2, <1>6 DEF LoopPropagate, ScanLeft
  <2>3. Left = 5 + Longest + Longest /\ Left' = 4 + Longest + ScanLeft'
    BY <1>6, LeftValues DEF LeftTable, LoopPropagate, Longest
  <2>4. Longest \in Nat /\ ScanLeft' \in Nat /\ ScanLeft' <= Longest
    BY <1>1, <2>2
  <2>5. 4 + Longest + ScanLeft' < 5 + Longest + Longest
    <3>1. \A l, s \in Nat : s <= l => 4 + l + s < 5 + l + l
      OBVIOUS
    <3>. QED
      BY <2>4, <3>1
  <2>6. Left' < Left
    BY <2>3, <2>5
  <2>. QED
    BY <2>1, <2>6
<1>7. CASE PropagateBlocks
  <2>1. Absent' = Absent \ {cursor} /\ cursor \in Absent
    BY <1>0, <1>7 DEF PropagateBlocks, Absent
  <2>. QED
    BY <2>1
<1>8. CASE PropagateSkips \/ PropagateAgain
  <2>1. Absent' = Absent /\ (Recorded = before <=> (Recorded = before)') /\ pc' = pc
        /\ pc \in {"propagate", "repropagate"}
    BY <1>8 DEF PropagateSkips, PropagateAgain, Absent, Recorded, Propagating
  <2>2. ScanLeft' < ScanLeft /\ ScanLeft' \in Nat
    BY <1>0, <1>8 DEF PropagateSkips, PropagateAgain, ScanLeft, Steps
  <2>. QED
    BY <1>1, <2>1, <2>2, LeftValues DEF LeftTable, Longest
<1>9. CASE PropagateEnds
  <2>1. Absent' = Absent /\ (Recorded = before <=> (Recorded = before)')
    BY <1>9 DEF PropagateEnds, Absent, Recorded
  <2>2. \/ pc = "propagate" /\ pc' = "schedule"
        \/ pc = "repropagate" /\ pc' = "recheck"
    BY <1>9 DEF PropagateEnds, Propagating
  <2>. QED
    BY <1>1, <2>1, <2>2, LeftValues DEF LeftTable, Longest
<1>10. CASE ScheduleBatch
  <2>1. Absent' = Absent
    BY <1>10 DEF ScheduleBatch, Absent
  <2>2. Left' = 3 /\ Left = 4 + Longest
    BY <1>10, LeftValues DEF LeftTable, ScheduleBatch
  <2>. QED
    BY <1>1, <2>1, <2>2
<1>11. CASE ScheduleNothing
  <2>1. Absent' = Absent /\ Recorded' = before'
    BY <1>11 DEF ScheduleNothing, Absent, Recorded
  <2>2. ScanLeft' = NumSteps + 1
    BY <1>0, <1>11 DEF ScheduleNothing, ScanLeft
  <2>3. Left = 4 + Longest /\ Left' = 2 + ScanLeft'
    BY <1>11, <2>1, LeftValues DEF LeftTable, ScheduleNothing
  <2>. QED
    BY <1>0, <1>2, <2>1, <2>2, <2>3
<1>12. CASE Recheck
  <2>1. Absent' = Absent
    BY <1>12 DEF Recheck, Absent
  <2>2. Left' < Left
    BY <1>1, <1>12, LeftValues DEF LeftTable, Recheck, Longest
  <2>. QED
    BY <2>1, <2>2
<1>13. CASE NextStep \/ StartTask \/ TaskOutputRejected
  <2>1. Absent' = Absent
    BY <1>13 DEF NextStep, StartTask, TaskOutputRejected, Absent
  <2>2. Left' < Left
    BY <1>13, LeftValues DEF LeftTable, NextStep, StartTask, TaskOutputRejected
  <2>. QED
    BY <2>1, <2>2
<1>14. CASE TaskCompletes \/ TaskFails
  <2>1. current \in Absent /\ Absent' = Absent \ {current}
    BY <1>0, <1>14 DEF TaskCompletes, TaskFails, IInv, CurrentInv, Absent
  <2>. QED
    BY <2>1
<1>. QED
  BY <1>3, <1>4, <1>5, <1>6, <1>7, <1>8, <1>9, <1>10, <1>11, <1>12, <1>13, <1>14
  DEF Executor, Propagation

\* Whatever the scheduler offers, and in plans of every size, no step of the
\* executor's thread is in vain: it makes the set of missing results smaller,
\* or leaves it and decreases a natural number.  So execute takes finitely
\* many steps, and no sequence of passes and batches goes round in a circle.
THEOREM NoStepInVain == Spec => EveryStepCounts
<1>1. IInv /\ [Next]_vars => [Executor => Nearer]_vars
  BY StepCounts
<1>. QED
  BY <1>1, Invariance, PTL DEF Spec, EveryStepCounts

\* The number it decreases is one.
THEOREM BoundIsNatural == Spec => [](Left \in Nat)
<1>1. ASSUME IInv PROVE Left \in Nat
  <2>1. ScanLeft \in Nat /\ Longest \in Nat
    BY <1>1, ScanValues DEF IInv, TypeOK
  <2>2. pc \in Places
    BY <1>1 DEF IInv, TypeOK
  <2>. QED
    BY <2>1, <2>2, LeftValues DEF LeftTable, Places
<1>. QED
  BY <1>1, Invariance, PTL

-----------------------------------------------------------------------------
(* Progress: with the DependencyScheduler the loop is never stuck          *)

\* In an acyclic plan, steps without a result that nothing blocks include one
\* that is ready: the one that depends on no other step without a result.
LEMMA SomeStepReady ==
  ASSUME TypeOK, CompletedInv, Absent # {}, \A s \in Absent : Blockers(s) = {}
  PROVE  ReadySteps \cap Absent # {}
<1>1. Absent \subseteq Steps
  BY DEF Absent
<1>2. PICK s \in Absent : deps[s] \cap Absent = {}
  <2>1. Absent \in SUBSET Steps /\ Absent \notin {{}}
    BY <1>1, Zenon
  <2>. QED
    BY <2>1 DEF TypeOK, Plans, Acyclic
<1>3. s \in Steps /\ deps[s] \subseteq Steps
  BY <1>2 DEF Absent, TypeOK, Plans
<1>4. \A d \in deps[s] : results[d] = "completed"
  BY <1>2, <1>3 DEF Absent, Blockers, TypeOK, Terminal
<1>5. s \in ReadySteps
  BY <1>2, <1>3, <1>4 DEF ReadySteps, CompletedInv, Absent
<1>. QED
  BY <1>2, <1>5

\* With the DependencyScheduler the loop keeps clear of its stall and of a
\* missing result.
LEMMA ProgressInductive ==
  ASSUME ~LazyScheduler
  PROVE  IInv /\ ProgressInv /\ [Next]_vars => ProgressInv'
<1>. SUFFICES ASSUME IInv, ProgressInv, [Next]_vars PROVE ProgressInv'
  OBVIOUS
<1>. USE DEF Goto, Raise, recordVars, scanVars, historyVars, ProgressInv, NeverStuck
<1>1. CASE ScheduleNothing
  <2>1. Absent # {} /\ pc = "schedule" /\ ReadySteps \cap Absent = {}
    BY <1>1 DEF ScheduleNothing, Offers
  <2>2. \A s \in Absent : Blockers(s) = {}
    BY <2>1 DEF IInv, ScanInv
  <2>. QED
    BY <2>1, <2>2, SomeStepReady DEF IInv
<1>2. CASE LoopCancelled \/ NextStepCancelled \/ FinishedCancelled
  BY <1>2 DEF LoopCancelled, NextStepCancelled, FinishedCancelled, CancelAllUnfinished, Absent
<1>3. CASE PropagateBlocks \/ PropagateSkips \/ PropagateAgain \/ PropagateEnds
  BY <1>3 DEF PropagateBlocks, PropagateSkips, PropagateAgain, PropagateEnds, Propagating
<1>4. CASE \/ Cancel \/ LoopDone \/ LoopPropagate \/ ScheduleBatch \/ Recheck \/ BatchDone
           \/ NextStep \/ StartTask \/ TaskCompletes \/ TaskFails \/ TaskOutputRejected
           \/ FinishedContinue \/ Return \/ Ended \/ UNCHANGED vars
  BY <1>4 DEF Cancel, LoopDone, LoopPropagate, ScheduleBatch, Recheck, BatchDone, NextStep,
     StartTask, TaskCompletes, TaskFails, TaskOutputRejected, FinishedContinue, Return,
     Ended, vars, Absent
<1>. QED
  BY <1>1, <1>2, <1>3, <1>4 DEF Next, Executor, Propagation

\* With the DependencyScheduler the loop never stalls and the answer misses
\* no step, in every acyclic plan of every size.
THEOREM NeverStalls ==
  ASSUME ~LazyScheduler
  PROVE  Spec => []NeverStuck
<1>1. Init => ProgressInv
  BY DEF Init, ProgressInv, NeverStuck
<1>2. IInv /\ ProgressInv /\ [Next]_vars => ProgressInv'
  BY ProgressInductive
<1>3. ProgressInv => NeverStuck
  BY DEF ProgressInv
<1>. QED
  BY <1>1, <1>2, <1>3, Invariance, PTL DEF Spec

-----------------------------------------------------------------------------
(* Refinement                                                              *)

\* A new execution is a new execution of PlanExecution.
LEMMA InitRefines == Init => Abstract!Init
  BY DEF Init, Abstract!Init, Plans, Acyclic, Steps, Abstract!Plans, Abstract!Acyclic,
     Abstract!Steps, Status, Phase

\* Every step of the loop is a step of PlanExecution or changes nothing in it.
LEMMA StepRefines ==
  ASSUME ~LazyScheduler
  PROVE  IInv /\ ProgressInv /\ [Next]_vars => [Abstract!Next]_(Abstract!vars)
<1>. SUFFICES ASSUME IInv, ProgressInv, [Next]_vars PROVE [Abstract!Next]_(Abstract!vars)
  OBVIOUS
<1>0. TypeOK /\ CompletedInv /\ BatchInv /\ CurrentInv /\ StartedInv
  BY DEF IInv
<1>. USE <1>0 DEF Goto, Raise, recordVars, scanVars, historyVars, Abstract!Steps, Steps
<1>1. CASE Cancel
  <2>1. Status' = Status /\ Phase' = Phase /\ deps' = deps /\ cancelled' = TRUE
    BY <1>1 DEF Cancel, Status, Phase
  <2>. QED
    BY <2>1 DEF Abstract!Next, Abstract!RequestCancel
<1>2. CASE LoopCancelled \/ NextStepCancelled \/ FinishedCancelled
  <2>1. /\ pc \in {"loop", "step", "finished"} /\ pc' \in {"loop", "return"}
        /\ cancelled /\ cancelled' = cancelled /\ deps' = deps
        /\ results' = [s \in Steps |-> IF s \in Absent THEN "cancelled" ELSE results[s]]
    BY <1>2 DEF LoopCancelled, NextStepCancelled, FinishedCancelled, CancelAllUnfinished
  <2>2. Phase = "executing" /\ Phase' = "executing"
    BY <2>1 DEF Phase
  <2>3. \A s \in Steps : Status[s] = IF s \in Absent THEN "pending" ELSE results[s]
    BY <2>1 DEF Status, Absent
  <2>4. Status' = [s \in Steps |-> IF Status[s] = "pending" THEN "cancelled" ELSE Status[s]]
    BY <2>1, <2>3 DEF Status, Absent, TypeOK, Terminal
  <2>5. Abstract!Idle
    BY <2>3 DEF Abstract!Idle, TypeOK, Terminal
  <2>. QED
    BY <2>1, <2>2, <2>4, <2>5 DEF Abstract!Next, Abstract!CancelRest
<1>3. CASE PropagateBlocks
  <2>1. /\ pc \in {"propagate", "repropagate"} /\ pc' = pc /\ deps' = deps
        /\ cancelled' = cancelled
        /\ cursor \in Steps /\ results[cursor] = "absent"
        /\ results' = [results EXCEPT ![cursor] = "cancelled"]
    BY <1>3 DEF PropagateBlocks, Propagating, Absent
  <2>2. PICK d \in deps[cursor] : results[d] \in {"failed", "cancelled"}
    BY <1>3 DEF PropagateBlocks, Blockers
  <2>3. d \in Steps
    BY <2>1, <2>2 DEF TypeOK, Plans
  <2>4. Phase = "executing" /\ Phase' = "executing"
    BY <2>1 DEF Phase
  <2>5. /\ Status[cursor] = "pending" /\ Status[d] \in {"failed", "cancelled"}
        /\ Status' = [Status EXCEPT ![cursor] = "cancelled"]
    BY <2>1, <2>2, <2>3 DEF Status, TypeOK
  <2>6. Abstract!CancelBlocked(cursor)
    BY <2>1, <2>2, <2>4, <2>5 DEF Abstract!CancelBlocked
  <2>. QED
    BY <2>1, <2>6 DEF Abstract!Next
<1>4. CASE StartTask
  <2>1. /\ pc = "start" /\ pc' = "running" /\ UNCHANGED <<deps, cancelled, results, current>>
        /\ current \in Steps /\ results[current] = "absent"
        /\ deps[current] \subseteq completed
    BY <1>4 DEF StartTask, CurrentInv, TypeOK
  <2>2. Phase = "executing" /\ Phase' = "executing"
    BY <2>1 DEF Phase
  <2>3. /\ Abstract!Idle /\ Status[current] = "pending"
        /\ Status' = [Status EXCEPT ![current] = "running"]
    BY <2>1 DEF Abstract!Idle, Status, TypeOK, Terminal
  <2>4. \A d \in deps[current] : Status[d] = "completed"
    BY <2>1 DEF Status, CompletedInv
  <2>5. Abstract!Start(current)
    BY <2>1, <2>2, <2>3, <2>4 DEF Abstract!Start
  <2>. QED
    BY <2>1, <2>5 DEF Abstract!Next
<1>5. CASE TaskCompletes \/ TaskFails
  <2>1. /\ pc = "running" /\ pc' \in {"finished", "step"}
        /\ UNCHANGED <<deps, cancelled, current>>
        /\ current \in Steps /\ results[current] = "absent"
    BY <1>5 DEF TaskCompletes, TaskFails, CurrentInv, TypeOK
  <2>2. PICK outcome \in {"completed", "failed"} :
          results' = [results EXCEPT ![current] = outcome]
    BY <1>5 DEF TaskCompletes, TaskFails
  <2>3. Phase = "executing" /\ Phase' = "executing"
    BY <2>1 DEF Phase
  <2>4. /\ Status[current] = "running"
        /\ Status' = [Status EXCEPT ![current] = outcome]
    BY <2>1, <2>2 DEF Status, TypeOK
  <2>5. Abstract!Finish(current)
    BY <2>1, <2>3, <2>4 DEF Abstract!Finish
  <2>. QED
    BY <2>1, <2>5 DEF Abstract!Next
<1>6. CASE TaskOutputRejected
  <2>1. /\ pc = "running" /\ pc' = "raised" /\ UNCHANGED <<deps, cancelled, results, current>>
        /\ current \in Steps /\ results[current] = "absent"
    BY <1>6 DEF TaskOutputRejected, CurrentInv, TypeOK
  <2>2. Phase = "executing" /\ Phase' = "aborted"
    BY <2>1 DEF Phase
  <2>3. /\ Status[current] = "running"
        /\ Status' = [s \in Steps |-> IF Status[s] = "running" THEN "pending" ELSE Status[s]]
    BY <2>1 DEF Status, TypeOK, Terminal
  <2>. QED
    BY <2>1, <2>2, <2>3 DEF Abstract!Next, Abstract!Abort
<1>7. CASE Return
  <2>1. /\ pc = "return" /\ pc' = "returned" /\ UNCHANGED <<deps, cancelled, results, current>>
        /\ \A s \in Steps : results[s] \in Terminal
    BY <1>7 DEF Return, ProgressInv, Absent, TypeOK
  <2>2. Phase = "executing" /\ Phase' = "answered"
    BY <2>1 DEF Phase
  <2>3. Status' = Status /\ \A s \in Steps : Status[s] \in Terminal
    BY <2>1 DEF Status, Terminal
  <2>. QED
    BY <2>1, <2>2, <2>3 DEF Abstract!Next, Abstract!Answer, Abstract!Terminal, Terminal
<1>8. CASE \/ LoopDone \/ LoopPropagate \/ PropagateSkips \/ PropagateAgain \/ PropagateEnds
           \/ ScheduleBatch \/ ScheduleNothing \/ Recheck \/ BatchDone \/ NextStep
           \/ FinishedContinue \/ Ended \/ UNCHANGED vars
  <2>1. UNCHANGED <<deps, cancelled, results>>
    BY <1>8 DEF LoopDone, LoopPropagate, PropagateSkips, PropagateAgain, PropagateEnds,
       ScheduleBatch, ScheduleNothing, Recheck, BatchDone, NextStep, FinishedContinue,
       Ended, vars
  <2>2. \/ pc' = pc /\ current' = current
        \/ pc \notin {"running", "returned", "raised"} /\ pc' \notin {"running", "returned", "raised"}
    BY <1>8 DEF LoopDone, LoopPropagate, PropagateSkips, PropagateAgain, PropagateEnds,
       ScheduleBatch, ScheduleNothing, Recheck, BatchDone, NextStep, FinishedContinue,
       Ended, vars, ProgressInv, Propagating
  <2>3. Status' = Status /\ Phase' = Phase
    BY <2>1, <2>2 DEF Status, Phase
  <2>. QED
    BY <2>1, <2>3 DEF Abstract!vars
<1>. QED
  BY <1>1, <1>2, <1>3, <1>4, <1>5, <1>6, <1>7, <1>8 DEF Next, Executor, Propagation

\* With the DependencyScheduler, execute does what PlanExecution promises,
\* for every acyclic plan and every moment of cancellation.
THEOREM Refinement ==
  ASSUME ~LazyScheduler
  PROVE  Spec => ImplementsPlanExecution
<1>1. Init => ProgressInv
  BY DEF Init, ProgressInv, NeverStuck
<1>2. IInv /\ ProgressInv /\ [Next]_vars => ProgressInv'
  BY ProgressInductive
<1>3. IInv /\ ProgressInv /\ [Next]_vars => [Abstract!Next]_(Abstract!vars)
  BY StepRefines
<1>. QED
  BY <1>1, <1>2, <1>3, InitRefines, Invariance, PTL
  DEF Spec, ImplementsPlanExecution, Abstract!Spec
=============================================================================
