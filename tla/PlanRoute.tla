------------------------------ MODULE PlanRoute ------------------------------
(***************************************************************************)
(* The way of a plan to its execution: PlanValidationPipeline (9.6), then  *)
(* WorkflowSelectionPipeline (9.7), and, when any of this or the execution *)
(* fails, BoundedReplanningPipeline (9.8) and from the start again, since  *)
(* "the replacement must be validated by 9.6 before execution".            *)
(*                                                                         *)
(* The caller that leads a plan along this way, and counts the attempts,   *)
(* is external.  So is every validator, selector and replanner that is     *)
(* plugged into a pipeline: it may answer anything, about any plan.        *)
(***************************************************************************)
EXTENDS Naturals, Sequences, FiniteSets

CONSTANTS
  PlanIds,       \* plan.plan_id
  WorkflowIds,   \* workflow.workflow_id
  MaxCandidates, \* bound on the workflows to choose from
  MaxAttempts,   \* ReplanRequest.max_attempts
  Requests,      \* bound on the calls of replanning
  None           \* Python's None; also: raises, or not of the right type

ASSUME RouteAssumption ==
  /\ MaxCandidates \in Nat /\ MaxAttempts \in Nat \ {0} /\ Requests \in Nat
  /\ None \notin PlanIds \cup WorkflowIds

Blank == "blank"

\* An ExecutionPlan: its id, whether DefaultPlanValidator finds no issue
\* (PlanAdmission), and metadata["workflow_id"].
Plan == [id : PlanIds, sound : BOOLEAN, wants : WorkflowIds \cup {None, Blank}]

\* The workflows to choose from, by their ids; versions are not looked at.
Candidates == UNION { [1 .. n -> WorkflowIds] : n \in 0 .. MaxCandidates }

VARIABLES
  plans,      \* the plan objects, in the order they were made
  current,    \* the one the caller is after, by its place in plans
  pc,         \* what the caller does next
  validation, \* the PlanValidationResult it holds, or None
  selection,  \* the WorkflowSelectionResult it holds, or None
  attempt,    \* ReplanRequest.attempt of the latest request, 0 before
  custom,     \* the stages that are not the default ones
  cleared,    \* history: the plans some validator found to be without issues
  asked,      \* history: what the latest selection was asked for
  replans     \* history: calls of replanner.replan

vars == <<plans, current, pc, validation, selection, attempt, custom, cleared, asked, replans>>

Objects == 1 .. Len(plans)

\* The result types refuse a status that contradicts the rest of the result.
ValidationResult == [plan : Nat \ {0}, status : {"valid", "rejected"}]
SelectionResult  ==
  [plan : Nat \ {0}, status : {"selected", "not_found", "ambiguous"}, workflow : Nat]

-----------------------------------------------------------------------------
(* 9.6                                                                     *)

\* DefaultPlanValidator.validate
DefaultValidate(p) == [plan |-> p, status |-> IF plans[p].sound THEN "valid" ELSE "rejected"]

Validators(p) ==
  IF "validator" \in custom
    THEN {None} \cup [plan : Objects, status : {"valid", "rejected"}]
    ELSE {DefaultValidate(p)}

\* Wrong on purpose: plans are compared by their ids.
Validate_ComparesIds ==
  /\ pc = "validate"
  /\ \E answer \in Validators(current) :
       /\ cleared' = IF answer # None /\ answer.status = "valid"
                       THEN cleared \cup {answer.plan} ELSE cleared
       /\ IF answer = None \/ plans[answer.plan].id # plans[current].id
            THEN pc' = "failed" /\ UNCHANGED validation
            ELSE validation' = answer /\ pc' = "select"
  /\ UNCHANGED <<plans, current, selection, attempt, custom, asked, replans>>

\* PlanValidationPipeline.run: what is not a result, or not about this very
\* object, raises.
Validate ==
  /\ pc = "validate"
  /\ \E answer \in Validators(current) :
       /\ cleared' = IF answer # None /\ answer.status = "valid"
                       THEN cleared \cup {answer.plan} ELSE cleared
       /\ IF answer = None \/ answer.plan # current
            THEN pc' = "failed" /\ UNCHANGED validation
            ELSE validation' = answer /\ pc' = "select"
  /\ UNCHANGED <<plans, current, selection, attempt, custom, asked, replans>>

-----------------------------------------------------------------------------
(* 9.7                                                                     *)

Answer(p, status, at) == [plan |-> p, status |-> status, workflow |-> at]
Matches(cands, id) == { i \in DOMAIN cands : cands[i] = id }
First(S) == CHOOSE i \in S : \A j \in S : i <= j

\* The explicit request wins over the plan's.
RequestedId(p, requested) == IF requested # None THEN requested ELSE plans[p].wants

\* Wrong on purpose: of several workflows with the id the first is taken.
DefaultSelect_First(p, cands, requested) ==
  LET id == RequestedId(p, requested) IN
  IF id = Blank THEN None
  ELSE IF cands = <<>> THEN Answer(p, "not_found", 0)
  ELSE IF id # None THEN
    IF Matches(cands, id) = {} THEN Answer(p, "not_found", 0)
    ELSE Answer(p, "selected", First(Matches(cands, id)))
  ELSE IF Len(cands) = 1 THEN Answer(p, "selected", 1)
  ELSE Answer(p, "ambiguous", 0)

\* DefaultWorkflowSelector.select; a blank id raises.
DefaultSelect(p, cands, requested) ==
  LET id == RequestedId(p, requested) IN
  IF id = Blank THEN None
  ELSE IF cands = <<>> THEN Answer(p, "not_found", 0)
  ELSE IF id # None THEN
    IF Matches(cands, id) = {} THEN Answer(p, "not_found", 0)
    ELSE IF Cardinality(Matches(cands, id)) > 1 THEN Answer(p, "ambiguous", 0)
    ELSE Answer(p, "selected", First(Matches(cands, id)))
  ELSE IF Len(cands) = 1 THEN Answer(p, "selected", 1)
  ELSE Answer(p, "ambiguous", 0)

\* What workflow a selector of one's own names is not looked at: 0.
Selectors(p, cands, requested) ==
  IF "selector" \in custom
    THEN {None} \cup { Answer(q, status, 0) : q \in Objects,
                        status \in {"selected", "not_found", "ambiguous"} }
    ELSE {DefaultSelect(p, cands, requested)}

\* WorkflowSelectionPipeline.run: a rejected plan raises before the selector
\* is called, an answer about another plan after.
Select ==
  /\ pc = "select" /\ validation.status = "valid"
  /\ \E cands \in Candidates, requested \in WorkflowIds \cup {None, Blank} :
     \E answer \in Selectors(validation.plan, cands, requested) :
       /\ asked' = [cands |-> cands, id |-> RequestedId(validation.plan, requested)]
       /\ IF answer = None \/ answer.plan # validation.plan
            THEN pc' = "failed" /\ UNCHANGED selection
            ELSE /\ selection' = answer
                 /\ pc' = IF answer.status = "selected" THEN "run" ELSE "failed"
  /\ UNCHANGED <<plans, current, validation, attempt, custom, cleared, replans>>

SelectRefuses ==
  /\ pc = "select" /\ validation.status # "valid"
  /\ pc' = "failed"
  /\ UNCHANGED <<plans, current, validation, selection, attempt, custom, cleared, asked, replans>>

-----------------------------------------------------------------------------
(* 9.8, and the caller                                                     *)

\* The selected workflow is run for the plan (WorkflowRuns, RuntimeExecutor).
Run ==
  /\ pc = "run"
  /\ pc' \in {"done", "failed"}
  /\ UNCHANGED <<plans, current, validation, selection, attempt, custom, cleared, asked, replans>>

\* Wrong on purpose: > has become > of the next attempt.
LimitReached_OneMore == attempt' > MaxAttempts + 1

LimitReached == attempt' > MaxAttempts

\* BoundedReplanningPipeline.run: over the limit the replanner is not called.
ReplanLimit ==
  /\ pc = "failed" /\ attempt < Requests
  /\ attempt' = attempt + 1
  /\ LimitReached
  /\ pc' = "given up"
  /\ UNCHANGED <<plans, current, validation, selection, custom, cleared, asked, replans>>

\* What replanner.replan returned is taken if it is a plan, another object
\* and of another id; the caller drops what it holds about the old plan.
Adopt(p) ==
  /\ p # current /\ plans'[p].id # plans[current].id
  /\ current' = p /\ validation' = None /\ selection' = None
  /\ pc' = "validate"

\* An exception costs the caller an attempt.
Raise == pc' = "failed" /\ UNCHANGED <<current, validation, selection>>

\* It makes a new plan, returns one that was there before, or raises.
Replan ==
  /\ pc = "failed" /\ attempt < Requests
  /\ attempt' = attempt + 1
  /\ ~LimitReached
  /\ replans' = replans + 1
  /\ \/ \E p \in Plan :
          /\ plans' = Append(plans, p)
          /\ IF p.id # plans[current].id THEN Adopt(Len(plans) + 1) ELSE Raise
     \/ /\ UNCHANGED plans
        /\ \/ \E p \in Objects : Adopt(p)
           \/ Raise
  /\ UNCHANGED <<custom, cleared, asked>>

Finished == pc \in {"done", "given up", "failed"} /\ UNCHANGED vars

Init ==
  /\ \E p \in Plan : plans = <<p>>
  /\ current = 1 /\ pc = "validate"
  /\ validation = None /\ selection = None
  /\ attempt = 0 /\ replans = 0
  /\ custom \in SUBSET {"validator", "selector"}
  /\ cleared = {} /\ asked = [cands |-> <<>>, id |-> None]

Next ==
  \/ Validate
  \/ Select \/ SelectRefuses
  \/ Run
  \/ ReplanLimit \/ Replan
  \/ Finished

Spec == Init /\ [][Next]_vars
=============================================================================
