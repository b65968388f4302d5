---------------------------- MODULE PlanAdmission ----------------------------
(***************************************************************************)
(* Who lets a plan pass.  The same steps meet up to three checks, written  *)
(* independently of each other: the PlanProposal Intelligence makes        *)
(* (decision/plan_proposal.py), the ExecutionPlan built from it            *)
(* (runtime/contracts/models.py), and the DefaultPlanValidator             *)
(* (intelligence/plan_validation.py).  The last two look for a cycle with  *)
(* a depth-first search each; the search is modelled visit by visit.       *)
(*                                                                         *)
(* The validator only asks for an instance of ExecutionPlan, and a         *)
(* subclass may do without the checks of the constructor: "keep the        *)
(* boundary defensive".  So every description goes through both.           *)
(***************************************************************************)
EXTENDS Naturals, Sequences

CONSTANTS
  Ids,       \* step ids
  Dotted,    \* those with a dot in them, which _STEP_ID_RE allows
  NoStep,    \* stands for a string that is the id of no step
  MaxSteps   \* bound on len(plan.steps)

ASSUME AdmissionAssumption ==
  MaxSteps \in Nat /\ Dotted \subseteq Ids /\ NoStep \notin Ids

\* What else may be the matter with a plan: nothing; a name that is blank; a
\* name that is not blank and matches no pattern ("Web Search"); a
\* dependency given twice; a "$ref" or an artifact reference, written by hand,
\* that is not one; input, constraints or metadata of a step, or those of the
\* plan, that hold something else than JSON (a set, NaN).
Flaws == {"none", "blank", "loose", "repeat", "badref", "stepdata", "plandata"}

\* A reference: step_output_ref(of) in the input of the first step, which is
\* read as a reference to the step "as".  Reading splits it at its dots, so
\* for an id with dots it finds the part before the first of them
\* ("steps.a.output.output", made for "a.output", is taken for the output of
\* "a"), or nothing it would accept ("steps.a.b.output").
NoReference == [of |-> NoStep, as |-> NoStep]
References ==
  { [of |-> i, as |-> i] : i \in Ids \ Dotted } \cup
  [of : Dotted, as : (Ids \ Dotted) \cup {NoStep}]

Step == [id : Ids, needs : SUBSET Ids]
StepLists == UNION { [1 .. n -> Step] : n \in 0 .. MaxSteps }
Descriptions ==
  [steps : StepLists, flaw : Flaws, reads : {NoReference}] \cup
  [steps : StepLists, flaw : {"none"}, reads : References]

VARIABLES
  plan,      \* the description; never changes
  stage,     \* who is at work: "construct", "validate", or "done"
  searching, \* its search for a cycle is under way
  stack,     \* the visits in progress: [id, todo], outermost first
  visiting,  \* the set of that name
  visited,   \* the set of that name
  root,      \* position of the step the loop around visit is to visit next
  built,     \* "unknown", "yes" or "no": the constructor returned
  valid      \* the same for the validator's status VALID

vars == <<plan, stage, searching, stack, visiting, visited, root, built, valid>>
searchVars == <<stack, visiting, visited, root>>

Positions == 1 .. Len(plan.steps)
StepIds   == { plan.steps[i].id : i \in Positions }

\* graph, and the validator's adjacency; the ids are distinct by then.
Needs(id) == UNION { plan.steps[i].needs : i \in { j \in Positions : plan.steps[j].id = id } }

Repeated == \E i, j \in Positions : i # j /\ plan.steps[i].id = plan.steps[j].id
SelfDependent == \E i \in Positions : plan.steps[i].id \in plan.steps[i].needs
Unknown  == \E i \in Positions : ~(plan.steps[i].needs \subseteq StepIds)
Has(f)   == plan.flaw = f

-----------------------------------------------------------------------------
(* The checks that come before the searches                                *)

\* PlanStepProposal and PlanProposal: nothing blank, no id twice.  What the
\* steps depend on is not looked at, and any data is taken.
Proposable == ~Has("blank") /\ ~Repeated

\* ExecutionStep: names that match their patterns, every dependency once, and
\* data that is JSON.
StepsRefused ==
  Has("blank") \/ Has("loose") \/ Has("repeat") \/ SelfDependent \/ Has("stepdata")

\* _validate_references: what a reference is read as must be a step.
ReferencesRefused ==
  \/ Has("badref")
  \/ plan.reads # NoReference /\ plan.reads.as \notin StepIds

\* Wrong on purpose: only the steps before it are known to a step.
PlanRefused_NoForward ==
  \/ Positions = {}
  \/ Repeated
  \/ \E i \in Positions : ~(plan.steps[i].needs \subseteq { plan.steps[j].id : j \in 1 .. i })
  \/ ReferencesRefused \/ Has("plandata")

\* ExecutionPlan, before _validate_acyclic.
PlanRefused ==
  Positions = {} \/ Repeated \/ Unknown \/ ReferencesRefused \/ Has("plandata")

\* DefaultPlanValidator.validate collects issues and goes on.  A plan without
\* steps has none, and it looks neither at references nor at other data.
IdentityIssue   == Has("blank")
StepIdIssue     == Has("blank") \/ Repeated
CapabilityIssue == Has("blank")
DependencyIssue == Has("blank") \/ Has("repeat") \/ SelfDependent
ReferenceIssue  == Unknown
Issues == IdentityIssue \/ StepIdIssue \/ CapabilityIssue \/ DependencyIssue \/ ReferenceIssue

-----------------------------------------------------------------------------
(* visit, of either search                                                 *)

Depth == Len(stack)
Top   == stack[Depth]
Pop   == SubSeq(stack, 1, Depth - 1)

StartSearch ==
  /\ searching' = TRUE
  /\ stack' = <<>> /\ visiting' = {} /\ visited' = {} /\ root' = 1

\* What the caller of visit makes of the answer: the constructor raises, the
\* validator adds DEPENDENCY_CYCLE and rejects.
Conclude(ok) ==
  /\ searching' = FALSE
  /\ IF stage = "construct"
       THEN stage' = "validate" /\ built' = (IF ok THEN "yes" ELSE "no") /\ UNCHANGED valid
       ELSE stage' = "done" /\ valid' = (IF ok THEN "yes" ELSE "no") /\ UNCHANGED built

\* visit(id) up to its loop over the dependencies, from the visits outer.
Visit(id, outer) ==
  IF id \in visiting THEN Conclude(FALSE) /\ UNCHANGED <<stack, visiting, visited>>
  ELSE /\ IF id \in visited
            THEN stack' = outer /\ UNCHANGED visiting
            ELSE /\ stack' = Append(outer, [id |-> id, todo |-> Needs(id)])
                 /\ visiting' = visiting \cup {id}
       /\ UNCHANGED <<visited, searching, stage, built, valid>>

\* The loop over the steps, in plan order.
VisitRoot ==
  /\ searching /\ stack = <<>> /\ root \in Positions
  /\ Visit(plan.steps[root].id, <<>>)
  /\ root' = root + 1
  /\ UNCHANGED plan

\* The loop over the dependencies; the constructor's goes over a set.
VisitDependency ==
  /\ searching /\ stack # <<>>
  /\ \E d \in Top.todo : Visit(d, [stack EXCEPT ![Depth].todo = @ \ {d}])
  /\ UNCHANGED <<plan, root>>

\* Wrong on purpose: visiting.remove(step_id) is missing.
Leave_KeepsVisiting ==
  /\ searching /\ stack # <<>> /\ Top.todo = {}
  /\ visited' = visited \cup {Top.id}
  /\ stack' = Pop
  /\ UNCHANGED <<plan, stage, searching, visiting, root, built, valid>>

\* Everything the step depends on was visited.
Leave ==
  /\ searching /\ stack # <<>> /\ Top.todo = {}
  /\ visiting' = visiting \ {Top.id}
  /\ visited' = visited \cup {Top.id}
  /\ stack' = Pop
  /\ UNCHANGED <<plan, stage, searching, root, built, valid>>

EndSearch ==
  /\ searching /\ stack = <<>> /\ root \notin Positions
  /\ Conclude(TRUE)
  /\ UNCHANGED <<plan, searchVars>>

-----------------------------------------------------------------------------

\* ExecutionStep(...) for every step, then ExecutionPlan(...).
Construct ==
  /\ stage = "construct" /\ ~searching
  /\ IF StepsRefused \/ PlanRefused
       THEN Conclude(FALSE) /\ UNCHANGED searchVars
       ELSE StartSearch /\ UNCHANGED <<stage, built, valid>>
  /\ UNCHANGED plan

\* DefaultPlanValidator.validate
Validate ==
  /\ stage = "validate" /\ ~searching
  /\ IF Issues
       THEN Conclude(FALSE) /\ UNCHANGED searchVars
       ELSE StartSearch /\ UNCHANGED <<stage, built, valid>>
  /\ UNCHANGED plan

Finished == stage = "done" /\ UNCHANGED vars

Init ==
  /\ plan \in Descriptions
  /\ stage = "construct" /\ searching = FALSE
  /\ stack = <<>> /\ visiting = {} /\ visited = {} /\ root = 1
  /\ built = "unknown" /\ valid = "unknown"

Next ==
  \/ Construct \/ Validate
  \/ VisitRoot \/ VisitDependency \/ Leave \/ EndSearch
  \/ Finished

Spec == Init /\ [][Next]_vars
=============================================================================
