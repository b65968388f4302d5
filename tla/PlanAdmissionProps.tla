------------------------- MODULE PlanAdmissionProps -------------------------
(***************************************************************************)
(* What the checks of a plan must agree on.                                *)
(***************************************************************************)
EXTENDS PlanAdmission

\* The values the variables take; visiting is the set of the ids on the stack.
TypeOK ==
  /\ plan \in Descriptions
  /\ stage \in {"construct", "validate", "done"}
  /\ searching \in BOOLEAN
  /\ stack \in Seq([id : Ids, todo : SUBSET Ids])
  /\ visiting \in SUBSET Ids /\ visited \in SUBSET Ids
  /\ root \in 1 .. MaxSteps + 1
  /\ built \in {"unknown", "yes", "no"} /\ valid \in {"unknown", "yes", "no"}

\* Some steps of the plan wait for each other: none of them can ever start.
\* The same notion as Acyclic of PlanExecution, over ids.
Cyclic == \E S \in (SUBSET StepIds) \ {{}} : \A s \in S : Needs(s) \cap S # {}

\* Both depth-first searches are exact, in whatever order the dependencies
\* come: a plan that was not refused before its search is refused by it if
\* and only if some of its steps wait for each other.  So a diamond is never
\* taken for a cycle, and what the executor is handed can always be finished.
SearchIsExact ==
  /\ built # "unknown" /\ ~(StepsRefused \/ PlanRefused) => (built = "yes" <=> ~Cyclic)
  /\ valid # "unknown" /\ ~Issues => (valid = "yes" <=> ~Cyclic)

\* The three checks were written apart and have drifted as far as this, no
\* further: a plan the constructor lets pass is VALID and could have been
\* proposed, so validating what is executable never refuses it; and a VALID
\* plan is one the constructor lets pass, unless it has no steps, a name that
\* is not blank but matches no pattern, data that is not JSON, or a reference
\* that was written wrongly, or is to a step that is not there or has a dot in
\* its id.  (The validator does not look at any of these.)
CheckersAgree ==
  stage = "done" =>
    /\ built = "yes" => valid = "yes" /\ Proposable
    /\ valid = "yes" =>
         \/ built = "yes"
         \/ plan.steps = <<>>
         \/ plan.flaw \in {"loose", "badref", "stepdata", "plandata"}
         \/ /\ plan.reads # NoReference
            /\ plan.reads.of \in Dotted \/ plan.reads.of \notin StepIds

\* models.py:28, step_output_ref: "Create a serializable reference to a
\* previous step's output."  A plan that has nothing wrong with it, and that
\* refers to one of its steps by what step_output_ref made, is built.
MadeReferencesAreAccepted ==
  stage = "done" /\ valid = "yes" /\ plan.flaw = "none" /\ plan.reads.of \in StepIds
    => built = "yes"
=============================================================================
