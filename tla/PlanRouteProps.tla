--------------------------- MODULE PlanRouteProps ---------------------------
(***************************************************************************)
(* What a caller may rely on when a plan has come through the pipelines.   *)
(***************************************************************************)
EXTENDS PlanRoute

TypeOK ==
  /\ plans \in Seq(Plan) /\ current \in Objects
  /\ pc \in {"validate", "select", "run", "done", "failed", "given up"}
  /\ validation = None \/ validation \in ValidationResult
  /\ selection = None \/ selection \in SelectionResult
  /\ attempt \in 0 .. Requests /\ replans \in 0 .. Requests
  /\ custom \in SUBSET {"validator", "selector"}
  /\ cleared \in SUBSET Objects

\* A plan is run only if a validator cleared this very object: not an earlier
\* plan of the same id, whatever validator and selector answer and however
\* often the plan was replaced in between.  With the default validator it is
\* therefore a plan whose steps do not wait for each other, as RuntimeExecutor
\* takes for granted.
RunIsCleared ==
  pc \in {"run", "done"} =>
    /\ selection.plan = current
    /\ current \in cleared
    /\ "validator" \notin custom => plans[current].sound

\* The candidates the latest selection could have meant.
Eligible ==
  { i \in DOMAIN asked.cands : asked.id = None \/ asked.cands[i] = asked.id }

\* DefaultWorkflowSelector never chooses: "duplicate workflow IDs are never
\* resolved by version or iteration order".  A workflow is selected if and
\* only if it is the one that can be meant, whether the id was asked for, came
\* with the plan, or was not given at all.
ChoiceIsForced ==
  selection # None /\ "selector" \notin custom =>
    CASE selection.status = "selected"  -> Eligible = {selection.workflow}
      [] selection.status = "not_found" -> Eligible = {}
      [] selection.status = "ambiguous" -> Cardinality(Eligible) > 1

\* A caller that counts its requests gets at most max_attempts replacements
\* out of the replanner, raised exceptions included, and when the pipeline
\* says LIMIT_REACHED they have all been used.
ReplannerBounded ==
  /\ replans <= MaxAttempts
  /\ pc = "given up" => replans = MaxAttempts
=============================================================================
