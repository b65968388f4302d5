----------------------------- MODULE MCPlanRoute -----------------------------
(***************************************************************************)
(* Two plan ids, so that the replacement of a replacement may have the id  *)
(* of the first plan; two workflow ids among up to two candidates, so that *)
(* they may be the same; one request more than max_attempts.               *)
(***************************************************************************)
EXTENDS PlanRouteProps, TLC

Symmetry == Permutations(PlanIds) \cup Permutations(WorkflowIds)
=============================================================================
