--------------------------- MODULE MCPlanAdmission ---------------------------
(***************************************************************************)
(* Every plan of up to three steps over three ids, one of them dotted.     *)
(***************************************************************************)
EXTENDS PlanAdmissionProps, TLC

\* Nothing but the dot tells one id from another.
Symmetry == Permutations(Ids \ Dotted)
=============================================================================
