------------------------ MODULE MCDependencyContainer -----------------------
(***************************************************************************)
(* Three services in every dependency graph, two calls by the program.     *)
(***************************************************************************)
EXTENDS DependencyContainerProps, TLC

\* No action tells one service from another.
Symmetry == Permutations(Services)
=============================================================================
