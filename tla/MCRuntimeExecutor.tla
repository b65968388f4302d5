------------------------- MODULE MCRuntimeExecutor --------------------------
(***************************************************************************)
(* TLC instances of RuntimeExecutor: every acyclic plan of NumSteps steps. *)
(***************************************************************************)
EXTENDS RuntimeExecutorProps
=============================================================================
