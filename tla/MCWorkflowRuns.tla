--------------------------- MODULE MCWorkflowRuns ---------------------------
(***************************************************************************)
(* Two jobs, plans of three steps, two requests one after the other.       *)
(***************************************************************************)
EXTENDS WorkflowRunsProps
=============================================================================
