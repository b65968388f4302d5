------------------------------- MODULE MCTools -------------------------------
(***************************************************************************)
(* Two tools, which may share their capability, and two contributions of   *)
(* one or two tools, which may share them; two validations at a time.      *)
(***************************************************************************)
EXTENDS ToolsProps, TLC

Symmetry ==
  Permutations(ToolIds) \cup Permutations(Capabilities) \cup Permutations(Contributions)
=============================================================================
