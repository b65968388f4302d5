--------------------------- MODULE MCConfiguration ---------------------------
(***************************************************************************)
(* Two callers that change two keys, three visible snapshots: one update   *)
(* in the middle of another, and a third after both.                       *)
(***************************************************************************)
EXTENDS ConfigurationProps, TLC

Symmetry == Permutations(Callers) \cup Permutations(Keys)
=============================================================================
