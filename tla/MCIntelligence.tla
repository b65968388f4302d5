---------------------------- MODULE MCIntelligence --------------------------
(***************************************************************************)
(* TLC instances of Intelligence.                                          *)
(***************************************************************************)
EXTENDS IntelligenceProps
=============================================================================
