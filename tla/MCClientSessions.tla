-------------------------- MODULE MCClientSessions ---------------------------
(***************************************************************************)
(* Two requests of any two clients, two events, two sends of a request and *)
(* batches of two events: room for a repetition, an event of the other     *)
(* request, and a second response.                                         *)
(***************************************************************************)
EXTENDS ClientSessionsProps, TLC

Symmetry == Permutations(Requests) \cup Permutations(Events)
=============================================================================
