------------------------------- MODULE MCAiService -------------------------------
(***************************************************************************)
(* AiService for TLC: two users, three handlers.  Neither the handlers nor   *)
(* the users are told apart by the specification.                            *)
(***************************************************************************)
EXTENDS AiService, TLC

Symmetry == Permutations(Handlers) \cup Permutations(Users)
===============================================================================
