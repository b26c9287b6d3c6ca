------------------------------- MODULE MCCallRPC -------------------------------
(***************************************************************************)
(* CallRPC for TLC: two handlers, a breaker that opens after two failures    *)
(* and closes after two probes.                                              *)
(***************************************************************************)
EXTENDS CallRPC
===============================================================================
