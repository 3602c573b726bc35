---------------------------- MODULE MCMCPClient ----------------------------
(***************************************************************************)
(* A small instance of MCPClient: three executions, so that one can come   *)
(* after two that overlap.                                                 *)
(***************************************************************************)
EXTENDS MCPClient, TLC

CONSTANTS e1, e2, e3

MCExecutions == {e1, e2, e3}
MCSymmetry == Permutations(MCExecutions)
=============================================================================
