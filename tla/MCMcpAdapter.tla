---------------------------- MODULE MCMcpAdapter ----------------------------
(* TLC instances of McpAdapter.                                             *)
EXTENDS McpAdapter, TLC

Symmetric == Permutations(Calls)
=============================================================================
