------------------------------ MODULE MCMCPHost ------------------------------
(* MCPHost with its request tasks interchangeable. *)
EXTENDS MCPHost, TLC

Symmetry ==
  Permutations(Servers) \cup Permutations(Starts)
    \cup Permutations(Stops) \cup Permutations(Calls)
==============================================================================
