---------------------------- MODULE MCMCPServers ----------------------------
EXTENDS MCPServers, TLC

\* Row ids and requests are interchangeable; the users are one of each kind. For the
\* runs without a liveness property.
Symmetry == Permutations(Ids) \cup Permutations(Requests)
=============================================================================
