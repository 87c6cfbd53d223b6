------------------------------ MODULE MCMcpServers ------------------------------
(* A small instance of McpServers for TLC.                                 *)
EXTENDS McpServers, TLC

\* Requests, servers, definitions and the two spellings are interchangeable.
Symmetry ==
  Permutations(Requests) \cup Permutations(Servers) \cup Permutations(Definitions)
    \cup Permutations(Spellings)
=============================================================================
