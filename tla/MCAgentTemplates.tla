---------------------------- MODULE MCAgentTemplates ----------------------------
(* A small instance of AgentTemplates for TLC.                             *)
EXTENDS AgentTemplates, TLC

\* The requests are interchangeable.
RequestSymmetry == Permutations(Requests)
=============================================================================
