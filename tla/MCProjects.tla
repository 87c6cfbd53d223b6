------------------------------- MODULE MCProjects -------------------------------
(* A small instance of Projects for TLC.                                   *)
EXTENDS Projects, TLC

\* Requests, flavors and people are interchangeable.
Symmetry ==
  Permutations(Requests) \cup Permutations(Flavors) \cup
  Permutations(Subjects)
=============================================================================
