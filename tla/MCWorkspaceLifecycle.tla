-------------------------- MODULE MCWorkspaceLifecycle --------------------------
(* Two workspaces of one developer. *)
EXTENDS WorkspaceLifecycle, TLC

CONSTANTS wA, wB

MCWorkspaces   == {wA, wB}
MCOneWorkspace == {wA}

Symmetry == Permutations(MCWorkspaces)

=============================================================================
