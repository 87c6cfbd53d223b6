------------------------------- MODULE MCHostSync -------------------------------
(* The sync process over two workspaces and two nodes. *)
EXTENDS HostSync

CONSTANTS wA, wB, n1, n2

MCWorkspaces == {wA, wB}
MCNodes      == {n1, n2}
MCOneWorkspace == {wA}

=============================================================================
