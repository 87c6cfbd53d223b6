--------------------------- MODULE MCPortReservation ---------------------------
(* Three Creates compete for two or three ports. *)
EXTENDS PortReservation, TLC

CONSTANTS w1, w2, w3

MCWorkspaces == {w1, w2, w3}

Symmetry == Permutations(MCWorkspaces)

=============================================================================
