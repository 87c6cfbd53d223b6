------------------------------- MODULE MCPlatform -------------------------------
(***************************************************************************)
(* Small instances of PortReservation and of PlatformAdmin, side by side:  *)
(* the workspaces' ports and the platform's catalogue have no state in     *)
(* common, so a behaviour here is one of the ports, or one of the          *)
(* catalogue.                                                              *)
(***************************************************************************)
EXTENDS MCPortReservation, PlatformAdmin

VARIABLE part    \* whose behaviour it is: "ports" or "catalogue"

\* The sources are alike, so it is no matter which one the base is seeded with.
\* Only one of model and templates is there at first.
Seeded == SeedBaseTemplates(CHOOSE s \in Sources : TRUE)
NoTemplates == base = Seeded /\ flavor.version = 0

SideBySideInit ==
  /\ Init /\ CatalogueInit
  /\ base.published = Seeded.published
  /\ \/ part = "catalogue" /\ (provider => NoTemplates)
     \/ part = "ports" /\ ~provider /\ NoTemplates

SideBySideNext ==
  \/ part = "ports" /\ Next /\ UNCHANGED <<part, catalogue>>
  \/ part = "catalogue" /\ CatalogueNext /\ UNCHANGED <<part, vars>>

SideBySide == SideBySideInit /\ [][SideBySideNext]_<<part, vars, catalogue>>

\* Workspaces, and the admins' requests, are interchangeable.
BothSymmetries == Symmetry \cup Permutations(Requests)
=============================================================================
