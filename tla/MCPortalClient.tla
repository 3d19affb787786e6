--------------------------- MODULE MCPortalClient ---------------------------
(* The tasks are interchangeable.                                             *)
EXTENDS PortalClient, TLC
Symmetry == Permutations(Tasks)
=============================================================================
