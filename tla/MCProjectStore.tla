--------------------------- MODULE MCProjectStore ---------------------------
(* Instances of ProjectStore for TLC. *)
EXTENDS ProjectStore

CONSTANTS p1, p2
=============================================================================
